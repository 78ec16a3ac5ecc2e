---------------------------- MODULE MCRelayHttp ----------------------------
\* One login and two requests for an SSH connection.
EXTENDS RelayHttp

CONSTANTS r1, r2, r3

MCReq == {r1, r2, r3}
MCOpenReq == {r2, r3}
=============================================================================
