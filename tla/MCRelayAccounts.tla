--------------------------- MODULE MCRelayAccounts ---------------------------
\* One browser beside others, two requests at a time.
EXTENDS RelayAccounts

CONSTANTS b1

MCReq == 1..2
=============================================================================
