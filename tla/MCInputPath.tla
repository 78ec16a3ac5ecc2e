---------------------------- MODULE MCInputPath ----------------------------
\* One session of each source.
EXTENDS InputPath
=============================================================================
