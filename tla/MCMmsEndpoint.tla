---------------------------- MODULE MCMmsEndpoint ----------------------------
\* Small instances of MmsEndpoint for TLC.
EXTENDS MmsEndpoint, TLC

CONSTANTS a, b

=============================================================================
