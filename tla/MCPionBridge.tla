---------------------------- MODULE MCPionBridge ----------------------------
\* Small instances of the Pion bridge for TLC.
EXTENDS PionBridge
=============================================================================
