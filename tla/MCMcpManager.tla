---------------------------- MODULE MCMcpManager ----------------------------
\* The TLC instance of McpManager; its values are given in the configurations.
EXTENDS McpManager, TLC
=============================================================================
