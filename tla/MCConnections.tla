---------------------------- MODULE MCConnections ----------------------------
EXTENDS Connections
=============================================================================
