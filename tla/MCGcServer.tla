------------------------------ MODULE MCGcServer ----------------------------
EXTENDS GcServer

CONSTANTS p1, p2

MCPeers == {p1, p2}
=============================================================================
