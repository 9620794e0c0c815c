\* Two peers, a table of three socket numbers shared with another socket
\* user, two client slots.
CONSTANTS
    p1 = p1
    p2 = p2
    Other = other
    None = none
    Peers <- MCPeers
    Fds = {1, 2, 3}
    MaxTcpClients = 2
    MaxConnects = 4
    MaxSends = 2
SPECIFICATION Spec
\* With every peer connected or done and the slots taken, the server waits
\* in xSemaphoreTake or accept() for good.
CHECK_DEADLOCK FALSE
INVARIANT SlotsConserved
