\* One forward over one link, three chunks each way, with late frames of
\* sockets that are gone.
SPECIFICATION FairTunnelSpec
CONSTANTS
    Flows = {f1}
    Socks = {k1, k2}
    NoSocket = NoSocket
    MaxChunks = 3
    Collide = FALSE
INVARIANTS OnlyFirstOvertaken SocketReachable
PROPERTIES  FlowsClose
CHECK_DEADLOCK FALSE
