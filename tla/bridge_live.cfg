\* One client and three ttyd sockets: bytes in order, the terminal comes back,
\* and a gone session lets go.
SPECIFICATION FairSpec
CONSTANTS
    ConnIds = {c1}
    Sessions = {s1}
    Sockets = {w1, w2, w3}
    Nil = Nil
    MaxFrames = 2
    MaxTimers = 2
    ReuseConnIds = FALSE
INVARIANT NoOrphanTtyd
PROPERTIES  TtydAttached InputInOrder OutputInOrder
CHECK_DEADLOCK FALSE
