\* Watchers of two sessions; the stream is started only when none is left over.
SPECIFICATION FairSpec
CONSTANTS
    Sessions = {s1, s2}
    Phones = {p1, p2}
    Conns = {k1, k2}
    Nil = Nil
    AnySession = AnySession
    Overlap = FALSE
  
PROPERTY StreamReturns
CHECK_DEADLOCK FALSE
