\* Two machines, invited, leaving, restarted, with stale connections.
SPECIFICATION FairSpec
CONSTANTS
    Servers = {n1, n2}
    Conns = {k1, k2}
    Nil = Nil
    Fresh = FALSE
    LeaveAtStart = FALSE
INVARIANT ClientsMatchPeers
PROPERTIES EjectedStaysOut MemberNotEvicted MembersMeet
CHECK_DEADLOCK FALSE
