\* Nothing overlaps an attach: no subscription is lost, no approval is
\* forgotten, and with ids of their own all requests are answered.
SPECIFICATION FairSpec
CONSTANTS
    ConnIds = {c1, c2}
    AgentSessions = {s1, s2}
    Calls = {a1, a2, a3}
    Requests = {r1, r2}
    RequestIds = {i1, i2}
    Nil = Nil
    Overlap = FALSE
    DuplicateIds = FALSE
INVARIANTS   NoInventedApproval
PROPERTY EveryRequestSettles
CHECK_DEADLOCK FALSE
