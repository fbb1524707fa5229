\* Two sends to one session, one after the other, that may open on the desk.
SPECIFICATION FairSpec
CONSTANTS
    Sends = {a, b}
    Hooks = TRUE
    Overlap = FALSE
    MaxSessions = 2
    MaxCalls = 2
    MaxMoves = 2
    MaxFaults = 1
 
PROPERTIES CallsSettle PromptHeard
CHECK_DEADLOCK FALSE
