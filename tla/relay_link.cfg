\* The uplink when 'error' is handled.
SPECIFICATION FairSpec
CONSTANTS
    Sockets = {w1, w2}
    Nil = Nil
    ErrorListener = TRUE
PROPERTIES ImplementsUplink OnlyUnansweredDropped SilenceEnds 
CHECK_DEADLOCK FALSE
