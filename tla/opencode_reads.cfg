\* Two reads at a time, one lost answer, a reply that grows.
SPECIFICATION FairOpencodeSpec
CONSTANTS
    MaxRows = 3
    MaxChanges = 2
    MaxSize = 2
    MaxReads = 2
    MaxFailures = 1
    RowLimit = 3
    Legacy = 1
    EmptyRows = FALSE
    MidTurn = FALSE
INVARIANTS  AskedOnce
PROPERTY PhoneCatchesUp
CHECK_DEADLOCK FALSE
