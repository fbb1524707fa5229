\* Pages of one message, and of a transcript of four.
SPECIFICATION FairTailSpec
CONSTANTS
    PageSize = 1
    MaxLines = 4
    MaxAttaches = 2
INVARIANTS TailOnce HistoryWhole
PROPERTY TailCatchesUp
CHECK_DEADLOCK FALSE
