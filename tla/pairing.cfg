\* The QR of the start and two more, asked for one at a time.
SPECIFICATION FairSpec
CONSTANTS
    Overlap = FALSE
    MaxTokens = 3
    MaxFaults = 1
    Countdown = 2
  
PROPERTY ButtonReturns
CHECK_DEADLOCK FALSE
