\* Three servers in a row, two faults, one upgrade; the user waits for exits.
SPECIFICATION FairSpec
CONSTANTS
    Overlap = FALSE
    MaxServers = 3
    MaxFaults = 2
    MaxWrappers = 2
INVARIANTS OrphansFound 
PROPERTY SpawnedRecovered
CHECK_DEADLOCK FALSE
