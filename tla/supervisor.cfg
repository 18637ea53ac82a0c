SPECIFICATION LiveSpec
CONSTANTS
    Workers = 2
    Keys = 3
    MaxRows = 3
    MaxArrivals = 4
    Endless = FALSE
    MaxFaults = 1
CHECK_DEADLOCK FALSE
INVARIANTS
    SlotsSuffice
    StoppedIsQuiet
PROPERTIES
    RecoverySkipsNobody
    ActiveIsVisited
    PendingIsClaimed
    StopEnds
