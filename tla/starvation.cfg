SPECIFICATION LiveSpec
CONSTANTS
    Workers = 2
    Keys = 3
    MaxRows = 3
    MaxArrivals = 0
    Endless = TRUE
    MaxFaults = 0
CHECK_DEADLOCK FALSE
PROPERTIES
    ActiveIsVisited
