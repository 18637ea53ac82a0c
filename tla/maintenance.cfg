SPECIFICATION LiveSpec
CONSTANTS
    MaxItems = 3
    PageLimit = 2
    MaxRestarts = 1
CHECK_DEADLOCK FALSE
PROPERTIES
    PagesComeCloser
    RequestsAreVisited
    RowsAreVisited
