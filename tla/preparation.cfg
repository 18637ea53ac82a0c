SPECIFICATION LiveSpec
CONSTANTS
    MaxHeight = 4
    TimeoutBlocks = 2
    MaxGas = 10
    Used <- MCUsed
    Prices <- MCPrices
    None = None
CHECK_DEADLOCK FALSE
INVARIANTS
    TypeOK
    CancelledForCause
    SentIsCurrent
    GasIsEnough
    FeeIsEnough
PROPERTIES
    PreparedSettles
