SPECIFICATION LiveSpec
CONSTANTS
    Roles = {r1, r2}
    Managers = {m1, m2}
    Operators = {o1}
    Uuids = {u1}
    Arguments = {x, y}
    MaxWorks = 2
    MaxRequests = 2
    MaxLosses = 1
    MaxStops = 1
    None = None
CHECK_DEADLOCK FALSE
INVARIANTS
    AskedIsRetained
    GrowthWasSimulated
    UuidMeansOne
PROPERTIES
    ImplementsOneRequest
    IntentIsResolved
