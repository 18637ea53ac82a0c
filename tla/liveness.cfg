SPECIFICATION LiveSpec
CONSTANTS
    None = None
    Hashes = {h1}
    Keys = {k1}
    Txs = {t1}
    Workers = {w1}
    Sessions = {i1}
    MaxLosses = 1
    PageLimit = 1
CHECK_DEADLOCK FALSE
PROPERTIES
    IncludedIsSettled
    IncludedIsCommitted
    HeldKeyComesBack
