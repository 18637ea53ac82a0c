SPECIFICATION Spec
CONSTANTS
    None = None
    Hashes = {h1, h2}
    Keys = {k1, k2}
    Txs = {t1, t2}
    Workers = {w1}
    Sessions = {i1}
    MaxLosses = 0
    PageLimit = 1
SYMMETRY Symmetry
CHECK_DEADLOCK FALSE
INVARIANTS
    BusyKeyIsNotHeld
