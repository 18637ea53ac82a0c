SPECIFICATION Spec
CONSTANTS
    None = None
    Hashes = {h1, h2}
    Keys = {k1}
    Txs = {t1, t2}
    Workers = {w1}
    Sessions = {i1, i2}
    MaxLosses = 1
    PageLimit = 2
SYMMETRY Symmetry
CHECK_DEADLOCK FALSE
INVARIANTS
    BusyKeyIsNotHeld
    FreeKeyIsQuiet
