SPECIFICATION Spec
CONSTANTS
    None = None
    Hashes = {h1, h2, h3}
    Keys = {k1}
    Txs = {t1, t2}
    Workers = {w1}
    Sessions = {i1}
    MaxLosses = 2
    PageLimit = 1
SYMMETRY Symmetry
CHECK_DEADLOCK FALSE
INVARIANTS
    NoSequenceReuse
    KeyExclusive
PROPERTIES
    VerdictIsFinal
