SPECIFICATION Spec
CONSTANTS
    None = None
    Hashes = {h1, h2}
    Keys = {k1}
    Txs = {t1, t2}
    Workers = {w1, w2}
    Sessions = {i1}
    MaxLosses = 0
    PageLimit = 2
SYMMETRY Symmetry
CHECK_DEADLOCK FALSE
INVARIANTS
    TypeOK
    AtMostOneSend
    JournalTruth
    SqlTruth
PROPERTIES
    ImplementsOneAttempt
