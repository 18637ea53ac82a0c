SPECIFICATION Spec
CONSTANTS
    Processes = {p1, p2}
    Identities = {i1}
    RoleIds = {r1, r2}
    AccountIds = {a1}
    Phrases = {k1, k2, k3}
    Legacy = {old1}
    Foreign = {far1}
    MaxLosses = 1
    MaxRenewals = 1
    MaxStops = 1
    None = None
SYMMETRY Symmetry
CHECK_DEADLOCK FALSE
INVARIANTS
    OneKeyPerIdentity
    KeyHasBackup
    BoundIsRecoverable
PROPERTIES
    NoSecondRegistration
    ImplementsIdentityKeys
