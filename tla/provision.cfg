SPECIFICATION LiveSpec
CONSTANTS
    Processes = {p1}
    Identities = {i1}
    RoleIds = {r1, r2}
    AccountIds = {a1}
    Phrases = {k1, k2, k3}
    Legacy = {}
    Foreign = {}
    MaxLosses = 1
    MaxRenewals = 1
    MaxStops = 1
    None = None
CHECK_DEADLOCK FALSE
PROPERTIES
    RoleIsBound
    AccountIsQueued
