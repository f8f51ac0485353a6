SPECIFICATION MCSpec
CONSTANTS
    Agents = {a, b}
    Owners = {a, b}
    Logical = {b}
    Instances = {i1, i2}
    Rows = {}
    None = None
    Renotify = FALSE
    MaxGen = 4
    MaxEpoch = 0
    MaxMint = 5
SYMMETRY InstanceSymmetry
INVARIANTS AdoptRestoresIncumbent LeaseHolderKnowsSecret
CHECK_DEADLOCK FALSE
