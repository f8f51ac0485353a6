SPECIFICATION Spec
CONSTANTS
    Agents = {a}
    Owners = {a}
    Logical = {}
    Instances = {i1, i2}
    Rows = {}
    None = None
    Renotify = FALSE
    MaxGen = 4
    MaxEpoch = 0
    MaxMint = 4
PROPERTIES ClosingHuskIsHarmless
CHECK_DEADLOCK FALSE
