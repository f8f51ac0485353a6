SPECIFICATION HistorySpec
CONSTANTS
    Agents = {a, p}
    Owners = {a}
    Logical = {}
    Instances = {i1, i2}
    Rows = {r1}
    None = None
    Renotify = FALSE
    MaxGen = 0
    MaxEpoch = 0
    MaxMint = 3
PROPERTIES NoCrossSessionDelivery
CHECK_DEADLOCK FALSE
