SPECIFICATION MCSpec
CONSTANTS
    Agents = {a, b, p}
    Owners = {a, b}
    Logical = {b}
    Instances = {i1, i2}
    Rows = {r1}
    None = None
    Renotify = TRUE
    MaxGen = 2
    MaxEpoch = 1
    MaxMint = 3
SYMMETRY Symmetry
INVARIANTS TypeOK ClaimFenced ReceiptAwaitedOnce AdoptionFence NoOrphanedFence
PROPERTIES DeliveredIsFinal ImplementsFencedQueue
CHECK_DEADLOCK FALSE
