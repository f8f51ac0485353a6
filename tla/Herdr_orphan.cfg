SPECIFICATION HerdrSpec
CONSTANTS
    Projects = {}
    Misses = 3
    MaxSpace = 2
    MaxPanes = 4
    MaxBoots = 1
    MaxFaults = 0
INVARIANTS LiveAgentsAreTracked
CHECK_DEADLOCK FALSE
