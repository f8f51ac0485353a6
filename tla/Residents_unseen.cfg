SPECIFICATION ResidentsSpec
CONSTANTS
    Pids = {1}
    Files = {"f"}
    MaxStarts = 1
    FastReuse = FALSE
INVARIANTS DeletesOnlyStale
CHECK_DEADLOCK FALSE
