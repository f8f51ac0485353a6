SPECIFICATION FairSpec
CONSTANTS
    Rows = {r1, r2}
    Requests = {c1, c2}
    Timers = {k1}
    Workers = {w1}
    Turns = {}
    NoOne = NoOne
    MaxTries = 1
INVARIANTS TypeOK ClaimWatched
PROPERTIES LapsedClaimsReaped
