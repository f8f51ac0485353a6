SPECIFICATION FairSpec
CONSTANTS
    Rows = {r1}
    Requests = {c1, c2}
    Timers = {}
    Workers = {w1, w2}
    Turns = {t1, t2}
    NoOne = NoOne
    MaxTries = 2
INVARIANTS BrokerTextsApart
PROPERTIES WorkersEnd
