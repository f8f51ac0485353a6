SPECIFICATION HistorySpec
CONSTANTS
    Rows = {r1}
    Requests = {c1}
    Timers = {k1}
    Workers = {w1}
    Turns = {}
    NoOne = NoOne
    MaxTries = 1
PROPERTIES ReapedRowsAreNudged
