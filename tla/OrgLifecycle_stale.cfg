SPECIFICATION Spec
CONSTANTS
    Daemons = {d1, d2, d3}
    None = None
INVARIANTS UpFindsItsOwnDaemon
CHECK_DEADLOCK FALSE
