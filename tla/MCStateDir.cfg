SPECIFICATION StateDirSpec
CONSTANTS
    Rows = {"r1"}
    RowForms <- SomeRow
    Tasks = {"t1"}
    Lines <- SomeLines
    Stampers = {"w1", "w2"}
    RawConfigs <- AllConfigs
    Defaults <- Default
    Chunk = 4
    Cap = 1000
    MaxNow = 3
    MaxLines = 3
    MaxSpoils = 1
    Pids = {1, 2}
    Files = {"f"}
    MaxStarts = 2
    FastReuse = FALSE
    Daemons = {d1, d2, d3}
    None = None
INVARIANTS SilencedOnlyAfterRinging RepeatsHaveACause TailReadsWindow ConfigsMakeALadder
    SignalsOnlyRegistered ForgetsOnlyTheGone TypeOK OneDaemon LiveDaemonIsFound ForgetsOnlyDeadDaemon
    ReapSparesLiveOrg
PROPERTIES UrgentAlarmsRing AdviceLeadsUp
CHECK_DEADLOCK FALSE
