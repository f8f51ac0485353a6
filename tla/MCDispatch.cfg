SPECIFICATION Spec
CONSTANTS
    Deadline = 5
    Ttl = 2
    Late = 1
    MaxTime = 5
    Tabs <- SomeTabs
    MaxLeaves = 6
    Tasks = {"a", "b"}
    Orgs <- SomeOrgs
    Requests <- SomeRequests
    Layouts <- SomeLayouts
    Room = 1
    MaxTabs = 4
    Approval = 2
    Bind = 1
    Headroom = 0
    MaxPane = 5
    MaxClock = 4
    Projects = {"proj"}
    Misses = 1
    MaxSpace = 2
    MaxPanes = 4
    MaxBoots = 2
    MaxFaults = 1
INVARIANTS WorkerNeverExits RecordIsLatest MeasuresTheTab PanesStayUsable
    RefusedSpawnsCanBeRetried OverflowIsAFallback IgnoredFlagsAreInert AdoptsNoDeadAgents
PROPERTIES ApprovalEnds ViewportIsKept AdmitsBelowTheCeiling IndexFollowsTheTab SweepsCloseOnlyTheirOwn
CHECK_DEADLOCK FALSE
