SPECIFICATION SuiteSpec
CONSTANTS
    Paths = {"a", "b"}
    MaxTabs = 1
    MaxTasks = 2
    MaxFrames = 1
    None = None
    StreamTabs = {"t1", "t2"}
    Viewers = 2
    StreamChanges = 7
    SharedChanges = 6
INVARIANTS
    DashboardEventsFit
PROPERTIES
    RecordingIsSaved
    ViewersSeeTheTab
    EveryRequestEnds
CHECK_DEADLOCK FALSE
