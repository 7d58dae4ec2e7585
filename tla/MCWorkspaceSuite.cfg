SPECIFICATION SuiteSpec
CONSTANTS
    MaxSaves = 3
    MaxRuns = 2
    Pieces = 2
    Nothing = Nothing
    Profiles <- SomeProfiles
    Ports <- SomePorts
    MaySlow = FALSE
    MaxTurns = 3
    MaxSteps = 2
    MaxCalls = 2
    KeepRecent = 2
    UserEdits = 1
    ToolCalls = 3
    FileNames = {"index.html", "topic.html", "logo.svg"}
    Lines = 3
    MaxTime = 4
    Unset = Unset
    Absent = Absent
    Garbage = Garbage
    Failed = Failed
INVARIANTS
    SavesAreAtomic
    ToolsTellTheWorkspace
    AlgorithmsAgree
    FindsRunning
    NetworkLogIsTrue
    LinesFitHandlers
PROPERTIES
    StartupKeepsWorkspace
    ChatStaysWellFormed
CHECK_DEADLOCK FALSE
