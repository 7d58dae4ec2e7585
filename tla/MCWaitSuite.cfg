SPECIFICATION SuiteSpec
CONSTANTS
    Nothing = Nothing
    Hosts = {"name", "public", "private"}
    Names = {"name"}
    Private = {"private"}
    MaxRedirects = 1
    MaxBytes = 2
    MaxFetches = 2
    MaxAttempts = 2
    MaxTries = 3
    MaxLines = 1
    Requests = {r1, r2}
    Quiet = 3
    Patience = 4
    Deadline = 10
    Late = FALSE
    NoTime = NoTime
INVARIANTS
    OkMeansIdle
    FetchIsChecked
    ChromeIsOurs
    OwnAnswer
PROPERTIES
    EveryWaitEnds
CHECK_DEADLOCK FALSE
