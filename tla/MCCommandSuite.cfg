SPECIFICATION SuiteSpec
CONSTANTS
    None = None
    Clients = {c1, c2}
    Actions = {"click", "fill"}
    Policies <- SomePolicies
    Categories = {"fill"}
    MaxAsked = 3
    Daemons = {d1, d2, d3}
    MaxRetries = 2
    ClientPolls = 1
    MaxActive = 2
    MaxFaults = 1
    MayReuse = TRUE
    Hosted = {"d1", "d2", "d3", "d4", "d5"}
    Extensions = TRUE
    MaxTurns = 5
    Sequential = TRUE
    MaxBrowsers = 2
    Files = {"f1", "f2"}
    Tabs = {"t1", "t2"}
    Active = "t1"
    Patience = 0
    Looks = 1
    MaxQueue = 2
    MaxBatches = 3
    Limit = 3
    Capacity = 2
    MaxSteps = 4
    MaxNoise = 1
SYMMETRY Symmetry
CONSTRAINT NoRace
INVARIANTS
    DaemonUnlessRaced
    EmbeddedInOrder
    DownloadIsOurs
    TraceIsWhole
PROPERTIES
    GateHolds
    LaunchKeepsUp
    TabsFollowBrowser
    RoutesDecide
CHECK_DEADLOCK FALSE
