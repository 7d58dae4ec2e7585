SPECIFICATION SuiteSpec
CONSTANTS
    Addresses = {here, there}
    MaxSockets = 2
    MaxSends = 2
    MaxResets = 2
    Contexts = {s1, s2, s3}
    NoContext = NoContext
    Unset = Unset
    MaxOpens = 2
    MaxRestarts = 1
SYMMETRY Symmetry
INVARIANTS
    WorkingIsTrue
    SelectionKept
    AggregatedInOrder
CHECK_DEADLOCK FALSE
