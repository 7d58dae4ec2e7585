SPECIFICATION Spec
CONSTANTS
    Clients = {c1, c2}
    QueueCapacity = 1
    MaxFrames = 2
    MaxEvents = 0
    Chatter = FALSE
SYMMETRY Symmetry
INVARIANTS
    HistoryShowsAnsweredTurns
CHECK_DEADLOCK FALSE
