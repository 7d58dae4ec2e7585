SPECIFICATION Spec
CONSTANTS
    Clients = {c1}
    QueueCapacity = 1
    MaxFrames = 2
    MaxEvents = 1
    Chatter = FALSE
INVARIANT
    EveryRequestAnswered
CHECK_DEADLOCK FALSE
