SPECIFICATION FairSpec
CONSTANTS
    Clients = {c1, c2}
    QueueCapacity = 1
    MaxFrames = 1
    MaxEvents = 1
    Chatter = FALSE
PROPERTY
    RequestsEnd
CHECK_DEADLOCK FALSE
