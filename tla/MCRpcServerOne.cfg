SPECIFICATION FairHandlerSpec
CONSTANTS
    Clients = {c1}
    QueueCapacity = 1
    MaxFrames = 3
    MaxEvents = 2
    Chatter = TRUE
INVARIANTS
    WrittenInOrder
    AnsweredUnlessOverlapping
PROPERTY
    AbandonedTurnCancelled
CHECK_DEADLOCK FALSE
