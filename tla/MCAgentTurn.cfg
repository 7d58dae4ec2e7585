SPECIFICATION FairSpec
CONSTANTS
    Inputs = {i1, i2}
    Tools = {edit, complete}
    CompleteTask = complete
    UnknownTools = {ghost}
    CallIds = {c1, c2}
    MaxToolIterations = 2
    MaxToolCalls = 3
    MaxCallsPerResponse = 2
    MaxTurns = 2
INVARIANTS
    TypeOK
    ConversationWellFormed
    ProgressTellsTheTurn
    LoopNeverFallsThrough
    StoredWholeTurns
PROPERTIES
    KeepsPromise
    TurnEnds
