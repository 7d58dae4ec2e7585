SPECIFICATION Spec
CONSTANTS
    Addresses = {here}
    MaxSockets = 1
    MaxSends = 1
    MaxResets = 1
INVARIANT
    PendingTurnInHistory
CHECK_DEADLOCK FALSE
