SPECIFICATION Spec
CONSTANTS
    MaxSaves = 2
    Pieces = 2
INVARIANT
    ResetClearsHistory
