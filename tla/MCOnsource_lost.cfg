SPECIFICATION Spec
CONSTANTS
    Modes <- MCOffsetModes
    Junk <- MCJunk
    MaxRec = 0
    QCap = 1
    React = 1
    MaxCrashes = 0
    Lossy = TRUE
INVARIANTS
    LostNeverReported
