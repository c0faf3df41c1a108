SPECIFICATION Spec
CONSTANTS
    Modes <- MCModes
    Junk <- MCJunk
    MaxRec = 1
    QCap = 1
    React = 1
    MaxCrashes = 0
    Lossy = FALSE
INVARIANTS
    PollNeverFalse
