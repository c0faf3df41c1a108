SPECIFICATION Spec
CONSTANTS
    Modes <- MCOffsetModes
    Junk <- MCJunk
    MaxRec = 0
    QCap = 1
    React = 1
    MaxCrashes = 1
    Lossy = TRUE
INVARIANTS
    NoFalseOnsource
PROPERTIES
    KeepsPromise
    AntcnAmongOthers
    AntrcvAmongOthers
