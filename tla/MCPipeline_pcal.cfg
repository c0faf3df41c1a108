SPECIFICATION Spec
CONSTANTS
    Targets <- MCOneTarget
    Wraps <- MCWraps
    Offsets <- MCNone
    WireCap = 1
    CalArgs <- MCNone
    PcalArgs <- MCCalArgs
    RxNames <- MCNone
    LoNames <- MCLoNames
    LoFreqs <- MCLoFreqs
    Modes <- MCModes
    Los <- MCLos
    Faults <- MCNone
INVARIANTS
    PcalFollows
