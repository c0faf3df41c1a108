SPECIFICATION Spec
CONSTANTS
    Targets <- MCTargets
    Wraps <- MCWraps
    Offsets <- MCNone
    WireCap = 1
    CalArgs <- MCCalArgs
    PcalArgs <- MCNone
    RxNames <- MCNone
    LoNames <- MCLoNames
    LoFreqs <- MCLoFreqs
    Modes <- MCModes
    Los <- MCLos
    Faults <- MCNone
INVARIANTS
    Be4Follows
