SPECIFICATION Spec
CONSTANTS
    Targets <- MCOneTarget
    Wraps <- MCWraps
    Offsets <- MCOffsets
    WireCap = 4
    CalArgs <- MCNone
    PcalArgs <- MCNone
    RxNames <- MCNone
    LoNames <- MCNone
    LoFreqs <- MCLoFreqs
    Modes <- MCModes
    Los <- MCLos
    Faults <- MCNone
PROPERTIES
    OffsetsPaired
