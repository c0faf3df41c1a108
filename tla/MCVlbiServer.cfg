SPECIFICATION ServerSpec
CONSTANTS
    Targets <- MCTargets
    Los <- MCLos
    Wraps <- MCWraps
    Offsets <- MCOffsets
    Faults <- MCFaults
INVARIANTS
    ServerTypeOK
    Be4Current
    IfBoxCurrent
