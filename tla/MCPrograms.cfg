SPECIFICATION ProgramsSpec
CONSTANTS
    MaxOrders = 3
    Modules <- MCModules
    Settings = {1, 2}
    Angles <- MCAngles
    Users <- MCUsers
    StcomCells = 3
    StmCells = 6
    Blocks = {0, 1, 2}
    Targets <- MCNone
    Wraps <- MCWraps
    Offsets <- MCNone
    WireCap = 1
    CalArgs <- MCCalArgs
    PcalArgs <- MCCalArgs
    RxNames <- MCRxNames
    LoNames <- MCLoNames
    LoFreqs <- MCLoFreqs
    Modes <- MCModes
    FibaLos = {2404800, 811000, 159999, 160000}
    MaxCopies = 5
INVARIANTS
    ProgramsTypeOK
    LateByOneRecord
    ReportsChecked
    NearestText
    TextAligned
    BlocksApart
    CalWordsAgree
    FiltersFollow
    CopiersTold
PROPERTIES
    StopObeyed
CHECK_DEADLOCK FALSE
