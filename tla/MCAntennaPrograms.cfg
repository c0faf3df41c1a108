SPECIFICATION AntennaSpec
CONSTANTS
    Modes <- MCModes
    Junk <- MCJunk
    MaxRec = 2
    QCap = 2
    MaxSent = 6
INVARIANTS
    AntcnTyped
    AnswerIsOwn
    AntrcvTyped
    QuietWhileSettling
    EarlierTypeOK
    AskvaxQuiet
    JudgesRecent
PROPERTIES
    StrictWaits
    StrictReports
