SPECIFICATION FairSpec
CONSTANTS
    Modes <- MCSourceModes
    Junk <- MCJunk
    MaxRec = 0
    QCap = 1
    React = 1
    MaxCrashes = 0
    Lossy = FALSE
PROPERTIES
    CoveredRequestExpires
    VerdictFollows
