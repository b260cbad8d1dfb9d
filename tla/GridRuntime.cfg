SPECIFICATION FairSpec
CONSTANTS
    Configs <- MCConfigs
    None = None
    MaxVersion = 3
    MaxWire = 1
    MaxFailures = 1
    MaxTroubles = 1
    MaxCrashes = 1
INVARIANT
    GridOK
PROPERTY
    RowCatchesUp
CHECK_DEADLOCK FALSE
