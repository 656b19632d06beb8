CONSTANTS
    MaxVersion = 3
    Plans <- AllPlans
    Modes <- AllModes
    Troubles = {"check_error", "fetch_error", "io_error", "crash", "revert"}
    MaxTroubles = 2
    MaxPublish = 2
SPECIFICATION FairSpec
INVARIANTS
    TypeOK
    UpToDateIsReal
PROPERTIES
    InSync
    SettlesDown
