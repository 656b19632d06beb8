CONSTANTS
    MaxVersion = 3
    Agents = {"watch", "manual"}
    Settings <- AllSettings
SPECIFICATION FairSpec
INVARIANTS
    TypeOK
    ReportsTellTheHost
    FleetViewTrue
PROPERTIES
    Converges
    FailuresEndReported
CHECK_DEADLOCK FALSE
