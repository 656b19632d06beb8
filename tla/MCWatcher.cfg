CONSTANTS
    MaxVersion = 3
    PluginCount = 2
    Supervisors <- SupervisorKinds
    Troubles <- AllTroubles
    MaxTroubles = 3
    MaxPublish = 2
SPECIFICATION FairSpec
INVARIANTS
    TypeOK
    RecordNeverAhead
    RestartedOnRecord
PROPERTIES
    Converges
