CONSTANTS
    Versions = {v1, v2}
    Protected = {v1}
    Plugins = {auth, billing}
    NoTree = NoTree
    Torn = Torn
    MaxRuns = 2
SPECIFICATION FairSpec
INVARIANTS
    TypeOK
    InstallsOnlyVerified
    HubNotMisled
PROPERTIES
    RefusesOnlyFlawed
    ErrorsBecomeFailures
    ImplementsDeployment
CHECK_DEADLOCK FALSE
