CONSTANTS
    Versions = {v1, v2}
    Protected = {v1}
    Plugins = {auth, billing}
    NoTree = NoTree
    Torn = Torn
    MaxRuns = 2
SPECIFICATION Spec
INVARIANTS
    FailuresAreReported
CHECK_DEADLOCK FALSE
