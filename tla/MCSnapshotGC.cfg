CONSTANTS
    demo = demo
    auth = auth
    v1 = v1
    v2 = v2
    Absent = Absent
    Torn = Torn
    Targets = {demo, auth}
    EnvFiles = {}
    Units = {}
    Versions = {v1, v2}
    Plans <- BothPlans
    Faults = {"crash"}
    MaxDeploys = 2
    Segment <- DistinctSegments
    Mtime <- BuildTimes
    Keep = 1
    Collectors = {"watcher", "process"}
SPECIFICATION GCSpec
INVARIANTS
    GCTypeOK
    KeepsPerDirectory
CHECK_DEADLOCK FALSE
