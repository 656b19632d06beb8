CONSTANTS
    demo = demo
    auth = auth
    v1 = v1
    v2 = v2
    Absent = Absent
    Torn = Torn
    Targets = {demo, auth}
    EnvFiles = {}
    Units = {}
    Versions = {v1, v2}
    Plans <- BothPlans
    Faults = {}
    MaxDeploys = 2
    Segment <- SameSegments
    Mtime <- BuildTimes
    Keep = 1
    Collectors = {"watcher"}
SPECIFICATION GCSpec
INVARIANTS
    KeepsPerDirectory
CHECK_DEADLOCK FALSE
