CONSTANTS
    Processes = {deploy, watch}
    Sources <- DistinctSources
    Revisions = 2
    Faults = {"crash", "refused", "io_error"}
    MaxFaults = 2
    MaxResolves = 4
SPECIFICATION Spec
INVARIANTS
    ReturnsSource
PROPERTIES
    ResolvedForGood
CHECK_DEADLOCK FALSE
