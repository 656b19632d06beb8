CONSTANTS
    auth = auth
    bus = bus
    Root = Root
    NoManifest = NoManifest
    NoArtifact = NoArtifact
    Plugins = {auth}
    Extensions = {bus}
    Ids <- AllIds
    Inputs <- AllPlans
    Files <- AllFiles
    Projects <- AllProjects
    MaxActs = 3
SPECIFICATION FairPackSpec
INVARIANTS
    PackTypeOK
    DependenciesFirst
    RejectsOnlyUnsound
    AcceptedIsOneMoment
    AcceptsOwnBuild
    NothingElseSealed
    ScaffoldRuns
PROPERTIES
    BuildEnds
CHECK_DEADLOCK FALSE
