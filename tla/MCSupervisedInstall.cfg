CONSTANTS
    demo = demo
    auth = auth
    demo_env = demo_env
    demo_unit = demo_unit
    NotRunning = NotRunning
    Units = {demo_unit}
    Supervisors = {"null", "systemd", "kubernetes"}
    Loads <- LoadsDemo
    Retries = 1
    MaxChanges = 1
    Absent = Absent
    Torn = Torn
    Targets = {demo, auth}
    EnvFiles = {demo_env}
    Versions = {v1, v2}
    Plans <- AllPlans
    Faults = {"crash", "undo_io"}
    MaxDeploys = 2
SPECIFICATION FairSupervisedSpec
INVARIANTS
    SupervisedTypeOK
    RollbackRestores
    InstalledWhole
    ServesWhatItInstalled
PROPERTIES
    EnvNeverOverwritten
    ImplementsAtomicDeploy
    EndsOrHangs
CHECK_DEADLOCK FALSE
