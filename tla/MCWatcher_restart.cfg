CONSTANTS
    MaxVersion = 3
    PluginCount = 2
    Supervisors = {"systemd"}
    Troubles = {"restart_error"}
    MaxTroubles = 1
    MaxPublish = 3
SPECIFICATION FairSpec
PROPERTIES
    ProcessesFollow
CHECK_DEADLOCK FALSE
