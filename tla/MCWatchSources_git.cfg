CONSTANTS
    MaxVersion = 3
    Plans <- GitPlans
    Modes <- StayModes
    Troubles = {}
    MaxTroubles = 0
    MaxPublish = 2
SPECIFICATION FairSpec
PROPERTIES
    Synced
