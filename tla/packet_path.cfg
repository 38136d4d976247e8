SPECIFICATION Spec
CONSTANTS
    Configs <- SmallConfigs
    Kinds <- SmallKinds
    MaxPackets = 3
    MaxInFlight = 2
    MaxChanges = 2
INVARIANTS NoLoop StrayHasCause RewriteReached  
CHECK_DEADLOCK FALSE
