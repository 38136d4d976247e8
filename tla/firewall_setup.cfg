SPECIFICATION Spec
CONSTANTS
    Hosts <- SmallHosts
    Configs <- SmallConfigs
    MaxJobs = 3
    MaxFaults = 1
INVARIANTS RulesMatch AllOrNothing ExitsClean BlockedBy
CHECK_DEADLOCK FALSE
