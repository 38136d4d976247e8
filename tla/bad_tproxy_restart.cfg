SPECIFICATION Spec
CONSTANTS
    Hosts <- IptablesHost
    Configs <- TproxyConfigs
    MaxJobs = 2
    MaxFaults = 1
INVARIANT RestartSucceeds
CHECK_DEADLOCK FALSE
