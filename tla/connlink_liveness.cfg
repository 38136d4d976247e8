SPECIFICATION FairSpec
CONSTANTS
    MaxC = 2
    MaxS = 1
    Setups <- AllSetups
PROPERTIES BothSidesFinish ClientHeard ServerHeardAfterClient
CHECK_DEADLOCK FALSE
