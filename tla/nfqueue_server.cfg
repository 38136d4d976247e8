SPECIFICATION FairSpec
CONSTANTS
    MaxPackets = 3
    WorkerChanLen = 2
    f1 = f1
    f2 = f2
    w1 = w1
    w2 = w2
    Flows <- TwoFlows
    Workers <- TwoWorkers
    Hashes <- OneEachOrShared
    Forms <- AllForms
INVARIANT FlowOrder
PROPERTIES EveryPacketDecided CloseReturns ImplementsFlowQueue
CHECK_DEADLOCK FALSE
