SPECIFICATION FairSpec
CONSTANTS
    MaxServers = 3
    MaxConns = 2
    main = main
    api = api
    Main = main
    Callers <- TwoCallers
    ServerModes <- AllModes
INVARIANTS StaleServesOne NeverUnserved ServedByCurrent
PROPERTIES PanicHasCause ConnectionsServed
CHECK_DEADLOCK FALSE
