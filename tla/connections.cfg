SPECIFICATION RecordsSpec
CONSTANTS
    Srcs <- SmallSrcs
    Dests <- SmallDests
    MaxConns = 2
    Capacity = 1
INVARIANTS ListExplained UninspectedHasCause
PROPERTY ForgottenInTheEnd
CHECK_DEADLOCK FALSE
