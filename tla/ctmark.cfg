SPECIFICATION Spec
CONSTANTS
    MaxPackets = 4
    f1 = f1
    f2 = f2
    f3 = f3
    d1 = d1
    d2 = d2
    Flows <- ThreeFlows
    Dsts <- TwoDsts
    Dst <- Dests
    SkipDomains <- Domains
    Lower = 10201
    Upper = 10202
INVARIANT ExemptHasCause
PROPERTIES HTTPSticks
CONSTRAINTS
    OnlyLastToD2
    OnlyWhatIsRead
SYMMETRY Symmetry
CHECK_DEADLOCK FALSE
