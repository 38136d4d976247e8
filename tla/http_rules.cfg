SPECIFICATION Spec
CONSTANTS
    Texts <- SmallTexts
    Configs <- SmallConfigs
    Kinds <- SmallKinds
    Replies <- SmallReplies
    MaxRequests = 2
INVARIANTS OrderlyExchange RejectHolds AgentFromRules BodiesIntact
PROPERTIES RequestsSettled
CHECK_DEADLOCK FALSE
