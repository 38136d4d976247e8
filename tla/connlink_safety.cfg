SPECIFICATION Spec
CONSTANTS
    MaxC = 3
    MaxS = 2
    Setups <- AllSetups
INVARIANTS NoTrafficAfterReject ResponsesDelivered
INVARIANTS LateHasCause UnevaluatedHasCause HandshakeSafeWithResponseRules
CHECK_DEADLOCK FALSE
