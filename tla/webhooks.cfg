SPECIFICATION FairSpec
CONSTANTS
    c1 = c1
    c2 = c2
    e1 = e1
    e2 = e2
    e3 = e3
    Callers = {c1, c2}
    Plan <- MCPlan
    TypeOf <- MCTypeOf
    configs <- MCConfigs
INVARIANTS
    AcknowledgedInOrder
    FailuresIsolated
PROPERTIES
    SendReturns
CHECK_DEADLOCK FALSE
