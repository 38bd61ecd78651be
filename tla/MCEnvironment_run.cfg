SPECIFICATION Spec
CONSTANTS
    e1 = e1
    e2 = e2
    e3 = e3
    t1 = t1
    t2 = t2
    Event = {e1, e2, e3}
    Timer = {t1, t2}
    Met <- MCMet
    Merged = Merged
    NoTimer = NoTimer
    NoEvent = NoEvent
    Start <- MCStart
    Priority <- MCPriority
    Period <- MCPeriod
    Final <- MCFinal
    MinusInfinity <- MCMinusInfinity
    MaxCalls = 4
INVARIANTS
    TypeOK
    PendingExplained
PROPERTIES
    ExecutionOrder
CHECK_DEADLOCK FALSE
