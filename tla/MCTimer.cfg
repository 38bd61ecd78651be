SPECIFICATION FairSpec
CONSTANTS
    e1 = e1
    e2 = e2
    e3 = e3
    Event = {e1, e2, e3}
    NoEvent = NoEvent
    Start <- MCStart
    Priority <- MCPriority
    Period <- MCPeriod
    Final <- MCFinal
    MinusInfinity <- MCMinusInfinity
    MaxCalls = 5
INVARIANTS
    TypeOK
    ScheduledOnce
    QueueOrdered
    NothingPending
PROPERTIES
    ExecutionOrder
    RunExhausts
    RunReturns
CHECK_DEADLOCK FALSE
