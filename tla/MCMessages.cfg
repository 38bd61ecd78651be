SPECIFICATION Spec
CONSTANTS
    a1 = a1
    a2 = a2
    Agent = {a1, a2}
    Inherits = {a1}
    Delay = {1, 2}
    Amount = {1, 2}
    Waits = Waits
    Over = Over
    MaxMessages = 3
    MaxClock = 4
    MaxDepth = 4
INVARIANTS
    TypeOK
    OnTime
PROPERTIES
    ImplementsMailbox
CHECK_DEADLOCK FALSE
