SPECIFICATION Spec
CONSTANTS
    t1 = t1
    t2 = t2
    t3 = t3
    f = f
    g = g
    Task = {t1, t2, t3}
    Name = {f, g}
    NameOf <- MCNameOf
    NoTask = NoTask
    NoName = NoName
    MaxCpu = 2
    InitCpu = 2
    NpArg <- MCNpArg
    TaskNumCpu = 0
    FailingTask = {}
PROPERTIES
    JoinWaitsForBag
CHECK_DEADLOCK FALSE
