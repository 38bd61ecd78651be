SPECIFICATION FairSpec
CONSTANTS
    g = g
    h = h
    a = a
    s1 = s1
    s2 = s2
    s3 = s3
    s4 = s4
    c1 = c1
    c2 = c2
    Agent = {g, h}
    Automaton = {a}
    State = {s1, s2, s3, s4}
    Id <- MCId
    Jumps <- MCJumps
    Flows <- MCFlows
    Compositions <- MCCompositions
    Trajectories <- MCTrajectories
    Cell = {c1, c2}
    Alone = Alone
    Null = Null
    MaxBuilt = 2
    MaxTime = 1
    MaxTrue = 2
INVARIANTS
    TypeOK
    FlowsWhenSettled
    OwnModes
    LatencyIsTransition
PROPERTIES
    VisitsEveryCell
    ExecuteReturns
CHECK_DEADLOCK FALSE
