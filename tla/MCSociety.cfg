SPECIFICATION Spec
CONSTANTS
    c1 = c1
    c2 = c2
    Space <- MCSpace
    Outside = Outside
    Nowhere = Nowhere
    Unplaced = Unplaced
    Whole = Whole
    Old = Old
    Nothing = Nothing
    Capacity <- MCCapacity
    Quantity <- MCQuantity
    MaxAgents = 3
    MaxId = 4
    MaxCalls = 5
INVARIANTS
    TypeOK
    DeadAreGone
    PlacementAgrees
    VisitsStaying
PROPERTIES
    PlacementFits
CHECK_DEADLOCK FALSE
