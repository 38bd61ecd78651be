SPECIFICATION Spec
CONSTANTS
    Size <- MCSize
    InitialSize <- MCInitialSize
    MinimumSize = 2
    Header = 1
    Blank = Blank
INVARIANTS
    TypeOK
PROPERTIES
    WholeWhenIntact
CHECK_DEADLOCK FALSE
