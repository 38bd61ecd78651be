SPECIFICATION MapSpec
CONSTANTS
    zero = zero
    four = four
    short = short
    seven = seven
    Cells = 3
    Number = {0, 1, 4, 7}
    Missing = 9
    MinValue = 0
    MaxValue = 4
    Rows = 3
    Unit = 3
    Listed <- MCListed
    Label = {zero, four, short, seven}
    Shown <- MCShown
    ReadBack <- MCReadBack
    EqualSteps = EqualSteps
    Quantil = Quantil
    UniqueValue = UniqueValue
    MaxLayers = 2
INVARIANTS
    MapTypeOK
    CountedOnce
    ColoursStay
    PictureIsTrue
CHECK_DEADLOCK FALSE
