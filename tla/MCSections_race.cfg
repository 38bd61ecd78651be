SPECIFICATION SectionsSpec
CONSTANTS
    text = text
    zero = zero
    one = one
    Thread = {p1, p2}
    Id = {text, zero, one}
    KeyOf <- MCKeyOf
    Rounds = 2
    Nobody = Nobody
    MainScript = MainScript
INVARIANTS
    NoTableRace
CHECK_DEADLOCK FALSE
