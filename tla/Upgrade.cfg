SPECIFICATION Spec
CONSTANTS
    c1 = c1  c2 = c2
    None = None
    Charges = {c1, c2}
    Legacy = 3
    MaxRows = 4
INVARIANTS NoSecondTelling NothingLost
SYMMETRY Alike
