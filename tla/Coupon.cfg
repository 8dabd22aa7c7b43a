SPECIFICATION Spec
CONSTANTS
    c1 = c1  c2 = c2
    None = None
    Claims = {c1, c2}
    MaxLogins = 2
    MaxMonth = 2
INVARIANTS FinalIsGranted ExpiredForCause
PROPERTIES FinalStays
SYMMETRY Alike
