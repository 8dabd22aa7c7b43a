SPECIFICATION Spec
CONSTANTS
    s1 = s1  s2 = s2  v1 = v1  v2 = v2
    None = None
    Shares = {s1}
    Visitors = {v1}
    Lifetimes = {2, 4}
    TTL = 2
    Skew = 0
    Limit = 2
    Window = 2
    MaxTime = 5
INVARIANTS OneLink ServedForCause WithinLimit RefusedForCause
