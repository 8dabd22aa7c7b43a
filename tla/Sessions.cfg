SPECIFICATION Spec
CONSTANTS
    n1 = n1  n2 = n2  p1 = p1  p2 = p2  t1 = t1  t2 = t2  q1 = q1  q2 = q2
    None = None
    Names = {n1, n2}
    Passwords = {p1, p2}
    Tokens = {t1, t2}
    Requests = {q1, q2}
INVARIANTS NoStaleSession
PROPERTIES LastAdminStays
SYMMETRY Alike
