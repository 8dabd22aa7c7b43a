--------------------------- MODULE MCUserSessions ---------------------------
(* Small instances of UserSessions for TLC.                                *)
EXTENDS UserSessions, TLC

CONSTANTS n1, n2, p1, p2, t1, t2, q1, q2

Alike == Permutations(Names) \cup Permutations(Passwords)
           \cup Permutations(Tokens) \cup Permutations(Requests)
=============================================================================
