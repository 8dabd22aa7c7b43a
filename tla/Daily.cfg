SPECIFICATION Spec
CONSTANTS
    r1 = r1  r2 = r2  r3 = r3  NoRun = NoRun
    Runs = {r1, r2, r3}
    Target = 2
    Protected = 1
    MaxAttempts = 4
    MaxTries = 3
    MaxBalance = 4
INVARIANTS OneAtATime Allowance AuditNeverOverstates
PROPERTIES WithinTargetButLost ProtectedButLost DayClosedOnce DayKept
SYMMETRY AlikeRuns
