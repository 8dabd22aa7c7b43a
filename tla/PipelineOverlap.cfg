SPECIFICATION Spec
CONSTANTS
    u1 = u1  u2 = u2  r1 = r1  f1 = f1  f2 = f2  c1 = c1  c2 = c2  w1 = w1  w2 = w2  q1 = q1
    None = None
    Users = {u1}
    Keys = {r1, f1}
    Records = {r1}
    Channels = {c1, c2}
    Workers = {w1, w2}
    Clicks = {}
    EventTypes <- MCEventTypes
    Kind <- MCKind
    Owner <- OneOwner
    FailureKey <- OneFailureKey
    Selections <- EveryChannel
    MaxAttempts = 1
    BatchLimit = 2
PROPERTY HangNeedsOverlap
SYMMETRY AlikeChannelsAndWorkers
