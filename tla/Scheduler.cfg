SPECIFICATION FairSpec
CONSTANTS
    a1 = a1  n1 = n1  m1 = m1  q1 = q1
    Jobs = {a1, n1}
    Retry = {n1}
    Default = {a1}
    Careless = {n1}
    Manual = {m1}
    Requests = {q1}
INVARIANTS TypeOK NoOrphan
PROPERTIES FinalIsFinal RunsEnd PausedEventually
