\* One key, submitted and retried by two clients: three attempts at it, or two
\* whose submissions may fail.
SPECIFICATION Spec
CONSTANTS
    j1 = j1  j2 = j2  j3 = j3  u1 = u1  u2 = u2  w1 = w1  w2 = w2
    k1 = k1  k2 = k2  m1 = m1  m2 = m2  o1 = o1  o2 = o2
    None = None
    Jobs = {j1, j2, j3}
    Clients = {u1, u2}
    Workers = {w1, w2}
    Keys <- MCKeys
    Commits = {m1}
    CommandOf <- MCLocal
    OwnerOf <- MCOwners
    FailChoices = {TRUE, FALSE}
    MaxReadings <- MCReadings
    MaxFaults = 1
SYMMETRY Symmetry
CHECK_DEADLOCK FALSE
INVARIANTS
    OneTaskUnlessRejected
    OutcomeIsTold
PROPERTIES
    DecidedStaysDecided
