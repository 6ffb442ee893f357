\* The task of a remote repository.
SPECIFICATION FairSpec
CONSTANTS
    j1 = j1  j2 = j2  j3 = j3  u1 = u1  u2 = u2  w1 = w1  w2 = w2
    k1 = k1  k2 = k2  m1 = m1  m2 = m2  o1 = o1  o2 = o2
    None = None
    Jobs = {j1, j2}
    Clients = {u1}
    Workers = {w1}
    Keys <- MCKeys
    Commits = {m1}
    CommandOf <- MCRemote
    OwnerOf <- MCOwners
    FailChoices = {FALSE}
    MaxReadings <- MCTwoReadings
    MaxFaults = 0
CHECK_DEADLOCK FALSE
PROPERTIES
    FirstTaskSettles
