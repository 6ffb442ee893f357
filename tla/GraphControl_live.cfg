\* Two repositories of one tenant that may build one graph at a time; worker
\* and reconciler run again and again.
SPECIFICATION FairSpec
CONSTANTS
    j1 = j1  j2 = j2  a1 = a1  a2 = a2  a3 = a3  w1 = w1  w2 = w2
    c1 = c1  s1 = s1  s2 = s2  p1 = p1  p2 = p2  t1 = t1
    None = None
    Jobs <- MCJobs
    Attempts = {a1, a2}
    Workers = {w1}
    Reconcilers = {c1}
    Snapshots = {s1, s2}
    Repositories = {p1, p2}
    Tenants = {t1}
    SnapshotOf <- MCTwoSnapshots
    RepositoryOf <- MCTwoRepositories
    TenantOf <- MCTenant
    Lease = 1
    MaxLag = 1
    MaxSkew = 0
    MaxGlobal = 2
    MaxTenant = 1
    BatchSize = 2
INVARIANTS
    WithinBudgets
PROPERTIES
    AttemptsEnd
    JobsAreDecided
