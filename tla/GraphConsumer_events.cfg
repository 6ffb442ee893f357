\* An event of the repository pipeline and one of another producer, consumers
\* of two releases, a client, and room for one build.
SPECIFICATION Spec
CONSTANTS
    e1 = e1  f1 = f1  k1 = k1  d1 = d1  d2 = d2
    u1 = u1  c1 = c1  c2 = c2  s1 = s1  s2 = s2  t1 = t1  v1 = v1  v2 = v2
    None = None
    Rows = {e1}
    Events = {e1, f1}
    Dispatchers = {d1}
    BatchSize = 2
    MaxAttempts = 2
    Snapshots = {s1, s2}
    Versions = {v1, v2}
    Keys = {e1, f1, k1}
    Tenants = {t1}
    TenantOf <- MCTenantOf
    Clients = {u1}
    Consumers = {c1, c2}
    Requests <- MCRequests
    SnapshotOf <- MCSnapshotOf
    MaxPendingGlobal = 2
    MaxPendingPerTenant = 1
    MaxFaults = 1
SYMMETRY Symmetry
INVARIANTS
    PendingWithinQuota
    OneBuildPerKey
    AcceptedIsStored
    NothingIsLost
