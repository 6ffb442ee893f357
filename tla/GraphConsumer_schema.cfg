\* An event of the repository pipeline reaches the consumer.
SPECIFICATION Spec
CONSTANTS
    e1 = e1  f1 = f1  k1 = k1  d1 = d1  d2 = d2
    u1 = u1  c1 = c1  c2 = c2  s1 = s1  s2 = s2  t1 = t1  v1 = v1  v2 = v2
    None = None
    Rows = {e1}
    Events = {e1, f1}
    Dispatchers = {d1, d2}
    BatchSize = 2
    MaxAttempts = 2
    Snapshots = {s1, s2}
    Versions = {v1}
    Keys = {e1, f1, k1}
    Tenants = {t1}
    TenantOf <- MCTenantOf
    Clients = {u1}
    Consumers = {c1}
    Requests <- MCSameRequest
    SnapshotOf <- MCSnapshotOf
    MaxPendingGlobal = 2
    MaxPendingPerTenant = 1
    MaxFaults = 1
INVARIANTS
    OwnEventsAreAccepted
