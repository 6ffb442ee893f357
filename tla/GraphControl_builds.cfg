\* Two builds of one snapshot, two attempts, two workers and a reconciler; the
\* replicas share the clock of the database, as RepositoryExclusive needs.
SPECIFICATION Spec
CONSTANTS
    j1 = j1  j2 = j2  a1 = a1  a2 = a2  a3 = a3  w1 = w1  w2 = w2
    c1 = c1  s1 = s1  s2 = s2  p1 = p1  p2 = p2  t1 = t1
    None = None
    Jobs <- MCJobs
    Attempts = {a1, a2}
    Workers = {w1, w2}
    Reconcilers = {c1}
    Snapshots = {s1}
    Repositories = {p1}
    Tenants = {t1}
    SnapshotOf <- MCSameSnapshot
    RepositoryOf <- MCRepository
    TenantOf <- MCTenant
    Lease = 1
    MaxLag = 1
    MaxSkew = 0
    MaxGlobal = 2
    MaxTenant = 2
    BatchSize = 2
SYMMETRY Symmetry
INVARIANTS
    PublishedIsSealed
    PublishedOnce
    FencedOwner
    StalePageIsHarmless
    PointerIsTheActiveRow
    RepositoryExclusive
PROPERTIES
    DecidedByLatestAttempt
    PublicationSpec
