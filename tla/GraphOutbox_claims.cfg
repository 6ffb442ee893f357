\* The shortest claim that Validate accepts for batches of two, under which
\* claims overlap, and the shortest that covers the claim call as well.
\* Dispatchers run again and again.
SPECIFICATION FairSpec
CONSTANTS
    e1 = e1  e2 = e2  d1 = d1  d2 = d2
    Events = {e1, e2}
    Dispatchers = {d1, d2}
    BatchSize = 2
    MaxAttempts = 2
    PublishTimeout = 1
    StoreTimeout = 1
    ClaimDurations = {5, 6}
    BaseBackoff = 1
    MaxBackoff = 2
    MaxFaults = 1
INVARIANTS
    FinalRowsAreEarned
    ExclusiveClaim
PROPERTIES
    FinalIsFinal
    EventsSettle
