---------------------------- MODULE GraphControl ----------------------------
(***************************************************************************)
(* The control plane of one graph build: the PostgreSQL job, attempt,      *)
(* revision, pointer and outbox tables, the Neo4j candidate of each        *)
(* attempt, the graph workers that claim jobs under a fenced lease, and    *)
(* the reconcilers that expire attempts and delete orphaned candidates.    *)
(*                                                                         *)
(* An attempt and the revision it builds get fresh random identities in    *)
(* the same RunOnce call, so one identity stands for both.                 *)
(*                                                                         *)
(* Time. lease_expires_at is kept as ttl[a], the ticks left on the clock   *)
(* of the database; Tick is that clock. Workers and reconcilers compare    *)
(* leases with a time.Now() of their own that was read earlier and on      *)
(* another host: such a reading is an offset from the database clock, at   *)
(* most MaxLag behind it and at most MaxSkew ahead. A lease that expired   *)
(* MaxLag ticks ago is expired for every reading, so ttl stops there.      *)
(*                                                                         *)
(* Each SQL transaction is SERIALIZABLE or a single statement: one step.   *)
(***************************************************************************)
EXTENDS Integers, FiniteSets

CONSTANTS
    Jobs,           \* admitted build jobs (see enqueueGraphBuild)
    Attempts,       \* attempt/revision identities that RunOnce can draw
    Workers,        \* claim loops, over all replicas of the graph-worker role
    Reconcilers,    \* replicas of the reconciler role
    Snapshots, Repositories, Tenants,
    None,           \* no identity
    SnapshotOf,     \* job.Scope.SnapshotID
    RepositoryOf,   \* job.Scope.RepositoryID
    TenantOf,       \* job.Scope.TenantID
    Lease,          \* WorkerConfig.LeaseDuration, in ticks
    MaxLag,         \* age of a clock reading when the statement runs
    MaxSkew,        \* advance of a replica's clock over the database's
    MaxGlobal,      \* WorkerConfig.MaxConcurrentGlobal
    MaxTenant,      \* WorkerConfig.MaxConcurrentTenant
    BatchSize       \* ReconcilerConfig.BatchSize

ASSUME IdentityAssumption == None \notin Jobs \cup Attempts

ASSUME ScopeAssumption ==
    /\ SnapshotOf \in [Jobs -> Snapshots]
    /\ RepositoryOf \in [Jobs -> Repositories]
    /\ TenantOf \in [Jobs -> Tenants]

ASSUME TimeAssumption ==
    /\ Lease \in Nat \ {0}
    /\ MaxLag \in Nat
    /\ MaxSkew \in Nat

ASSUME LimitAssumption ==
    /\ MaxGlobal \in Nat \ {0}
    /\ MaxTenant \in 1..MaxGlobal
    /\ BatchSize \in Nat \ {0}

VARIABLES
    jobStatus,       \* graph_build_jobs.status
    jobRevision,     \* graph_build_jobs.revision_id
    cancelRequested, \* jobs with graph_build_jobs.cancel_requested
    attStatus,       \* graph_build_attempts.status, "NEW" before the insert
    attJob,          \* graph_build_attempts.job_id
    fence,           \* graph_build_attempts.fence, 0 before the insert
    ttl,             \* graph_build_attempts.lease_expires_at, relative to now
    revStatus,       \* graph_revisions.build_status, "NEW" before the insert
    active,          \* graph_active_revisions, by snapshot
    outbox,          \* revisions with a row in graph_outbox_events
    candidate,       \* candidate_status of the GraphRevision node in Neo4j
    pc,              \* where each worker stands in RunOnce
    own,             \* the attempt each worker holds
    recPc,           \* where each reconciler stands in RunOnce
    todo             \* the rest of the page a reconciler works through

jobVars == <<jobStatus, jobRevision>>
attVars == <<attStatus, attJob, fence>>
pubVars == <<revStatus, active, outbox>>
workerVars == <<pc, own>>
recVars == <<recPc, todo>>
vars == <<jobVars, cancelRequested, attVars, ttl, pubVars, candidate,
          workerVars, recVars>>

-----------------------------------------------------------------------------

JobStatuses == {"PENDING", "BUILDING", "SUCCEEDED", "FAILED", "CANCELLED"}
AttemptStatuses == {"NEW", "RUNNING", "SUCCEEDED", "FAILED", "LOST", "CANCELLED"}
RevisionStatuses == {"NEW", "ACTIVE", "SUPERSEDED"}
CandidateStatuses == {"ABSENT", "STAGING", "SEALED"}

(* The stages of execute, in order, and the two ways of FailGraphAttempt.  *)
BuildStages == {"reading", "creating", "writing", "sealing", "sealed", "activating"}
FailStages == {"failing", "cancelling"}

ClockReadings == (-MaxLag)..MaxSkew
Ttls == (-MaxLag)..(MaxSkew + Lease)

Expiry(r) == IF r + Lease < -MaxLag THEN -MaxLag ELSE r + Lease

TypeOK ==
    /\ jobStatus \in [Jobs -> JobStatuses]
    /\ jobRevision \in [Jobs -> Attempts \cup {None}]
    /\ cancelRequested \in SUBSET Jobs
    /\ attStatus \in [Attempts -> AttemptStatuses]
    /\ attJob \in [Attempts -> Jobs \cup {None}]
    /\ fence \in [Attempts -> Nat]
    /\ ttl \in [Attempts -> Ttls]
    /\ revStatus \in [Attempts -> RevisionStatuses]
    /\ active \in [Snapshots -> Attempts \cup {None}]
    /\ outbox \in SUBSET Attempts
    /\ candidate \in [Attempts -> CandidateStatuses]
    /\ pc \in [Workers -> {"idle"} \cup BuildStages \cup FailStages]
    /\ own \in [Workers -> Attempts \cup {None}]
    /\ recPc \in [Reconcilers -> {"idle", "expiring", "cleaning"}]
    /\ todo \in [Reconcilers -> SUBSET Attempts]

Init ==
    /\ jobStatus = [j \in Jobs |-> "PENDING"]
    /\ jobRevision = [j \in Jobs |-> None]
    /\ cancelRequested = {}
    /\ attStatus = [a \in Attempts |-> "NEW"]
    /\ attJob = [a \in Attempts |-> None]
    /\ fence = [a \in Attempts |-> 0]
    /\ ttl = [a \in Attempts |-> -MaxLag]
    /\ revStatus = [a \in Attempts |-> "NEW"]
    /\ active = [s \in Snapshots |-> None]
    /\ outbox = {}
    /\ candidate = [a \in Attempts |-> "ABSENT"]
    /\ pc = [w \in Workers |-> "idle"]
    /\ own = [w \in Workers |-> None]
    /\ recPc = [c \in Reconcilers |-> "idle"]
    /\ todo = [c \in Reconcilers |-> {}]

-----------------------------------------------------------------------------
(* Rows as the statements select them.                                     *)

Running(a) == attStatus[a] = "RUNNING"
AttemptsOf(j) == {a \in Attempts : attStatus[a] # "NEW" /\ attJob[a] = j}

(* status='RUNNING' AND lease_expires_at>now, for a reading r of the clock. *)
LiveAttempts(r) == {a \in Attempts : Running(a) /\ ttl[a] > r}

LiveInTenant(t, r) == {a \in LiveAttempts(r) : TenantOf[attJob[a]] = t}
LiveInRepository(p, r) == {a \in LiveAttempts(r) : RepositoryOf[attJob[a]] = p}

(* Mutants of the SELECT: decided jobs are picked too, only new jobs are   *)
(* picked, the repository is not counted, the tenant budget is off by one. *)
ClaimableNew(j, r) ==
    /\ j \notin cancelRequested
    /\ jobStatus[j] = "PENDING"
    /\ LiveInRepository(RepositoryOf[j], r) = {}

ClaimableAnywhere(j, r) ==
    /\ j \notin cancelRequested
    /\ jobStatus[j] \in {"PENDING", "BUILDING"}
    /\ \A a \in LiveAttempts(r) : attJob[a] # j
    /\ Cardinality(LiveAttempts(r)) < MaxGlobal
    /\ Cardinality(LiveInTenant(TenantOf[j], r)) < MaxTenant

ClaimableOneMore(j, r) ==
    /\ ClaimableAnywhere(j, r) \/ Cardinality(LiveInTenant(TenantOf[j], r)) = MaxTenant
    /\ jobStatus[j] \in {"PENDING", "BUILDING"}
    /\ \A a \in LiveAttempts(r) : attJob[a] # j

(* The job SELECT of claimGraphBuild. maxRepository is always 1.           *)
Claimable(j, r) ==
    /\ j \notin cancelRequested
    /\ jobStatus[j] \in {"PENDING", "BUILDING"}
    /\ \A a \in LiveAttempts(r) : attJob[a] # j
    /\ Cardinality(LiveAttempts(r)) < MaxGlobal
    /\ Cardinality(LiveInTenant(TenantOf[j], r)) < MaxTenant
    /\ LiveInRepository(RepositoryOf[j], r) = {}

(* Mutant: a takeover reuses the fence.                                    *)
SameFence(j, f) ==
    \/ f = 1 /\ AttemptsOf(j) = {}
    \/ \E a \in AttemptsOf(j) : f = fence[a]

(* COALESCE(MAX(fence),0)+1                                                *)
IsNextFence(j, f) ==
    /\ \A a \in AttemptsOf(j) : fence[a] < f
    /\ \/ f = 1
       \/ \E a \in AttemptsOf(j) : f = fence[a] + 1

(* Mutant: attempts of cancelled jobs are forgotten.                       *)
ExpiredUncancelled(r) ==
    {a \in Attempts : Running(a) /\ ttl[a] <= r /\ attJob[a] \notin cancelRequested}

(* ExpiredGraphAttempts                                                    *)
ExpiredAttempts(r) == {a \in Attempts : Running(a) /\ ttl[a] <= r}

(* Mutant: the job that still names the revision is not looked at.         *)
UnpublishedCandidates(r) ==
    {a \in Attempts :
        /\ attStatus[a] \in {"FAILED", "LOST", "CANCELLED"}
        /\ ttl[a] <= r
        /\ revStatus[a] = "NEW"}

(* UnreferencedGraphCandidates. The retention period is "some time after   *)
(* the attempt ended": the reconciler may be slow, so nothing is lost by   *)
(* letting it list a candidate as soon as the other conditions hold.       *)
UnreferencedCandidates(r) ==
    {a \in Attempts :
        /\ attStatus[a] \in {"FAILED", "LOST", "CANCELLED"}
        /\ ttl[a] <= r
        /\ revStatus[a] = "NEW"
        /\ \A s \in Snapshots : active[s] # a
        /\ \A j \in Jobs : jobRevision[j] = a =>
               jobStatus[j] \notin {"PENDING", "BUILDING", "SUCCEEDED"}}

(* ORDER BY ... LIMIT BatchSize: any page of the rows, full if it can be.  *)
Pages(S) == {P \in SUBSET S : \/ P = S /\ Cardinality(S) <= BatchSize
                              \/ Cardinality(P) = BatchSize}

-----------------------------------------------------------------------------
(* The worker: RunOnce, execute and the lease guard.                       *)

(* ClaimGraphBuildWithinLimits, under the advisory lock. Which of the      *)
(* claimable jobs is oldest and unlocked is left open (SKIP LOCKED). The   *)
(* expired attempts of that job become LOST. A claim whose answer is lost  *)
(* is this step followed by Abandon.                                       *)
Claim(w) ==
    /\ pc[w] = "idle"
    /\ \E j \in Jobs, a \in Attempts, r \in ClockReadings :
          /\ attStatus[a] = "NEW"
          /\ Claimable(j, r)
          /\ \E f \in 1..(Cardinality(Attempts) + 1) :
                /\ IsNextFence(j, f)
                /\ fence' = [fence EXCEPT ![a] = f]
          /\ attStatus' = [b \in Attempts |->
                 IF b = a THEN "RUNNING"
                 ELSE IF b \in ExpiredAttempts(r) /\ attJob[b] = j THEN "LOST"
                 ELSE attStatus[b]]
          /\ attJob' = [attJob EXCEPT ![a] = j]
          /\ ttl' = [ttl EXCEPT ![a] = Expiry(r)]
          /\ jobStatus' = [jobStatus EXCEPT ![j] = "BUILDING"]
          /\ jobRevision' = [jobRevision EXCEPT ![j] = a]
          /\ pc' = [pc EXCEPT ![w] = "reading"]
          /\ own' = [own EXCEPT ![w] = a]
    /\ UNCHANGED <<cancelRequested, pubVars, candidate, recVars>>

(* HeartbeatGraphBuild: the row is tested against the clock of the         *)
(* database, the new expiry comes from the clock of the worker.            *)
LeaseRenewable(a, r) ==
    /\ Running(a)
    /\ ttl[a] > 0
    /\ r + Lease > 0
    /\ attJob[a] \notin cancelRequested

Renewed(a) ==
    \E r \in ClockReadings :
        /\ LeaseRenewable(a, r)
        /\ ttl' = [ttl EXCEPT ![a] = Expiry(r)]

MoveTo(w, stage) == pc' = [pc EXCEPT ![w] = stage]

(* RunOnce returns without recording a failure.                            *)
Leave(w) ==
    /\ pc' = [pc EXCEPT ![w] = "idle"]
    /\ own' = [own EXCEPT ![w] = None]

(* The ticker of leaseGuard.start, concurrent with the stages of execute,  *)
(* and the renewals before each batch.                                     *)
Heartbeat(w) ==
    /\ pc[w] \in BuildStages
    /\ Renewed(own[w])
    /\ UNCHANGED <<jobVars, cancelRequested, attVars, pubVars, candidate,
                   workerVars, recVars>>

(* A renewal that updates no row. The second SELECT tells a cancellation   *)
(* from a lost lease; if it fails the lease counts as lost. The former is  *)
(* recorded by FailGraphAttempt, the latter is not.                        *)
HeartbeatRefused(w) ==
    /\ pc[w] \in BuildStages
    /\ \E r \in ClockReadings : ~ LeaseRenewable(own[w], r)
    /\ \/ /\ attJob[own[w]] \in cancelRequested
          /\ MoveTo(w, "cancelling")
          /\ UNCHANGED own
       \/ Leave(w)
    /\ UNCHANGED <<jobVars, cancelRequested, attVars, ttl, pubVars, candidate, recVars>>

(* guard.renew between two stages of execute. "writing" stands for the     *)
(* artifact pages, CompleteArtifactStage, the relation pages and the       *)
(* quality evaluation; on a deleted candidate they fail.                   *)
RenewBetween(w, from, to) ==
    /\ pc[w] = from
    /\ Renewed(own[w])
    /\ MoveTo(w, to)
    /\ UNCHANGED <<jobVars, cancelRequested, attVars, pubVars, candidate, own, recVars>>

StartCandidate(w) == RenewBetween(w, "reading", "creating")
StartSeal(w) ==
    /\ RenewBetween(w, "writing", "sealing")
    /\ candidate[own[w]] = "STAGING"
StartActivation(w) == RenewBetween(w, "sealed", "activating")

(* MERGE ... ON CREATE SET candidate_status='STAGING'                      *)
CreateCandidate(w) ==
    /\ pc[w] = "creating"
    /\ candidate' = [candidate EXCEPT ![own[w]] = IF @ = "ABSENT" THEN "STAGING" ELSE @]
    /\ MoveTo(w, "writing")
    /\ UNCHANGED <<jobVars, cancelRequested, attVars, ttl, pubVars, own, recVars>>

(* Mutant: a retryable error with the candidate still STAGING counts as    *)
(* sealed.                                                                 *)
SealAssumed(w) ==
    /\ pc[w] = "sealing"
    /\ MoveTo(w, "sealed")
    /\ UNCHANGED <<jobVars, cancelRequested, attVars, ttl, pubVars, candidate, own, recVars>>

(* SealCandidate matches the node by attempt and fence; a deleted one does *)
(* not match, which is BuildFails. Sealing twice is accepted.              *)
SealCandidate(w) ==
    /\ pc[w] = "sealing"
    /\ candidate[own[w]] \in {"STAGING", "SEALED"}
    /\ candidate' = [candidate EXCEPT ![own[w]] = "SEALED"]
    /\ MoveTo(w, "sealed")
    /\ UNCHANGED <<jobVars, cancelRequested, attVars, ttl, pubVars, own, recVars>>

(* activationCommitted: a retry after an unknown commit finds its own rows. *)
ActivationCommitted(a) ==
    /\ jobStatus[attJob[a]] = "SUCCEEDED"
    /\ revStatus[a] \in {"ACTIVE", "SUPERSEDED"}
    /\ a \in outbox

(* Mutants of the transaction: the pointer gets the job id, the attempt    *)
(* may have been retired, there is no event, the previous row stays        *)
(* ACTIVE.                                                                 *)
PublishRows(a, newStatus, pointed, events) ==
    LET j == attJob[a]
    IN  /\ jobStatus[j] = "BUILDING"
        /\ jobRevision[j] = a
        /\ attStatus' = [attStatus EXCEPT ![a] = "SUCCEEDED"]
        /\ revStatus' = newStatus
        /\ active' = [active EXCEPT ![SnapshotOf[j]] = pointed]
        /\ jobStatus' = [jobStatus EXCEPT ![j] = "SUCCEEDED"]
        /\ outbox' = outbox \cup events

Superseding(a) ==
    [b \in Attempts |->
        IF b = a THEN "ACTIVE"
        ELSE IF b = active[SnapshotOf[attJob[a]]] THEN "SUPERSEDED"
        ELSE revStatus[b]]

PublishJobId(a, r) ==
    a \in LiveAttempts(r) /\ PublishRows(a, Superseding(a), attJob[a], {a})
PublishUnfenced(a, r) ==
    ttl[a] > r /\ PublishRows(a, Superseding(a), a, {a})
PublishSilently(a, r) ==
    a \in LiveAttempts(r) /\ PublishRows(a, Superseding(a), a, {})
PublishBeside(a, r) ==
    a \in LiveAttempts(r) /\ PublishRows(a, [revStatus EXCEPT ![a] = "ACTIVE"], a, {a})

(* ActivateGraphRevision: the transaction that publishes.                  *)
Publish(a, r) ==
    LET j == attJob[a]
        s == SnapshotOf[j]
        previous == active[s]
    IN  /\ Running(a)
        /\ ttl[a] > r
        /\ jobStatus[j] = "BUILDING"
        /\ jobRevision[j] = a
        /\ attStatus' = [attStatus EXCEPT ![a] = "SUCCEEDED"]
        /\ revStatus' = [b \in Attempts |->
               IF b = a THEN "ACTIVE"
               ELSE IF b = previous /\ revStatus[b] = "ACTIVE" THEN "SUPERSEDED"
               ELSE revStatus[b]]
        /\ active' = [active EXCEPT ![s] = a]
        /\ jobStatus' = [jobStatus EXCEPT ![j] = "SUCCEEDED"]
        /\ outbox' = outbox \cup {a}

(* The commit succeeds; the worker returns, or stays in the retry loop     *)
(* because it could not learn the outcome.                                 *)
Activate(w) ==
    /\ pc[w] = "activating"
    /\ ~ ActivationCommitted(own[w])
    /\ \E r \in ClockReadings : Publish(own[w], r)
    /\ \/ Leave(w)
       \/ UNCHANGED workerVars
    /\ UNCHANGED <<jobRevision, cancelRequested, attJob, fence, ttl, candidate, recVars>>

(* Nothing to commit: the activation is found committed, or the lease is   *)
(* found lost. Either way RunOnce records nothing.                         *)
ActivateIdle(w) ==
    /\ pc[w] = "activating"
    /\ \/ ActivationCommitted(own[w])
       \/ \E r \in ClockReadings : own[w] \notin LiveAttempts(r)
    /\ Leave(w)
    /\ UNCHANGED <<jobVars, cancelRequested, attVars, ttl, pubVars, candidate, recVars>>

(* Any error that classifyWorkerFailure makes a recorded one: the parser   *)
(* result changed, capacity, quality, a timeout, a store that stays        *)
(* unavailable for all retries, or one renewal that the database did not   *)
(* answer.                                                                 *)
BuildFails(w) ==
    /\ pc[w] \in BuildStages
    /\ MoveTo(w, "failing")
    /\ UNCHANGED <<jobVars, cancelRequested, attVars, ttl, pubVars, candidate, own, recVars>>

(* A crash, a shutdown, or an unknown outcome of the last retry.           *)
Abandon(w) ==
    /\ pc[w] # "idle"
    /\ Leave(w)
    /\ UNCHANGED <<jobVars, cancelRequested, attVars, ttl, pubVars, candidate, recVars>>

(* Mutant: the failure is recorded by identity, whatever the row says.     *)
FailByIdentity(w) ==
    /\ pc[w] \in FailStages
    /\ attStatus' = [attStatus EXCEPT ![own[w]] = "FAILED"]
    /\ jobStatus' = [jobStatus EXCEPT ![attJob[own[w]]] = "FAILED"]
    /\ Leave(w)
    /\ UNCHANGED <<jobRevision, cancelRequested, attJob, fence, ttl,
                   pubVars, candidate, recVars>>

(* FailGraphAttempt with a recorded code, then RunOnce returns.            *)
FailAttempt(w) ==
    LET a == own[w]
        j == attJob[a]
        status == IF pc[w] = "cancelling" THEN "CANCELLED" ELSE "FAILED"
    IN  /\ pc[w] \in FailStages
        /\ \E r \in ClockReadings : a \in LiveAttempts(r)
        /\ jobStatus[j] = "BUILDING"
        /\ jobRevision[j] = a
        /\ attStatus' = [attStatus EXCEPT ![a] = status]
        /\ jobStatus' = [jobStatus EXCEPT ![j] = status]
        /\ Leave(w)
        /\ UNCHANGED <<jobRevision, cancelRequested, attJob, fence, ttl,
                       pubVars, candidate, recVars>>

(* FailGraphAttempt rolls back: the lease or the job is no longer ours.    *)
FailRefused(w) ==
    /\ pc[w] \in FailStages
    /\ \/ \E r \in ClockReadings : own[w] \notin LiveAttempts(r)
       \/ jobStatus[attJob[own[w]]] # "BUILDING"
       \/ jobRevision[attJob[own[w]]] # own[w]
    /\ Leave(w)
    /\ UNCHANGED <<jobVars, cancelRequested, attVars, ttl, pubVars, candidate, recVars>>

-----------------------------------------------------------------------------
(* The reconciler. Its pages are read once and used later; every use of    *)
(* the clock in a pass is the reading at its start.                        *)

ListExpired(c) ==
    /\ recPc[c] = "idle"
    /\ \E r \in ClockReadings : \E page \in Pages(ExpiredAttempts(r)) :
          todo' = [todo EXCEPT ![c] = page]
    /\ recPc' = [recPc EXCEPT ![c] = "expiring"]
    /\ UNCHANGED <<jobVars, cancelRequested, attVars, ttl, pubVars, candidate, workerVars>>

(* MarkGraphAttemptLost; a renewed or finished attempt is skipped.         *)
MarkLost(c) ==
    /\ recPc[c] = "expiring"
    /\ \E a \in todo[c], r \in ClockReadings :
          /\ todo' = [todo EXCEPT ![c] = @ \ {a}]
          /\ attStatus' = [attStatus EXCEPT ![a] =
                 IF a \in ExpiredAttempts(r) THEN "LOST" ELSE @]
    /\ UNCHANGED <<jobVars, cancelRequested, attJob, fence, ttl, pubVars,
                   candidate, workerVars, recPc>>

ListOrphans(c) ==
    /\ recPc[c] = "expiring"
    /\ todo[c] = {}
    /\ \E r \in ClockReadings : \E page \in Pages(UnreferencedCandidates(r)) :
          todo' = [todo EXCEPT ![c] = page]
    /\ recPc' = [recPc EXCEPT ![c] = "cleaning"]
    /\ UNCHANGED <<jobVars, cancelRequested, attVars, ttl, pubVars, candidate, workerVars>>

(* deleteOrphan: absent already, deleted, or failed; the pass goes on.     *)
DeleteOrphan(c) ==
    /\ recPc[c] = "cleaning"
    /\ \E a \in todo[c] :
          /\ todo' = [todo EXCEPT ![c] = @ \ {a}]
          /\ \/ candidate' = [candidate EXCEPT ![a] = "ABSENT"]
             \/ UNCHANGED candidate
    /\ UNCHANGED <<jobVars, cancelRequested, attVars, ttl, pubVars, workerVars, recPc>>

EndPass(c) ==
    /\ recPc' = [recPc EXCEPT ![c] = "idle"]
    /\ todo' = [todo EXCEPT ![c] = {}]
    /\ UNCHANGED <<jobVars, cancelRequested, attVars, ttl, pubVars, candidate, workerVars>>

(* The verification of the active revisions that ends a pass changes none  *)
(* of this state.                                                          *)
FinishPass(c) ==
    /\ recPc[c] = "cleaning"
    /\ todo[c] = {}
    /\ EndPass(c)

(* The database does not answer a listing or a mark; the pass goes on.     *)
StoreFails(c) ==
    /\ \/ /\ recPc[c] = "idle"
          /\ recPc' = [recPc EXCEPT ![c] = "expiring"]
          /\ UNCHANGED todo
       \/ /\ recPc[c] = "expiring" /\ todo[c] = {}
          /\ recPc' = [recPc EXCEPT ![c] = "cleaning"]
          /\ UNCHANGED todo
       \/ /\ recPc[c] = "expiring"
          /\ \E a \in todo[c] : todo' = [todo EXCEPT ![c] = @ \ {a}]
          /\ UNCHANGED recPc
    /\ UNCHANGED <<jobVars, cancelRequested, attVars, ttl, pubVars, candidate, workerVars>>

(* OperationTimeout, or the process stops.                                 *)
AbandonPass(c) ==
    /\ recPc[c] # "idle"
    /\ EndPass(c)

-----------------------------------------------------------------------------
(* The environment: the clock, and whoever sets cancel_requested (nothing  *)
(* in this repository does).                                               *)

Tick ==
    /\ ttl' = [a \in Attempts |-> IF ttl[a] > -MaxLag THEN ttl[a] - 1 ELSE ttl[a]]
    /\ UNCHANGED <<jobVars, cancelRequested, attVars, pubVars, candidate,
                   workerVars, recVars>>

RequestCancel(j) ==
    /\ jobStatus[j] \in {"PENDING", "BUILDING"}
    /\ cancelRequested' = cancelRequested \cup {j}
    /\ UNCHANGED <<jobVars, attVars, ttl, pubVars, candidate, workerVars, recVars>>

(* What RunOnce does next when nothing goes wrong outside it.              *)
WorkerStep(w) ==
    \/ Claim(w)
    \/ HeartbeatRefused(w)
    \/ StartCandidate(w) \/ CreateCandidate(w)
    \/ StartSeal(w) \/ SealCandidate(w)
    \/ StartActivation(w) \/ Activate(w) \/ ActivateIdle(w)
    \/ FailAttempt(w) \/ FailRefused(w)

ReconcilerStep(c) ==
    ListExpired(c) \/ MarkLost(c) \/ ListOrphans(c) \/ DeleteOrphan(c) \/ FinishPass(c)

Next ==
    \/ \E w \in Workers : WorkerStep(w) \/ Heartbeat(w) \/ BuildFails(w) \/ Abandon(w)
    \/ \E c \in Reconcilers : ReconcilerStep(c) \/ StoreFails(c) \/ AbandonPass(c)
    \/ \E j \in Jobs : RequestCancel(j)
    \/ Tick

Spec == Init /\ [][Next]_vars

(* RunOnce is called again and again and its calls return (every context   *)
(* has a deadline); the process may stop at any point all the same. The    *)
(* reconciler works on the first entries of its page before a pass can run *)
(* out of time, and the database does not fail for ever, so passes that    *)
(* are cut short or skip entries again and again still get through expired *)
(* attempts: strong fairness for ListExpired and MarkLost.                 *)
FairSpec ==
    /\ Spec
    /\ WF_vars(Tick)
    /\ \A w \in Workers : WF_vars(WorkerStep(w))
    /\ \A c \in Reconcilers :
          WF_vars(ReconcilerStep(c)) /\ SF_vars(ListExpired(c)) /\ SF_vars(MarkLost(c))

-----------------------------------------------------------------------------
(* Safety.                                                                 *)

(* A reader that follows the active pointer, or still holds a superseded   *)
(* revision, finds the complete graph: whatever the reconcilers delete and *)
(* whichever workers stall, the candidate of a revision row is SEALED.     *)
PublishedIsSealed ==
    \A a \in Attempts : revStatus[a] # "NEW" => candidate[a] = "SEALED"

(* The pointer of a snapshot and the one ACTIVE revision row of that       *)
(* snapshot agree, when two jobs (two build versions) of the snapshot      *)
(* publish in any order.                                                   *)
PointerIsTheActiveRow ==
    \A a \in Attempts, s \in Snapshots :
        active[s] = a <=> revStatus[a] = "ACTIVE" /\ SnapshotOf[attJob[a]] = s

(* A job is SUCCEEDED exactly when it has a revision row, which is unique, *)
(* is the one the job names, was built by an attempt that SUCCEEDED and    *)
(* has its event in the outbox: lost answers, retries and takeovers cannot *)
(* publish twice, or publish and fail.                                     *)
PublishedOnce ==
    /\ \A a \in Attempts :
          /\ revStatus[a] # "NEW" <=> attStatus[a] = "SUCCEEDED"
          /\ revStatus[a] # "NEW" <=> a \in outbox
          /\ revStatus[a] # "NEW" => /\ jobStatus[attJob[a]] = "SUCCEEDED"
                                     /\ jobRevision[attJob[a]] = a
    /\ \A j \in Jobs : jobStatus[j] = "SUCCEEDED" =>
          \E a \in Attempts : jobRevision[j] = a /\ attJob[a] = j /\ revStatus[a] # "NEW"

(* At most one attempt of a job is RUNNING, it holds the highest fence and *)
(* the job row names its revision; a RUNNING attempt never outlives its    *)
(* job. None of this depends on the clocks.                                *)
FencedOwner ==
    \A a \in Attempts : Running(a) =>
        /\ jobStatus[attJob[a]] = "BUILDING"
        /\ jobRevision[attJob[a]] = a
        /\ \A b \in AttemptsOf(attJob[a]) \ {a} : fence[b] < fence[a] /\ ~ Running(b)

(* What a reconciler read as an orphan is still one whenever it gets to    *)
(* delete it, however long the page has been waiting.                      *)
StalePageIsHarmless ==
    \A c \in Reconcilers : recPc[c] = "cleaning" =>
        \A a \in todo[c] :
            /\ attStatus[a] \in {"FAILED", "LOST", "CANCELLED"}
            /\ \A j \in Jobs : jobRevision[j] = a => jobStatus[j] \in {"FAILED", "CANCELLED"}

(* No two attempts hold a lease that is live for the database in the same  *)
(* repository (MaxConcurrentRepository is 1).                              *)
RepositoryExclusive ==
    \A a, b \in LiveAttempts(0) :
        RepositoryOf[attJob[a]] = RepositoryOf[attJob[b]] => a = b

(* The global and tenant budgets hold for leases live for the database.    *)
WithinBudgets ==
    /\ Cardinality(LiveAttempts(0)) <= MaxGlobal
    /\ \A t \in Tenants : Cardinality(LiveInTenant(t, 0)) <= MaxTenant

-----------------------------------------------------------------------------
(* Action properties.                                                      *)

CanTransitionJob(from, to) ==
    \/ from = "PENDING" /\ to \in {"BUILDING", "CANCELLED", "FAILED"}
    \/ from = "BUILDING" /\ to \in {"SUCCEEDED", "FAILED", "CANCELLED"}

CanTransitionAttempt(from, to) ==
    from = "RUNNING" /\ to \in {"SUCCEEDED", "FAILED", "LOST", "CANCELLED"}

(* The SQL statements, which never call them, respect the transition       *)
(* tables of the domain package: a decided job or attempt stays decided.   *)
DomainTransitions ==
    [][/\ \A j \in Jobs : jobStatus'[j] # jobStatus[j] =>
              CanTransitionJob(jobStatus[j], jobStatus'[j])
       /\ \A a \in Attempts : attStatus[a] # "NEW" /\ attStatus'[a] # attStatus[a] =>
              CanTransitionAttempt(attStatus[a], attStatus'[a])]_vars

(* The verdict on a job is the verdict of its latest attempt, RUNNING      *)
(* until then: a worker whose job was taken over decides nothing.          *)
DecidedByLatestAttempt ==
    [][\A j \in Jobs : jobStatus[j] = "BUILDING" /\ jobStatus'[j] # "BUILDING" =>
          \E a \in AttemptsOf(j) :
              /\ Running(a)
              /\ attStatus'[a] = jobStatus'[j]
              /\ \A b \in AttemptsOf(j) : fence[b] <= fence[a]]_vars

-----------------------------------------------------------------------------
(* Liveness.                                                               *)

(* No attempt keeps its row RUNNING for ever: a crashed worker's lease     *)
(* runs out and a reconciler or the next claim retires it, also when the   *)
(* job was cancelled and nobody claims it any more.                        *)
AttemptsEnd == \A a \in Attempts : Running(a) ~> ~ Running(a)

(* A job nobody cancels is decided, unless stalls and crashes use up the   *)
(* bounded set of identities: there is none left, and the job had no       *)
(* attempt or lost all it had. An attempt that is not lost decides its     *)
(* job, the first as well as one that took over, and a job that waits for  *)
(* a budget gets an attempt while there is one.                            *)
JobsAreDecided ==
    \A j \in Jobs : <>(\/ jobStatus[j] \notin {"PENDING", "BUILDING"}
                      \/ j \in cancelRequested
                      \/ /\ \A a \in Attempts : attStatus[a] # "NEW"
                         /\ \A a \in AttemptsOf(j) : attStatus[a] = "LOST")

-----------------------------------------------------------------------------
(* What the control plane promises, see GraphPublication.                  *)

outcome == [j \in Jobs |-> IF jobStatus[j] \in {"PENDING", "BUILDING"}
                           THEN "OPEN" ELSE jobStatus[j]]
published == [j \in Jobs |-> IF jobStatus[j] = "SUCCEEDED" THEN jobRevision[j] ELSE None]
complete == {a \in Attempts : candidate[a] = "SEALED"}

Publication == INSTANCE GraphPublication WITH
    Revisions <- Attempts, pointer <- active, announced <- outbox

PublicationSpec == Publication!Spec
=============================================================================
