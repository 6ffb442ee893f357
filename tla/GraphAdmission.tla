--------------------------- MODULE GraphAdmission ---------------------------
(***************************************************************************)
(* The admission of graph builds: API requests and consumers of parse      *)
(* events enqueue jobs in PostgreSQL under quotas. A job is identified by  *)
(* the fingerprint of what it builds, a request by its idempotency key.    *)
(*                                                                         *)
(* A build is a snapshot with the versions (schema, algorithm, policy) the *)
(* calling process is configured with; during an upgrade processes of two  *)
(* releases run, and one caller stands for any of them. Commit and parser  *)
(* version follow from the snapshot. A key stands for (tenant, repository, *)
(* key).                                                                   *)
(***************************************************************************)
EXTENDS Faults, FiniteSets

CONSTANTS
    Snapshots, Versions, Keys,
    Tenants, TenantOf,     \* [Snapshots -> Tenants]
    Clients, Consumers,    \* API requests and consumers of parse events
    Requests,              \* what clients may ask: [key : Keys, snapshot : Snapshots]
    MaxPendingGlobal, MaxPendingPerTenant

Callers == Clients \cup Consumers
Builds == Snapshots \X Versions

ASSUME AdmissionAssumption ==
    /\ TenantOf \in [Snapshots -> Tenants]
    /\ Requests \subseteq [key : Keys, snapshot : Snapshots]
    /\ MaxPendingGlobal \in Nat /\ MaxPendingPerTenant \in 1..MaxPendingGlobal
    /\ None \notin Builds \cup Keys

VARIABLES
    job,       \* graph_build_jobs by fingerprint
    jobKey,    \* idempotency_key of the row
    boundTo,   \* graph_idempotency
    asked,     \* the job a caller has asked for: key and build
    answer     \* what has become of its call

storeVars == <<job, jobKey, boundTo>>
callVars == <<asked, answer>>
admissionVars == <<storeVars, callVars>>

Answers == {"none", "rolled back", "accepted", "conflict", "full", "failed"}

AdmissionTypeOK ==
    /\ job \in [Builds -> {"absent", "open", "ended"}]
    /\ jobKey \in [Builds -> Keys \cup {None}]
    /\ boundTo \in [Keys -> Builds \cup {None}]
    /\ asked \in [Callers -> [key : Keys, build : Builds] \cup {None}]
    /\ answer \in [Callers -> Answers]

AdmissionInit ==
    /\ job = [b \in Builds |-> "absent"]
    /\ jobKey = [b \in Builds |-> None]
    /\ boundTo = [k \in Keys |-> None]
    /\ asked = [c \in Callers |-> None]
    /\ answer = [c \in Callers |-> "none"]

-----------------------------------------------------------------------------

Exists(b) == job[b] # "absent"
PendingJobs(S) == {b \in Builds : b[1] \in S /\ job[b] = "open"}

(* The checks of enqueueGraphBuild under its advisory locks.               *)
Conflicts(r) == boundTo[r.key] \notin {None, r.build}

HasRoomBeyond(r) ==   \* mutant: one too many
    \/ Exists(r.build)
    \/ Cardinality(PendingJobs(Snapshots)) <= MaxPendingGlobal

(* An existing job needs no room.                                          *)
HasRoom(r) ==
    LET mates == {s \in Snapshots : TenantOf[s] = TenantOf[r.build[1]]}
    IN  \/ Exists(r.build)
        \/ /\ Cardinality(PendingJobs(Snapshots)) < MaxPendingGlobal
           /\ Cardinality(PendingJobs(mates)) < MaxPendingPerTenant

StoreUnbound(r) ==   \* mutant: the binding is lost
    /\ job' = [job EXCEPT ![r.build] = IF @ = "absent" THEN "open" ELSE @]
    /\ jobKey' = [jobKey EXCEPT ![r.build] = IF @ = None THEN r.key ELSE @]
    /\ UNCHANGED boundTo

(* The job is inserted unless its fingerprint exists, and the key is bound *)
(* to it.                                                                  *)
Store(r) ==
    /\ job' = [job EXCEPT ![r.build] = IF @ = "absent" THEN "open" ELSE @]
    /\ jobKey' = [jobKey EXCEPT ![r.build] = IF @ = None THEN r.key ELSE @]
    /\ boundTo' = [boundTo EXCEPT ![r.key] = r.build]

Answer(c, a) == answer' = [answer EXCEPT ![c] = a]

Asks(c) == asked[c] # None /\ answer[c] = "none"

Enqueue(c) ==
    LET r == asked[c]
    IN  /\ Asks(c)
        /\ \/ Conflicts(r) /\ Answer(c, "conflict") /\ UNCHANGED storeVars
           \/ ~ Conflicts(r) /\ ~ HasRoom(r) /\ Answer(c, "full") /\ UNCHANGED storeVars
           \/ ~ Conflicts(r) /\ HasRoom(r) /\ Answer(c, "accepted") /\ Store(r)
        /\ UNCHANGED <<asked, faults>>

(* The store fails or does not answer in time; only the commit may have    *)
(* happened nevertheless. Then the job is looked up by its fingerprint.    *)
EnqueueFails(c) ==
    LET r == asked[c]
    IN  /\ Asks(c)
        /\ Fault
        /\ \/ Answer(c, "failed") /\ UNCHANGED storeVars
           \/ /\ ~ Conflicts(r) /\ HasRoom(r)
              /\ Answer(c, "rolled back")
              /\ Store(r) \/ UNCHANGED storeVars
        /\ UNCHANGED asked

RecoverAny(c) ==   \* mutant: an unknown outcome counts as success
    /\ answer[c] = "rolled back"
    /\ Answer(c, "accepted")
    /\ UNCHANGED <<storeVars, asked, faults>>

Recover(c) ==
    /\ answer[c] = "rolled back"
    /\ IF Exists(asked[c].build) THEN Answer(c, "accepted") \/ Answer(c, "failed")
       ELSE Answer(c, "failed")
    /\ UNCHANGED <<storeVars, asked, faults>>

Ask(c, k, s) ==
    /\ \E v \in Versions : asked' = [asked EXCEPT ![c] = [key |-> k, build |-> <<s, v>>]]
    /\ Answer(c, "none")

Forget(c) ==
    /\ asked' = [asked EXCEPT ![c] = None]
    /\ Answer(c, "none")

(* BuildAdmissionService.Submit, and its answer to the client.             *)
Submit(c) ==
    /\ asked[c] = None
    /\ \E r \in Requests : Ask(c, r.key, r.snapshot)
    /\ UNCHANGED <<storeVars, faults>>

Return(c) ==
    /\ answer[c] \notin {"none", "rolled back"}
    /\ Forget(c)
    /\ UNCHANGED <<storeVars, faults>>

(* The graph build of the job is decided; GraphControl is the detail.      *)
EndJob(b) ==
    /\ job[b] = "open"
    /\ job' = [job EXCEPT ![b] = "ended"]
    /\ UNCHANGED <<jobKey, boundTo, callVars, faults>>

EnqueueStep(c) == Enqueue(c) \/ Recover(c)

AdmissionNext ==
    \/ \E c \in Callers : EnqueueStep(c) \/ EnqueueFails(c)
    \/ \E c \in Clients : Submit(c) \/ Return(c)
    \/ \E b \in Builds : EndJob(b)

-----------------------------------------------------------------------------

(* The quotas bound what waits or is built, whoever enqueues.              *)
PendingWithinQuota ==
    /\ Cardinality(PendingJobs(Snapshots)) <= MaxPendingGlobal
    /\ \A t \in Tenants :
          Cardinality(PendingJobs({s \in Snapshots : TenantOf[s] = t})) <= MaxPendingPerTenant

(* A key starts at most one build, however often its request or event is   *)
(* repeated, by processes of whatever version, after whatever failure.     *)
OneBuildPerKey ==
    \A b1, b2 \in Builds : jobKey[b1] # None /\ jobKey[b1] = jobKey[b2] => b1 = b2

(* Whoever is told that a build is accepted finds its job.                 *)
AcceptedIsStored ==
    \A c \in Callers : answer[c] = "accepted" => Exists(asked[c].build)
=============================================================================
