--------------------------- MODULE RepositoryTasks --------------------------
(***************************************************************************)
(* The parse tasks of one repository: clients submit, retry and cancel     *)
(* them through the API, worker processes claim them under a lease, parse  *)
(* and finalize them, retention deletes failed ones. The store is          *)
(* PostgreSQL (parse_jobs, repository_snapshots, parser_idempotency,       *)
(* outbox_events).                                                         *)
(*                                                                         *)
(* A job and its snapshot are drawn, inserted, finalized and deleted       *)
(* together: one identity stands for both. Leases are judged by the clock  *)
(* of the database alone, so a lease is either expired or not; expired     *)
(* holds the running jobs whose lease is. Each SQL transaction is a step.  *)
(***************************************************************************)
EXTENDS Naturals, FiniteSets

CONSTANTS
    Jobs,            \* job/snapshot identities
    Clients,         \* concurrent calls of Submit and Retry
    Workers,         \* worker processes, each with one loop
    Keys,            \* idempotency keys
    Commits,         \* what the ref of a command may resolve to
    None,
    CommandOf,       \* the command a client sends with a key
    OwnerOf,         \* WorkerConfig.Owner
    FailChoices,     \* whether Git and the baseline lookup may fail in Submit: the choices
    MaxReadings,     \* bound on the readings of the clock by Submit, for either choice
    MaxFaults        \* bound on crashes, stalls and unanswered calls

(* repository_path, repository_url and provider of a SyncCommand. "given"  *)
(* is a path as a client may write it, "resolved" what Prepare returns.    *)
Commands == [path : {None, "given", "resolved"}, url : {None, "remote"},
             provider : {"", "local", "git"}]

(* A row of parser_idempotency.                                            *)
Rows == [job : Jobs, status : {"RUNNING", "SUCCEEDED", "FAILED"}, retryable : BOOLEAN]

ASSUME ConstantsAssumption ==
    /\ None \notin Rows
    /\ None \notin Jobs \cup Commits \cup Keys \cup {OwnerOf[w] : w \in Workers}
    /\ CommandOf \in [Keys -> Commands]
    /\ FailChoices \in SUBSET BOOLEAN
    /\ MaxReadings \in [BOOLEAN -> Nat]
    /\ MaxFaults \in Nat

VARIABLES
    status,          \* parse_jobs.status; the snapshot's status once decided
    retryable,       \* jobs with parse_jobs.retryable
    owner,           \* parse_jobs.lease_owner
    expired,         \* running jobs with lease_expires_at < NOW()
    cancelRequested, \* jobs with parse_jobs.cancel_requested
    keyOf,           \* command.idempotency_key of a job
    commit,          \* repository_snapshots.commit_sha
    parent,          \* repository_snapshots.parent_snapshot_id
    created,         \* created_at of job and snapshot
    origin,          \* the failed job a job was created to retry
    row,             \* parser_idempotency, by key
    events,          \* <<job, type>> of the rows of outbox_events
    submissionsFail, \* the choice, made once for a behaviour
    clock,           \* the last reading of the clock
    pc, sub,         \* where each client stands in Submit, and its locals
    wpc, task, base, \* where each worker stands in RunOnce, and its locals
    faults

jobVars == <<status, retryable, owner, expired, cancelRequested, row, events>>
taskVars == <<keyOf, commit, parent, created, origin>>
callVars == <<submissionsFail, clock>>
clientVars == <<callVars, pc, sub>>
workerVars == <<wpc, task, base>>
vars == <<jobVars, taskVars, clientVars, workerVars, faults>>

Decided == {"SUCCEEDED", "FAILED", "CANCELLED"}
Executing == {"claimed", "loaded", "parsing"}
NoSubmission == [key |-> None, created |-> 0, commit |-> None, parent |-> None, job |-> None]

Init ==
    /\ status = [j \in Jobs |-> "NEW"]
    /\ retryable = {}
    /\ owner = [j \in Jobs |-> None]
    /\ expired = {}
    /\ cancelRequested = {}
    /\ keyOf = [j \in Jobs |-> None]
    /\ commit = [j \in Jobs |-> None]
    /\ parent = [j \in Jobs |-> None]
    /\ created = [j \in Jobs |-> 0]
    /\ origin = [j \in Jobs |-> None]
    /\ row = [k \in Keys |-> None]
    /\ events = {}
    /\ submissionsFail \in FailChoices
    /\ clock = 0
    /\ pc = [c \in Clients |-> "idle"]
    /\ sub = [c \in Clients |-> NoSubmission]
    /\ wpc = [w \in Workers |-> "idle"]
    /\ task = [w \in Workers |-> None]
    /\ base = [w \in Workers |-> None]
    /\ faults = 0

Fault ==
    /\ faults < MaxFaults
    /\ faults' = faults + 1

-----------------------------------------------------------------------------
(* Commands on their way from a client to a parser.                        *)

Valid(cmd) ==
    /\ cmd.path = None <=> cmd.url # None
    /\ cmd.provider = "local" => cmd.path # None
    /\ cmd.provider = "git" => cmd.url # None

(* Submit stores the command as Prepare completed it.                      *)
Stored(cmd) ==
    [cmd EXCEPT !.path = "resolved",
                !.provider = IF @ # "" THEN @ ELSE IF cmd.url # None THEN "git" ELSE "local"]

(* execute runs the stored command without its URL; syncDirect validates   *)
(* it before anything else.                                                *)
Executable(cmd) == Valid([Stored(cmd) EXCEPT !.url = None])

-----------------------------------------------------------------------------
(* Rows.                                                                   *)

Open(j) == status[j] \in {"PENDING", "RUNNING"}
Succeeded == {j \in Jobs : status[j] = "SUCCEEDED"}

(* ORDER BY created_at DESC LIMIT 1; None if there is none.                *)
IsLatest(p) ==
    \/ p = None /\ Succeeded = {}
    \/ p \in Succeeded /\ \A j \in Succeeded : created[j] <= created[p]

(* A new PENDING job, with its row in parser_idempotency.                  *)
Insert(j, s, from) ==
    /\ status[j] = "NEW"
    /\ status' = [status EXCEPT ![j] = "PENDING"]
    /\ keyOf' = [keyOf EXCEPT ![j] = s.key]
    /\ commit' = [commit EXCEPT ![j] = s.commit]
    /\ parent' = [parent EXCEPT ![j] = s.parent]
    /\ created' = [created EXCEPT ![j] = s.created]
    /\ origin' = [origin EXCEPT ![j] = from]
    /\ row' = [row EXCEPT ![s.key] = [job |-> j, status |-> "RUNNING", retryable |-> FALSE]]
    /\ UNCHANGED <<retryable, owner, expired, cancelRequested, events>>

(* lease_owner = NULL, lease_expires_at = NULL                             *)
Release(j) == owner' = [owner EXCEPT ![j] = None] /\ expired' = expired \ {j}

Announce(j, verdict) ==
    events' = events \cup {<<j, IF verdict = "SUCCEEDED" THEN "completed" ELSE "failed">>}

(* finalizeWithRetry after its guards: job, snapshot, event and key. The   *)
(* row of the key is rebound to this job if there is one.                  *)
Finalize(j, verdict, mayRetry) ==
    /\ status' = [status EXCEPT ![j] = verdict]
    /\ retryable' = IF mayRetry THEN retryable \cup {j} ELSE retryable \ {j}
    /\ Release(j)
    /\ Announce(j, verdict)
    /\ row' = [row EXCEPT ![keyOf[j]] =
           IF @ = None THEN None
           ELSE [job |-> j, status |-> IF verdict = "SUCCEEDED" THEN "SUCCEEDED" ELSE "FAILED",
                 retryable |-> mayRetry]]
    /\ UNCHANGED cancelRequested

-----------------------------------------------------------------------------
(* Clients.                                                                *)

Answer(c) ==
    /\ pc' = [pc EXCEPT ![c] = "idle"]
    /\ sub' = [sub EXCEPT ![c] = NoSubmission]

Proceed(c, to, s) ==
    /\ pc' = [pc EXCEPT ![c] = to]
    /\ sub' = [sub EXCEPT ![c] = s]

(* Submit, from the lookup of the key to ResolveCommit. A key bound to an  *)
(* open or successful job is answered at once and changes nothing. Retry   *)
(* of a failed job comes here too, with the command as stored.             *)
StartSubmit(c) ==
    /\ pc[c] = "idle"
    /\ clock < MaxReadings[submissionsFail]
    /\ clock' = clock + 1
    /\ \E k \in Keys :
          /\ Valid(CommandOf[k])
          /\ row[k] # None => status[row[k].job] \in {"FAILED", "CANCELLED"}
          /\ LET s == [NoSubmission EXCEPT !.key = k, !.created = clock + 1]
             IN  \/ \E m \in Commits : Proceed(c, "baseline", [s EXCEPT !.commit = m])
                 \/ submissionsFail /\ Proceed(c, "rejecting", s)
    /\ UNCHANGED <<jobVars, taskVars, submissionsFail, workerVars, faults>>

(* LatestSnapshot                                                          *)
ReadBaseline(c) ==
    /\ pc[c] = "baseline"
    /\ \/ \E p \in Jobs \cup {None} :
             IsLatest(p) /\ Proceed(c, "acquiring", [sub[c] EXCEPT !.parent = p])
       \/ submissionsFail /\ Proceed(c, "rejecting", sub[c])
    /\ UNCHANGED <<jobVars, taskVars, callVars, workerVars, faults>>

(* AcquireIdempotency: the key is free.                                    *)
Acquire(c) ==
    /\ pc[c] = "acquiring"
    /\ row[sub[c].key] = None
    /\ \E j \in Jobs : Insert(j, sub[c], None)
    /\ Answer(c)
    /\ UNCHANGED <<callVars, workerVars, faults>>

(* AcquireIdempotency: the key is bound; a retryable failure goes on.      *)
FindBound(c) ==
    /\ pc[c] = "acquiring"
    /\ row[sub[c].key] # None
    /\ LET j == row[sub[c].key].job
       IN  IF status[j] = "FAILED" /\ j \in retryable
           THEN Proceed(c, "retrying", [sub[c] EXCEPT !.job = j])
           ELSE Answer(c)
    /\ UNCHANGED <<jobVars, taskVars, callVars, workerVars, faults>>

(* Mutant: only the job is looked at, not the row of the key.              *)
RetryUnchecked(c) ==
    LET s == sub[c]
    IN  /\ pc[c] = "retrying"
        /\ status[s.job] = "FAILED"
        /\ s.job \in retryable
        /\ \E j \in Jobs : Insert(j, s, s.job)
        /\ Answer(c)
        /\ UNCHANGED <<callVars, workerVars, faults>>

(* RetryFailed                                                             *)
RetryFailed(c) ==
    LET s == sub[c]
    IN  /\ pc[c] = "retrying"
        /\ status[s.job] = "FAILED"
        /\ s.job \in retryable
        /\ row[s.key] = [job |-> s.job, status |-> "FAILED", retryable |-> TRUE]
        /\ \E j \in Jobs : Insert(j, s, s.job)
        /\ Answer(c)
        /\ UNCHANGED <<callVars, workerVars, faults>>

(* failSubmission: the task is inserted as PENDING first ...               *)
InsertRejected(c) ==
    /\ pc[c] = "rejecting"
    /\ IF row[sub[c].key] = None
       THEN \E j \in Jobs :
               /\ Insert(j, [sub[c] EXCEPT !.parent = None], None)
               /\ Proceed(c, "recording", [sub[c] EXCEPT !.job = j])
       ELSE Answer(c) /\ UNCHANGED <<jobVars, taskVars>>
    /\ UNCHANGED <<callVars, workerVars, faults>>

(* ... and then failed, in a transaction of its own that names no owner.   *)
RecordRejected(c) ==
    LET j == sub[c].job
    IN  /\ pc[c] = "recording"
        /\ IF status[j] = "GONE" THEN UNCHANGED jobVars
           ELSE \E mayRetry \in BOOLEAN : Finalize(j, "FAILED", mayRetry)
        /\ Answer(c)
        /\ UNCHANGED <<taskVars, callVars, workerVars, faults>>

(* Any other end of the call: refused by a guard, an error, the client     *)
(* goes away. A lost answer is the step before, then this.                 *)
Return(c) ==
    /\ pc[c] # "idle"
    /\ Answer(c)
    /\ UNCHANGED <<jobVars, taskVars, callVars, workerVars, faults>>

(* Mutant: the row of the key is forgotten.                                *)
CancelJobOnly(j) ==
    /\ Open(j)
    /\ status' = [status EXCEPT ![j] = IF @ = "PENDING" THEN "CANCELLED" ELSE @]
    /\ cancelRequested' = cancelRequested \cup {j}
    /\ UNCHANGED <<retryable, owner, expired, row, events, taskVars, clientVars, workerVars, faults>>

(* A waiting job is cancelled at once, without an event; a running one is  *)
(* flagged.                                                                *)
RequestCancel(j) ==
    /\ Open(j)
    /\ cancelRequested' = cancelRequested \cup {j}
    /\ IF status[j] = "PENDING"
       THEN /\ status' = [status EXCEPT ![j] = "CANCELLED"]
            /\ row' = [k \in Keys |->
                   IF row[k] # None /\ row[k].job = j
                   THEN [row[k] EXCEPT !.status = "FAILED", !.retryable = FALSE]
                   ELSE row[k]]
       ELSE UNCHANGED <<status, row>>
    /\ UNCHANGED <<retryable, owner, expired, events, taskVars, clientVars, workerVars, faults>>

(* CleanupExpired: failed and cancelled jobs go with their key and their   *)
(* snapshot once they are old; when they are is left open. A snapshot that *)
(* is a parent is kept by its foreign key.                                 *)
Cleanup(j) ==
    /\ status[j] \in {"FAILED", "CANCELLED"}
    /\ \A i \in Jobs : parent[i] = j => status[i] = "GONE"
    /\ status' = [status EXCEPT ![j] = "GONE"]
    /\ row' = [k \in Keys |-> IF row[k] # None /\ row[k].job = j THEN None ELSE row[k]]
    /\ UNCHANGED <<retryable, owner, expired, cancelRequested, events, taskVars,
                   clientVars, workerVars, faults>>

-----------------------------------------------------------------------------
(* Workers.                                                                *)

ClaimableNew(j) == j \notin cancelRequested /\ status[j] = "PENDING"   \* mutant

Claimable(j) ==
    /\ j \notin cancelRequested
    /\ status[j] = "PENDING" \/ j \in expired

(* ClaimPendingJob. Which job is the oldest unlocked one is left open.     *)
ClaimTask(w) ==
    /\ wpc[w] = "idle"
    /\ \E j \in Jobs :
          /\ Claimable(j)
          /\ status' = [status EXCEPT ![j] = "RUNNING"]
          /\ owner' = [owner EXCEPT ![j] = OwnerOf[w]]
          /\ expired' = expired \ {j}
          /\ task' = [task EXCEPT ![w] = j]
    /\ wpc' = [wpc EXCEPT ![w] = "claimed"]
    /\ base' = [base EXCEPT ![w] = None]
    /\ UNCHANGED <<retryable, cancelRequested, row, events, taskVars, clientVars, faults>>

Leave(w) ==
    /\ wpc' = [wpc EXCEPT ![w] = "idle"]
    /\ task' = [task EXCEPT ![w] = None]
    /\ base' = [base EXCEPT ![w] = None]

(* The row as HeartbeatJob and execute want to see it.                     *)
Holds(w) == status[task[w]] = "RUNNING" /\ owner[task[w]] = OwnerOf[w]

(* execute reads the task. A task that is cancelled or taken over by now,  *)
(* or whose command does not validate, is left as it is.                   *)
LoadTask(w) ==
    LET j == task[w]
    IN  /\ wpc[w] = "claimed"
        /\ IF Holds(w) /\ j \notin cancelRequested /\ Executable(CommandOf[keyOf[j]])
           THEN wpc' = [wpc EXCEPT ![w] = "loaded"] /\ UNCHANGED <<task, base>>
           ELSE Leave(w)
        /\ UNCHANGED <<jobVars, taskVars, clientVars, faults>>

(* syncDirect reads the latest snapshot again, to compute its changes.     *)
StartParsing(w) ==
    /\ wpc[w] = "loaded"
    /\ \E p \in Jobs \cup {None} : IsLatest(p) /\ base' = [base EXCEPT ![w] = p]
    /\ wpc' = [wpc EXCEPT ![w] = "parsing"]
    /\ UNCHANGED <<jobVars, taskVars, clientVars, task, faults>>

(* HeartbeatJob, from the ticker and from setProgress.                     *)
Heartbeat(w) ==
    /\ wpc[w] \in Executing
    /\ Holds(w)
    /\ expired' = expired \ {task[w]}
    /\ UNCHANGED <<status, retryable, owner, cancelRequested, row, events, taskVars,
                   clientVars, workerVars, faults>>

(* The ticker cancels the execution: cancellation was requested, the lease *)
(* is lost, or (a fault) the database did not answer or the process is     *)
(* shut down.                                                              *)
StopExecution(w) ==
    /\ wpc[w] \in Executing
    /\ \/ task[w] \in cancelRequested /\ UNCHANGED faults
       \/ ~ Holds(w) /\ UNCHANGED faults
       \/ Fault
    /\ wpc' = [wpc EXCEPT ![w] = "stopping"]
    /\ UNCHANGED <<jobVars, taskVars, clientVars, task, base>>

(* Mutants: whoever finishes writes the result; the baseline is not        *)
(* compared.                                                               *)
OwnedByAnyone(w) == TRUE
BaselineIgnored(j) == commit[j] # None

(* ... AND ($11='' OR lease_owner=$11)                                     *)
Owned(w) == owner[task[w]] = OwnerOf[w]

(* The latest success is the parent chosen at submission, and the commit   *)
(* has no successful snapshot yet (a unique index).                        *)
Publishable(j) ==
    /\ commit[j] # None
    /\ IsLatest(parent[j])
    /\ \A i \in Succeeded : commit[i] # commit[j]

(* CompleteResult                                                          *)
CompleteTask(w) ==
    LET j == task[w]
    IN  /\ wpc[w] = "parsing"
        /\ Owned(w)
        /\ Publishable(j)
        /\ Finalize(j, "SUCCEEDED", FALSE)
        /\ \E p \in {base[w], None} : parent' = [parent EXCEPT ![j] = p]   \* None: base commit is gone
        /\ Leave(w)
        /\ UNCHANGED <<keyOf, commit, created, origin, clientVars, faults>>

(* CompleteResult rolls back: syncDirect returns the error and records     *)
(* nothing.                                                                *)
CompleteRefused(w) ==
    /\ wpc[w] = "parsing"
    /\ ~ (Owned(w) /\ Publishable(task[w]))
    /\ Leave(w)
    /\ UNCHANGED <<jobVars, taskVars, clientVars, faults>>

(* finalizeFailure with FailResult. An execution that was stopped is       *)
(* CANCELLED when the error at hand is context.Canceled, FAILED when it    *)
(* was wrapped before. The parent of a failed snapshot stays as chosen at  *)
(* submission; only its foreign key, in Cleanup, depends on it.            *)
RecordFailure(w) ==
    LET j == task[w]
    IN  /\ wpc[w] \in {"loaded", "parsing", "stopping"}
        /\ IF Owned(w)
           THEN \/ \E mayRetry \in BOOLEAN : Finalize(j, "FAILED", mayRetry)
                \/ wpc[w] = "stopping" /\ Finalize(j, "CANCELLED", FALSE)
           ELSE UNCHANGED jobVars
        /\ Leave(w)
        /\ UNCHANGED <<taskVars, clientVars, faults>>

(* The stop reached the execution while it loaded the task or completed:   *)
(* nothing is recorded.                                                    *)
StopUnrecorded(w) ==
    /\ wpc[w] = "stopping"
    /\ Leave(w)
    /\ UNCHANGED <<jobVars, taskVars, clientVars, faults>>

(* The process dies, or a call to the store is not answered.               *)
Crash(w) ==
    /\ wpc[w] # "idle"
    /\ Fault
    /\ Leave(w)
    /\ UNCHANGED <<jobVars, taskVars, clientVars>>

(* Heartbeats keep the lease of a task in execution alive: it expires      *)
(* under a worker that stalls (a fault), or when nobody works on it.       *)
Abandoned(j) ==
    \A w \in Workers : ~ (task[w] = j /\ wpc[w] \in Executing /\ OwnerOf[w] = owner[j])

ExpireLease(j) ==
    /\ status[j] = "RUNNING"
    /\ j \notin expired
    /\ expired' = expired \cup {j}
    /\ IF Abandoned(j) THEN UNCHANGED faults ELSE Fault
    /\ UNCHANGED <<status, retryable, owner, cancelRequested, row, events, taskVars,
                   clientVars, workerVars>>

-----------------------------------------------------------------------------

ClientStep(c) ==
    \/ StartSubmit(c) \/ ReadBaseline(c) \/ Acquire(c) \/ FindBound(c)
    \/ RetryFailed(c) \/ InsertRejected(c) \/ RecordRejected(c) \/ Return(c)

Execution(w) ==
    \/ LoadTask(w) \/ StartParsing(w)
    \/ CompleteTask(w) \/ CompleteRefused(w) \/ RecordFailure(w) \/ StopUnrecorded(w)

Next ==
    \/ \E c \in Clients : ClientStep(c)
    \/ \E w \in Workers : ClaimTask(w) \/ Execution(w) \/ Heartbeat(w) \/ StopExecution(w) \/ Crash(w)
    \/ \E j \in Jobs : RequestCancel(j) \/ Cleanup(j) \/ ExpireLease(j)

Spec == Init /\ [][Next]_vars

(* Run claims again and again, an execution ends (ParseTimeout), and a     *)
(* lease nobody renews runs out.                                           *)
FairSpec ==
    /\ Spec
    /\ \A w \in Workers : WF_vars(ClaimTask(w)) /\ WF_vars(Execution(w))
    /\ \A j \in Jobs : WF_vars(Abandoned(j) /\ ExpireLease(j))

-----------------------------------------------------------------------------
(* Safety.                                                                 *)

(* A request is not executed twice: of the jobs of a key only the one the  *)
(* key names is open, and a failed job is retried at most once, however    *)
(* many clients resubmit it.                                               *)
OneTaskPerKey ==
    /\ \A j \in Jobs : Open(j) => row[keyOf[j]] # None /\ row[keyOf[j]].job = j
    /\ \A i, j \in Jobs : origin[i] = origin[j] /\ origin[i] # None => i = j

(* ... where no submission fails; the late record of a rejection may bind  *)
(* the key to an older job again.                                          *)
OneTaskUnlessRejected == ~ submissionsFail => OneTaskPerKey

(* Clients learn what became of a job, whether submissions fail or not:    *)
(* the row of a key agrees with the job it names after every submission,   *)
(* retry, cancellation, result, rejection and deletion. Every success is   *)
(* announced as completed and every failure as failed. A job announced as  *)
(* completed has succeeded, and if a late record of its rejection withdrew *)
(* that success, it is announced as failed too; one announced as failed    *)
(* counts as a success for nobody any more.                                *)
OutcomeIsTold ==
    /\ \A k \in Keys : row[k] # None =>
          LET j == row[k].job
          IN  /\ keyOf[j] = k
              /\ row[k].status = IF Open(j) THEN "RUNNING"
                                 ELSE IF status[j] = "SUCCEEDED" THEN "SUCCEEDED" ELSE "FAILED"
              /\ row[k].retryable <=> j \in retryable
    /\ \A j \in Jobs :
          /\ status[j] = "SUCCEEDED" => <<j, "completed">> \in events
          /\ status[j] = "FAILED" => <<j, "failed">> \in events
          /\ <<j, "completed">> \in events => status[j] = "SUCCEEDED" \/ <<j, "failed">> \in events
          /\ <<j, "failed">> \in events => status[j] \in {"FAILED", "CANCELLED", "GONE"}

(* The second transaction of failSubmission for j: it checks neither the   *)
(* status nor the owner of the job.                                        *)
LateRejection(j) ==
    \E c \in Clients : pc[c] = "recording" /\ sub[c].job = j /\ pc'[c] = "idle"

(* No worker, cancellation or retry changes a decision; a failed or        *)
(* cancelled job goes when retention deletes it. The one step that does    *)
(* overwrite a decision, a success too, is the late record of the job's    *)
(* own rejection, and it makes the job FAILED.                             *)
DecidedStaysDecided ==
    [][\A j \in Jobs : status[j] \in Decided /\ status'[j] # status[j] =>
          \/ status[j] # "SUCCEEDED" /\ status'[j] = "GONE"
          \/ LateRejection(j) /\ status'[j] = "FAILED"]_vars

(* A snapshot succeeds with the changes against the very baseline its      *)
(* submission chose (or as a full parse), although that was read by        *)
(* another process, before and after others succeeded. The one exception   *)
(* is a base whose success the late record of a rejection has withdrawn.   *)
DiffedAgainstBaseline ==
    [][\A j \in Jobs : status[j] = "RUNNING" /\ status'[j] = "SUCCEEDED" =>
          \/ parent'[j] \in {parent[j], None}
          \/ status[parent'[j]] # "SUCCEEDED"]_vars

-----------------------------------------------------------------------------
(* Liveness.                                                               *)

(* What keeps a task from being decided.                                   *)
Stuck(j) ==
    /\ Open(j)
    /\ \/ j \in cancelRequested
       \/ commit[j] = None
       \/ ~ IsLatest(parent[j])
       \/ \E i \in Succeeded : commit[i] = commit[j]

(* A task is decided unless some task is stuck: because it was cancelled   *)
(* under a worker that did not record it, because its submission failed    *)
(* and that was not recorded, because another snapshot succeeded in        *)
(* between, or because its commit has been parsed already.                 *)
TasksSettle == \A j \in Jobs : Open(j) ~> ~ Open(j) \/ \E i \in Jobs : Stuck(i)

(* A task of the repository is decided or cancelled in the end.            *)
FirstTaskSettles ==
    \A j \in Jobs : Open(j) ~> ~ Open(j) \/ j \in cancelRequested \/ Succeeded # {}
=============================================================================
