----------------------- MODULE RepositoryTasks_proofs -----------------------
(***************************************************************************)
(* Theorems about RepositoryTasks, for all sets of jobs, clients, workers, *)
(* keys and commits, whatever the workers' owner names (even one for all). *)
(***************************************************************************)
EXTENDS RepositoryTasks, TLAPS

JobStatuses == {"NEW", "PENDING", "RUNNING", "SUCCEEDED", "FAILED", "CANCELLED", "GONE"}
Owners == {OwnerOf[w] : w \in Workers}
Submissions ==
    [key : Keys \cup {None}, created : Nat, commit : Commits \cup {None},
     parent : Jobs \cup {None}, job : Jobs \cup {None}]

TypeOK ==
    /\ status \in [Jobs -> JobStatuses]
    /\ retryable \in SUBSET Jobs
    /\ owner \in [Jobs -> Owners \cup {None}]
    /\ expired \in SUBSET Jobs
    /\ cancelRequested \in SUBSET Jobs
    /\ keyOf \in [Jobs -> Keys \cup {None}]
    /\ commit \in [Jobs -> Commits \cup {None}]
    /\ parent \in [Jobs -> Jobs \cup {None}]
    /\ created \in [Jobs -> Nat]
    /\ origin \in [Jobs -> Jobs \cup {None}]
    /\ row \in [Keys -> Rows \cup {None}]
    /\ events \in SUBSET (Jobs \X {"completed", "failed"})
    /\ submissionsFail \in BOOLEAN
    /\ clock \in Nat
    /\ pc \in [Clients -> {"idle", "baseline", "acquiring", "retrying", "rejecting", "recording"}]
    /\ sub \in [Clients -> Submissions]
    /\ wpc \in [Workers -> {"idle", "claimed", "loaded", "parsing", "stopping"}]
    /\ task \in [Workers -> Jobs \cup {None}]
    /\ base \in [Workers -> Jobs \cup {None}]
    /\ faults \in Nat

(* What a call has in its hands at each stage.                             *)
InHand ==
    /\ \A c \in Clients : pc[c] # "idle" => sub[c].key \in Keys
    /\ \A c \in Clients : pc[c] \in {"retrying", "recording"} => sub[c].job \in Jobs
    /\ \A w \in Workers : wpc[w] # "idle" => task[w] \in Jobs

-----------------------------------------------------------------------------
(* Invariants of the table of jobs.                                        *)

(* Only a running job has a lease: whoever finds its own name on a row may *)
(* decide it.                                                              *)
Leased ==
    /\ \A j \in Jobs : owner[j] # None => status[j] = "RUNNING"
    /\ \A j \in expired : status[j] = "RUNNING"

(* A job somebody works on has been inserted, and one a worker holds has   *)
(* been claimed.                                                           *)
Known ==
    /\ \A j \in Jobs : status[j] # "NEW" => keyOf[j] \in Keys
    /\ \A c \in Clients : pc[c] = "recording" => status[sub[c].job] # "NEW"
    /\ \A w \in Workers : wpc[w] # "idle" => status[task[w]] \notin {"NEW", "PENDING"}

(* A baseline was a success when it was read. It may be withdrawn, but     *)
(* then it never succeeds again.                                           *)
Past == Decided \cup {"GONE"}
Baselines ==
    /\ \A j \in Jobs : parent[j] # None => status[parent[j]] \in Past
    /\ \A c \in Clients : sub[c].parent # None => status[sub[c].parent] \in Past
    /\ \A w \in Workers : base[w] # None => status[base[w]] \in Past

(* Every submission reads the clock once, and no two get the same reading. *)
Submitting(c) == pc[c] \in {"baseline", "acquiring", "retrying", "rejecting"}
Dated ==
    /\ \A j \in Jobs : status[j] # "NEW" => created[j] <= clock
    /\ \A i, j \in Jobs :
          status[i] # "NEW" /\ status[j] # "NEW" /\ created[i] = created[j] => i = j
    /\ \A c \in Clients : Submitting(c) => sub[c].created <= clock
    /\ \A c \in Clients, j \in Jobs :
          Submitting(c) /\ status[j] # "NEW" => created[j] # sub[c].created
    /\ \A c, d \in Clients :
          Submitting(c) /\ Submitting(d) /\ sub[c].created = sub[d].created => c = d

(* The base of a parse is no older than the baseline of its submission, if *)
(* that still counts. A worker that lost its job to another is left out:   *)
(* it cannot complete it.                                                  *)
NoOlderBase == \A w \in Workers :
    LET p == parent[task[w]]
    IN  wpc[w] = "parsing" /\ status[task[w]] = "RUNNING" /\ p # None /\ status[p] = "SUCCEEDED" =>
           base[w] # None /\ created[p] <= created[base[w]]

(* The inductive invariant of the table, with and without failing          *)
(* submissions.                                                            *)
IInv ==
    /\ Leased
    /\ Known
    /\ Baselines
    /\ Dated
    /\ NoOlderBase

-----------------------------------------------------------------------------
(* Invariants of the keys, with and without failing submissions.           *)

(* A retryable job has failed, and may have been deleted.                  *)
RetryableFailed == \A j \in retryable : status[j] \in {"FAILED", "GONE"}

(* A key names a job that exists.                                          *)
Named == \A k \in Keys : row[k] # None => status[row[k].job] \notin {"NEW", "GONE"}

(* OutcomeIsTold, for a row and the job it names, and for a job.           *)
RowAgrees(k, i) ==
    /\ keyOf[i] = k
    /\ Open(i) => row[k].status = "RUNNING"
    /\ status[i] = "SUCCEEDED" => row[k].status = "SUCCEEDED"
    /\ ~ Open(i) /\ status[i] # "SUCCEEDED" => row[k].status = "FAILED"
    /\ (row[k].retryable = TRUE) <=> i \in retryable
RowsAgree == \A k \in Keys, i \in Jobs : row[k] # None /\ row[k].job = i => RowAgrees(k, i)

EventsAgree(i) ==
    /\ status[i] = "SUCCEEDED" => <<i, "completed">> \in events
    /\ status[i] = "FAILED" => <<i, "failed">> \in events
    /\ <<i, "completed">> \in events => status[i] = "SUCCEEDED" \/ <<i, "failed">> \in events
    /\ <<i, "failed">> \in events => status[i] \in {"FAILED", "CANCELLED", "GONE"}

ToldInv ==
    /\ RetryableFailed
    /\ Named
    /\ RowsAgree
    /\ \A i \in Jobs : EventsAgree(i)

(* What holds of the keys besides as long as no submission fails. An       *)
(* origin has failed and its key names another job by now.                 *)
NoRejection == \A c \in Clients : pc[c] \notin {"rejecting", "recording"}

Origins ==
    \A i \in Jobs : origin[i] # None =>
        /\ status[origin[i]] \in {"FAILED", "GONE"}
        /\ \A k \in Keys : row[k] # None => row[k].job # origin[i]

KeyInv ==
    /\ NoRejection
    /\ Origins
    /\ OneTaskPerKey

-----------------------------------------------------------------------------
(* Types.                                                                  *)

LEMMA NoneIsNoValue ==
    None \notin Jobs /\ None \notin Keys /\ None \notin Commits /\ None \notin Owners /\ None \notin Rows
BY ConstantsAssumption DEF Owners

(* What the two operators that write a job do to the types.                *)
LEMMA InsertTyped ==
    ASSUME TypeOK, NEW j \in Jobs, NEW s \in Submissions, NEW from \in Jobs \cup {None}, Insert(j, s, from)
    PROVE  /\ status' \in [Jobs -> JobStatuses] /\ keyOf' \in [Jobs -> Keys \cup {None}]
           /\ commit' \in [Jobs -> Commits \cup {None}] /\ parent' \in [Jobs -> Jobs \cup {None}]
           /\ created' \in [Jobs -> Nat] /\ origin' \in [Jobs -> Jobs \cup {None}]
           /\ row' \in [Keys -> Rows \cup {None}]
           /\ UNCHANGED <<retryable, owner, expired, cancelRequested, events>>
<1>1. [job |-> j, status |-> "RUNNING", retryable |-> FALSE] \in Rows
    BY DEF Rows
<1> QED BY <1>1 DEF TypeOK, Insert, Submissions, JobStatuses

LEMMA FinalizeTyped ==
    ASSUME TypeOK, NEW j \in Jobs, NEW verdict \in Decided, NEW mayRetry \in BOOLEAN,
           Finalize(j, verdict, mayRetry)
    PROVE  /\ status' \in [Jobs -> JobStatuses] /\ retryable' \in SUBSET Jobs
           /\ owner' \in [Jobs -> Owners \cup {None}] /\ expired' \in SUBSET Jobs
           /\ events' \in SUBSET (Jobs \X {"completed", "failed"})
           /\ row' \in [Keys -> Rows \cup {None}]
           /\ UNCHANGED cancelRequested
<1>1. [job |-> j, status |-> IF verdict = "SUCCEEDED" THEN "SUCCEEDED" ELSE "FAILED",
       retryable |-> mayRetry] \in Rows
    BY DEF Rows
<1>2. row' \in [Keys -> Rows \cup {None}]
    BY <1>1 DEF TypeOK, Finalize
<1>3. <<j, IF verdict = "SUCCEEDED" THEN "completed" ELSE "failed">> \in Jobs \X {"completed", "failed"}
    OBVIOUS
<1>4. events' \in SUBSET (Jobs \X {"completed", "failed"})
    BY <1>3 DEF TypeOK, Finalize, Announce
<1>5. status' \in [Jobs -> JobStatuses]
    BY DEF TypeOK, Finalize, Decided, JobStatuses
<1> QED BY <1>2, <1>4, <1>5 DEF TypeOK, Finalize, Release

(* The locals of a submission, field by field.                             *)
LEMMA Locals ==
    ASSUME NEW s \in Submissions
    PROVE  /\ NoSubmission \in Submissions
           /\ s.key \in Keys \cup {None} /\ s.created \in Nat /\ s.commit \in Commits \cup {None}
           /\ s.parent \in Jobs \cup {None} /\ s.job \in Jobs \cup {None}
           /\ \A p \in Jobs \cup {None} :
                 /\ [s EXCEPT !.parent = p] \in Submissions
                 /\ [s EXCEPT !.parent = p].parent = p /\ [s EXCEPT !.parent = p].job = s.job
                 /\ [s EXCEPT !.parent = p].key = s.key /\ [s EXCEPT !.parent = p].created = s.created
           /\ \A j \in Jobs \cup {None} :
                 /\ [s EXCEPT !.job = j] \in Submissions
                 /\ [s EXCEPT !.job = j].job = j /\ [s EXCEPT !.job = j].parent = s.parent
                 /\ [s EXCEPT !.job = j].key = s.key /\ [s EXCEPT !.job = j].created = s.created
BY DEF Submissions, NoSubmission

(* The submission that StartSubmit sends on its way.                       *)
LEMMA StartedSubmission ==
    ASSUME TypeOK, NEW c \in Clients, StartSubmit(c)
    PROVE  \E to \in {"baseline", "rejecting"}, s \in Submissions :
              /\ Proceed(c, to, s)
              /\ s.key \in Keys /\ s.created = clock + 1 /\ s.parent = None
              /\ to = "rejecting" => submissionsFail
<1>1. PICK k \in Keys :
         LET s == [NoSubmission EXCEPT !.key = k, !.created = clock + 1]
         IN  \/ \E m \in Commits : Proceed(c, "baseline", [s EXCEPT !.commit = m])
             \/ submissionsFail /\ Proceed(c, "rejecting", s)
    BY DEF StartSubmit
<1>2. clock + 1 \in Nat
    BY DEF TypeOK
<1> PICK n \in Nat : n = clock + 1
    BY <1>2
<1>3. PICK s : s = [NoSubmission EXCEPT !.key = k, !.created = n]
    OBVIOUS
<1>4. /\ s \in Submissions /\ s.key = k /\ s.created = n /\ s.parent = None
      /\ \A m \in Commits :
            /\ [s EXCEPT !.commit = m] \in Submissions
            /\ [s EXCEPT !.commit = m].key = k /\ [s EXCEPT !.commit = m].created = n
            /\ [s EXCEPT !.commit = m].parent = None
    <2>1. NoSubmission \in Submissions /\ NoSubmission.parent = None
        BY DEF Submissions, NoSubmission
    <2>2. s \in Submissions /\ s.key = k /\ s.created = n /\ s.parent = None
        BY <1>3, <2>1 DEF Submissions
    <2>3. \A m \in Commits :
             /\ [s EXCEPT !.commit = m] \in Submissions
             /\ [s EXCEPT !.commit = m].key = k /\ [s EXCEPT !.commit = m].created = n
             /\ [s EXCEPT !.commit = m].parent = None
        BY <2>2 DEF Submissions
    <2> QED BY <2>2, <2>3
<1>5. \/ \E m \in Commits : Proceed(c, "baseline", [s EXCEPT !.commit = m])
      \/ submissionsFail /\ Proceed(c, "rejecting", s)
    BY <1>1, <1>3
<1>6. CASE submissionsFail /\ Proceed(c, "rejecting", s)
    BY <1>4, <1>6
<1>7. ASSUME NEW m \in Commits, Proceed(c, "baseline", [s EXCEPT !.commit = m])
      PROVE  \E t \in Submissions :
                Proceed(c, "baseline", t) /\ t.key \in Keys /\ t.created = clock + 1 /\ t.parent = None
    BY <1>4, <1>7
<1> QED BY <1>5, <1>6, <1>7

LEMMA ProceedTyped ==
    ASSUME TypeOK, NEW c \in Clients, NEW to, NEW s \in Submissions, Proceed(c, to, s),
           to \in {"baseline", "acquiring", "retrying", "rejecting", "recording"}
    PROVE  /\ pc' \in [Clients -> {"idle", "baseline", "acquiring", "retrying", "rejecting", "recording"}]
           /\ sub' \in [Clients -> Submissions]
           /\ pc'[c] = to /\ sub'[c] = s
           /\ \A d \in Clients \ {c} : pc'[d] = pc[d] /\ sub'[d] = sub[d]
BY DEF TypeOK, Proceed

LEMMA Typing == Spec => [](TypeOK /\ InHand)
<1>1. Init => TypeOK /\ InHand
    BY ConstantsAssumption DEF Init, TypeOK, InHand, NoSubmission, Submissions, JobStatuses
<1>2. TypeOK /\ InHand /\ [Next]_vars => TypeOK' /\ InHand'
    <2> SUFFICES ASSUME TypeOK, InHand, [Next]_vars PROVE TypeOK' /\ InHand'
        OBVIOUS
    <2> USE DEF InHand, jobVars, taskVars, clientVars, callVars, workerVars
    <2>1. ASSUME NEW c \in Clients, StartSubmit(c) PROVE TypeOK' /\ InHand'
        <3>1. PICK to \in {"baseline", "rejecting"}, s \in Submissions :
                 Proceed(c, to, s) /\ s.key \in Keys
            BY <2>1, StartedSubmission
        <3>2. clock' = clock + 1 /\ clock' \in Nat
            <4>1. clock' = clock + 1
                BY <2>1 DEF StartSubmit
            <4> QED BY <4>1 DEF TypeOK
        <3>3. UNCHANGED <<jobVars, taskVars, submissionsFail, workerVars, faults>>
            BY <2>1 DEF StartSubmit
        <3>4. to \in {"baseline", "acquiring", "retrying", "rejecting", "recording"}
            OBVIOUS
        <3>5. /\ pc' \in [Clients -> {"idle", "baseline", "acquiring", "retrying", "rejecting", "recording"}]
              /\ sub' \in [Clients -> Submissions]
              /\ pc'[c] = to /\ sub'[c] = s
              /\ \A d \in Clients \ {c} : pc'[d] = pc[d] /\ sub'[d] = sub[d]
            BY <3>1, <3>4, ProceedTyped
        <3> QED BY <3>1, <3>2, <3>3, <3>5 DEF TypeOK
    <2>2. ASSUME NEW c \in Clients, ReadBaseline(c) PROVE TypeOK' /\ InHand'
        <3>1. sub[c] \in Submissions /\ sub[c].key \in Keys
            BY <2>2 DEF TypeOK, ReadBaseline
        <3>2. PICK to \in {"acquiring", "rejecting"}, s \in Submissions :
                 Proceed(c, to, s) /\ s.key = sub[c].key
            <4>1. \/ \E p \in Jobs \cup {None} : Proceed(c, "acquiring", [sub[c] EXCEPT !.parent = p])
                  \/ Proceed(c, "rejecting", sub[c])
                BY <2>2 DEF ReadBaseline
            <4>2. CASE Proceed(c, "rejecting", sub[c])
                BY <3>1, <4>2
            <4>3. ASSUME NEW p \in Jobs \cup {None}, Proceed(c, "acquiring", [sub[c] EXCEPT !.parent = p])
                  PROVE  \E s \in Submissions : Proceed(c, "acquiring", s) /\ s.key = sub[c].key
                <5>1. [sub[c] EXCEPT !.parent = p] \in Submissions /\ [sub[c] EXCEPT !.parent = p].key = sub[c].key
                    BY <3>1, Locals
                <5> QED BY <4>3, <5>1
            <4> QED BY <4>1, <4>2, <4>3
        <3> QED BY <2>2, <3>1, <3>2, ProceedTyped DEF TypeOK, ReadBaseline
    <2>3. ASSUME NEW c \in Clients, Acquire(c) PROVE TypeOK' /\ InHand'
        <3>1. PICK j \in Jobs : Insert(j, sub[c], None)
            BY <2>3 DEF Acquire
        <3>2. sub[c] \in Submissions
            BY DEF TypeOK
        <3> QED BY <2>3, <3>1, <3>2, InsertTyped DEF TypeOK, Acquire, Answer, NoSubmission, Submissions
    <2>4. ASSUME NEW c \in Clients, FindBound(c) PROVE TypeOK' /\ InHand'
        <3>1. row[sub[c].key] \in Rows /\ row[sub[c].key].job \in Jobs
            BY <2>4 DEF TypeOK, FindBound, Rows
        <3>2. sub[c] \in Submissions /\ sub[c].key \in Keys
            BY <2>4 DEF TypeOK, FindBound
        <3>3. CASE Answer(c)
            BY <2>4, <3>2, <3>3, Locals DEF TypeOK, FindBound, Answer
        <3>4. CASE Proceed(c, "retrying", [sub[c] EXCEPT !.job = row[sub[c].key].job])
            <4>1. PICK s \in Submissions : Proceed(c, "retrying", s) /\ s.key \in Keys /\ s.job \in Jobs
                <5> DEFINE s == [sub[c] EXCEPT !.job = row[sub[c].key].job]
                <5>1. s \in Submissions /\ s.key = sub[c].key /\ s.job = row[sub[c].key].job
                    BY <3>1, <3>2, Locals
                <5> HIDE DEF s
                <5> QED BY <3>1, <3>2, <3>4, <5>1 DEF s
            <4> QED BY <2>4, <4>1, ProceedTyped DEF TypeOK, FindBound
        <3> QED BY <2>4, <3>3, <3>4 DEF FindBound
    <2>5. ASSUME NEW c \in Clients, RetryFailed(c) PROVE TypeOK' /\ InHand'
        <3>1. PICK j \in Jobs : Insert(j, sub[c], sub[c].job)
            BY <2>5 DEF RetryFailed
        <3>2. sub[c] \in Submissions /\ sub[c].job \in Jobs
            BY <2>5 DEF TypeOK, RetryFailed
        <3> QED BY <2>5, <3>1, <3>2, InsertTyped DEF TypeOK, RetryFailed, Answer, NoSubmission, Submissions
    <2>6. ASSUME NEW c \in Clients, InsertRejected(c) PROVE TypeOK' /\ InHand'
        <3>1. CASE row[sub[c].key] = None
            <4>1. PICK j \in Jobs :
                     /\ Insert(j, [sub[c] EXCEPT !.parent = None], None)
                     /\ Proceed(c, "recording", [sub[c] EXCEPT !.job = j])
                BY <2>6, <3>1 DEF InsertRejected
            <4>2. [sub[c] EXCEPT !.parent = None] \in Submissions /\ [sub[c] EXCEPT !.job = j] \in Submissions
                BY Locals DEF TypeOK
            <4>3. sub[c].key \in Keys /\ [sub[c] EXCEPT !.job = j].key = sub[c].key
                  /\ [sub[c] EXCEPT !.job = j].job = j
                BY <2>6 DEF InsertRejected, TypeOK, Submissions
            <4> PICK filed \in Submissions : filed = [sub[c] EXCEPT !.job = j]
                BY <4>2
            <4>4. /\ pc' = [pc EXCEPT ![c] = "recording"] /\ sub' = [sub EXCEPT ![c] = filed]
                  /\ filed.key \in Keys /\ filed.job \in Jobs
                  /\ UNCHANGED <<callVars, wpc, task, base, faults>>
                BY <2>6, <4>1, <4>3 DEF InsertRejected, Proceed, workerVars
            <4>5. InHand'
                BY <4>4 DEF TypeOK, InHand
            <4>6. TypeOK'
                BY <4>1, <4>2, <4>4, InsertTyped DEF TypeOK
            <4> QED BY <4>5, <4>6
        <3>2. CASE row[sub[c].key] # None
            <4>1. Answer(c) /\ UNCHANGED <<jobVars, taskVars, callVars, workerVars, faults>>
                BY <2>6, <3>2 DEF InsertRejected
            <4> QED BY <4>1 DEF TypeOK, Answer, NoSubmission, Submissions
        <3> QED BY <3>1, <3>2
    <2>7. ASSUME NEW c \in Clients, RecordRejected(c) PROVE TypeOK' /\ InHand'
        <3>1. sub[c].job \in Jobs
            BY <2>7 DEF RecordRejected
        <3>2. CASE UNCHANGED jobVars
            BY <2>7, <3>2 DEF TypeOK, RecordRejected, Answer, NoSubmission, Submissions
        <3>3. CASE \E mayRetry \in BOOLEAN : Finalize(sub[c].job, "FAILED", mayRetry)
            <4>1. "FAILED" \in Decided
                BY DEF Decided
            <4> QED BY <2>7, <3>1, <3>3, <4>1, FinalizeTyped
                    DEF TypeOK, RecordRejected, Answer, NoSubmission, Submissions
        <3> QED BY <2>7, <3>2, <3>3 DEF RecordRejected
    <2>8. ASSUME NEW c \in Clients, Return(c) PROVE TypeOK' /\ InHand'
        BY <2>8 DEF TypeOK, Return, Answer, NoSubmission, Submissions
    <2>9. ASSUME NEW j \in Jobs, RequestCancel(j) PROVE TypeOK' /\ InHand'
        <3>1. row' \in [Keys -> Rows \cup {None}]
            <4>1. \A r \in Rows : [r EXCEPT !.status = "FAILED", !.retryable = FALSE] \in Rows
                BY DEF Rows
            <4>2. CASE UNCHANGED row
                BY <4>2 DEF TypeOK
            <4>3. CASE row' = [k \in Keys |->
                               IF row[k] # None /\ row[k].job = j
                               THEN [row[k] EXCEPT !.status = "FAILED", !.retryable = FALSE]
                               ELSE row[k]]
                BY <4>1, <4>3 DEF TypeOK
            <4> QED BY <2>9, <4>2, <4>3 DEF RequestCancel
        <3> QED BY <2>9, <3>1 DEF TypeOK, RequestCancel, JobStatuses
    <2>10. ASSUME NEW j \in Jobs, Cleanup(j) PROVE TypeOK' /\ InHand'
        BY <2>10 DEF TypeOK, Cleanup, JobStatuses
    <2>11. ASSUME NEW w \in Workers, ClaimTask(w) PROVE TypeOK' /\ InHand'
        BY <2>11 DEF TypeOK, ClaimTask, JobStatuses, Owners
    <2>12. ASSUME NEW w \in Workers, LoadTask(w) PROVE TypeOK' /\ InHand'
        BY <2>12 DEF TypeOK, LoadTask, Leave
    <2>13. ASSUME NEW w \in Workers, StartParsing(w) PROVE TypeOK' /\ InHand'
        BY <2>13 DEF TypeOK, StartParsing
    <2>14. ASSUME NEW w \in Workers, Heartbeat(w) PROVE TypeOK' /\ InHand'
        BY <2>14 DEF TypeOK, Heartbeat
    <2>15. ASSUME NEW w \in Workers, StopExecution(w) PROVE TypeOK' /\ InHand'
        BY <2>15 DEF TypeOK, StopExecution, Executing, Fault
    <2>16. ASSUME NEW w \in Workers, CompleteTask(w) PROVE TypeOK' /\ InHand'
        <3>1. task[w] \in Jobs /\ "SUCCEEDED" \in Decided /\ Finalize(task[w], "SUCCEEDED", FALSE)
            BY <2>16 DEF CompleteTask, Decided
        <3>2. parent' \in [Jobs -> Jobs \cup {None}]
            BY <2>16 DEF TypeOK, CompleteTask
        <3>3. UNCHANGED <<keyOf, commit, created, origin, clientVars, faults>> /\ Leave(w)
            BY <2>16 DEF CompleteTask
        <3> QED BY <3>1, <3>2, <3>3, FinalizeTyped DEF TypeOK, Leave
    <2>17. ASSUME NEW w \in Workers, CompleteRefused(w) \/ StopUnrecorded(w) PROVE TypeOK' /\ InHand'
        BY <2>17 DEF TypeOK, CompleteRefused, StopUnrecorded, Leave
    <2>18. ASSUME NEW w \in Workers, RecordFailure(w) PROVE TypeOK' /\ InHand'
        <3>1. task[w] \in Jobs
            BY <2>18 DEF RecordFailure
        <3>2. CASE UNCHANGED jobVars
            BY <2>18, <3>2 DEF TypeOK, RecordFailure, Leave
        <3>3. ASSUME NEW verdict \in Decided, NEW mayRetry \in BOOLEAN, Finalize(task[w], verdict, mayRetry)
              PROVE  TypeOK' /\ InHand'
            <4>1. UNCHANGED <<taskVars, clientVars, faults>> /\ Leave(w)
                BY <2>18 DEF RecordFailure
            <4> QED BY <3>1, <3>3, <4>1, FinalizeTyped DEF TypeOK, Leave
        <3> QED BY <2>18, <3>2, <3>3 DEF RecordFailure, Decided
    <2>19. ASSUME NEW w \in Workers, Crash(w) PROVE TypeOK' /\ InHand'
        BY <2>19 DEF TypeOK, Crash, Leave, Fault
    <2>20. ASSUME NEW j \in Jobs, ExpireLease(j) PROVE TypeOK' /\ InHand'
        BY <2>20 DEF TypeOK, ExpireLease, Fault
    <2>21. ASSUME UNCHANGED vars PROVE TypeOK' /\ InHand'
        BY <2>21 DEF TypeOK, vars
    <2> QED BY <2>1, <2>2, <2>3, <2>4, <2>5, <2>6, <2>7, <2>8, <2>9, <2>10, <2>11, <2>12, <2>13, <2>14,
            <2>15, <2>16, <2>17, <2>18, <2>19, <2>20, <2>21 DEF Next, ClientStep, Execution
<1> QED BY <1>1, <1>2, PTL DEF Spec

-----------------------------------------------------------------------------
(* The table of jobs.                                                      *)

(* How the status of a job may change. The last line is the late record of *)
(* a rejection, which names no owner and overwrites what it finds.         *)
Moves(j, old, new) ==
    \/ old = new
    \/ old = "NEW" /\ new = "PENDING"
    \/ old = "PENDING" /\ new \in {"RUNNING", "CANCELLED"}
    \/ old = "RUNNING" /\ new \in Decided
    \/ old \in {"FAILED", "CANCELLED"} /\ new = "GONE"
    \/ old \notin {"NEW", "GONE"} /\ new = "FAILED" /\ LateRejection(j)

(* A worker that finds its name on its job finds the job running.          *)
LEMMA OwnedIsRunning ==
    ASSUME TypeOK, InHand, Leased, NEW w \in Workers, wpc[w] # "idle", Owned(w)
    PROVE  task[w] \in Jobs /\ status[task[w]] = "RUNNING"
BY NoneIsNoValue DEF InHand, Leased, Owned, Owners

LEMMA StatusMoves ==
    ASSUME TypeOK, InHand, Leased, Known, [Next]_vars, NEW j \in Jobs
    PROVE  Moves(j, status[j], status'[j])
<1> USE DEF Moves
<1>1. ASSUME NEW i, NEW s, NEW from, Insert(i, s, from) PROVE Moves(j, status[j], status'[j])
    BY <1>1 DEF TypeOK, Insert
<1>2. ASSUME NEW w \in Workers, CompleteTask(w) \/ RecordFailure(w) PROVE Moves(j, status[j], status'[j])
    <2>1. CASE ~ Owned(w)
        BY <1>2, <2>1 DEF CompleteTask, RecordFailure, jobVars
    <2>2. CASE Owned(w)
        <3>1. task[w] \in Jobs /\ status[task[w]] = "RUNNING"
            BY <1>2, <2>2, OwnedIsRunning DEF CompleteTask, RecordFailure
        <3>2. \E verdict \in Decided, mayRetry \in BOOLEAN : Finalize(task[w], verdict, mayRetry)
            BY <1>2, <2>2 DEF CompleteTask, RecordFailure, Decided
        <3> QED BY <3>1, <3>2 DEF TypeOK, Finalize
    <2> QED BY <2>1, <2>2
<1>3. ASSUME NEW c \in Clients, RecordRejected(c) PROVE Moves(j, status[j], status'[j])
    <2>1. sub[c].job \in Jobs /\ status[sub[c].job] # "NEW" /\ LateRejection(sub[c].job)
        BY <1>3 DEF RecordRejected, InHand, Known, LateRejection, Answer, TypeOK
    <2>2. \/ UNCHANGED status
          \/ status[sub[c].job] # "GONE" /\ status' = [status EXCEPT ![sub[c].job] = "FAILED"]
        BY <1>3 DEF RecordRejected, Finalize, jobVars
    <2> QED BY <2>1, <2>2 DEF TypeOK
<1>4. ASSUME NEW c \in Clients, Acquire(c) \/ RetryFailed(c) \/ InsertRejected(c)
      PROVE  Moves(j, status[j], status'[j])
    BY <1>1, <1>4 DEF Acquire, RetryFailed, InsertRejected, jobVars
<1>5. ASSUME NEW i \in Jobs, RequestCancel(i) PROVE Moves(j, status[j], status'[j])
    BY <1>5 DEF TypeOK, RequestCancel
<1>6. ASSUME NEW i \in Jobs, Cleanup(i) PROVE Moves(j, status[j], status'[j])
    BY <1>6 DEF TypeOK, Cleanup
<1>7. ASSUME NEW w \in Workers, ClaimTask(w) PROVE Moves(j, status[j], status'[j])
    BY <1>7 DEF TypeOK, ClaimTask, Claimable, Leased
<1> QED BY <1>2, <1>3, <1>4, <1>5, <1>6, <1>7 DEF Next, ClientStep, Execution, StartSubmit, ReadBaseline,
       FindBound, Return, LoadTask, StartParsing, CompleteRefused, StopUnrecorded, Heartbeat,
       StopExecution, Crash, ExpireLease, vars, jobVars

LEMMA LeasedKept ==
    ASSUME TypeOK, InHand, Leased, Known, [Next]_vars
    PROVE  Leased'
<1> USE DEF Leased
<1>1. ASSUME NEW i, NEW s, NEW from, Insert(i, s, from) PROVE Leased'
    BY <1>1 DEF TypeOK, Insert
<1>2. ASSUME NEW i, NEW verdict, NEW mayRetry, Finalize(i, verdict, mayRetry) PROVE Leased'
    BY <1>2 DEF TypeOK, Finalize, Release
<1>3. ASSUME NEW i \in Jobs, RequestCancel(i) \/ Cleanup(i) \/ ExpireLease(i) PROVE Leased'
    BY <1>3 DEF TypeOK, RequestCancel, Cleanup, ExpireLease
<1>4. ASSUME NEW w \in Workers, ClaimTask(w) PROVE Leased'
    BY <1>4 DEF TypeOK, ClaimTask
<1>5. ASSUME NEW w \in Workers, Heartbeat(w) PROVE Leased'
    BY <1>5 DEF TypeOK, Heartbeat
<1>6. ASSUME UNCHANGED <<status, owner, expired>> PROVE Leased'
    BY <1>6
<1> QED BY <1>1, <1>2, <1>3, <1>4, <1>5, <1>6 DEF Next, ClientStep, Execution, StartSubmit,
       ReadBaseline, Acquire, FindBound, RetryFailed, InsertRejected, RecordRejected, Return,
       LoadTask, StartParsing, CompleteTask, CompleteRefused, RecordFailure, StopUnrecorded,
       StopExecution, Crash, vars, jobVars

(* The end of a submission that inserts a job.                             *)
Inserts(c, j, s, from) ==
    /\ Submitting(c) /\ sub[c].key \in Keys
    /\ s.key = sub[c].key /\ s.created = sub[c].created /\ s.parent \in {sub[c].parent, None}
    /\ Insert(j, s, from)
    /\ \/ pc'[c] = "idle" /\ sub'[c] = NoSubmission
       \/ pc'[c] = "recording" /\ sub'[c].job = j /\ sub'[c].parent = sub[c].parent
    /\ \A d \in Clients \ {c} : pc'[d] = pc[d] /\ sub'[d] = sub[d]
    /\ UNCHANGED <<callVars, workerVars>>

LEMMA Insertion ==
    ASSUME TypeOK, InHand, NEW c \in Clients, Acquire(c) \/ RetryFailed(c) \/ InsertRejected(c)
    PROVE  \/ \E j \in Jobs, s \in Submissions, from \in Jobs \cup {None} : Inserts(c, j, s, from)
           \/ /\ UNCHANGED <<jobVars, taskVars, callVars, workerVars>>
              /\ pc' = [pc EXCEPT ![c] = "idle"] /\ sub' = [sub EXCEPT ![c] = NoSubmission]
<1>1. /\ sub[c] \in Submissions /\ sub[c].key \in Keys /\ Submitting(c)
      /\ UNCHANGED <<callVars, workerVars>>
    BY DEF InHand, TypeOK, Submitting, Acquire, RetryFailed, InsertRejected
<1>2. CASE Acquire(c) \/ RetryFailed(c)
    <2>1. PICK j \in Jobs, from \in Jobs \cup {None} : Insert(j, sub[c], from)
        BY <1>2 DEF Acquire, RetryFailed, InHand
    <2>2. Answer(c)
        BY <1>2 DEF Acquire, RetryFailed
    <2> QED BY <1>1, <2>1, <2>2 DEF Inserts, Answer, TypeOK
<1>3. CASE InsertRejected(c)
    <2>1. CASE row[sub[c].key] = None
        <3>1. PICK j \in Jobs :
                 /\ Insert(j, [sub[c] EXCEPT !.parent = None], None)
                 /\ Proceed(c, "recording", [sub[c] EXCEPT !.job = j])
            BY <1>3, <2>1 DEF InsertRejected
        <3>2. PICK s \in Submissions : s = [sub[c] EXCEPT !.parent = None]
            BY <1>1, Locals
        <3>3. s.key = sub[c].key /\ s.created = sub[c].created /\ s.parent = None
            BY <1>1, <3>2, Locals
        <3>4. PICK t \in Submissions : t = [sub[c] EXCEPT !.job = j]
            BY <1>1, Locals
        <3>5. t.job = j /\ t.parent = sub[c].parent
            BY <1>1, <3>4, Locals
        <3>6. pc'[c] = "recording" /\ sub'[c] = t /\ \A d \in Clients \ {c} : pc'[d] = pc[d] /\ sub'[d] = sub[d]
            BY <3>1, <3>4 DEF Proceed, TypeOK
        <3>7. Inserts(c, j, s, None)
            BY <1>1, <3>1, <3>2, <3>3, <3>5, <3>6 DEF Inserts
        <3> QED BY <3>7
    <2>2. CASE row[sub[c].key] # None
        BY <1>1, <1>3, <2>2 DEF InsertRejected, Answer
    <2> QED BY <2>1, <2>2
<1> QED BY <1>2, <1>3

(* A job is decided that has been inserted.                                *)
LEMMA DecidingInsertsNothing ==
    ASSUME TypeOK, NEW i \in Jobs, status[i] # "NEW", NEW verdict, NEW mayRetry,
           UNCHANGED jobVars \/ Finalize(i, verdict, mayRetry)
    PROVE  \A j \in Jobs : status[j] = "NEW" => status'[j] = "NEW"
BY DEF Finalize, TypeOK, jobVars

LEMMA RecordingInsertsNothing ==
    ASSUME TypeOK, InHand, Known,
           \/ \E c \in Clients : RecordRejected(c)
           \/ \E w \in Workers : CompleteTask(w) \/ RecordFailure(w)
    PROVE  \A j \in Jobs : status[j] = "NEW" => status'[j] = "NEW"
<1>1. ASSUME NEW c \in Clients, RecordRejected(c)
      PROVE  \A j \in Jobs : status[j] = "NEW" => status'[j] = "NEW"
    <2>1. sub[c].job \in Jobs /\ status[sub[c].job] # "NEW"
        BY <1>1 DEF RecordRejected, InHand, Known
    <2>2. UNCHANGED jobVars \/ \E mayRetry : Finalize(sub[c].job, "FAILED", mayRetry)
        BY <1>1 DEF RecordRejected
    <2> QED BY <2>1, <2>2, DecidingInsertsNothing
<1>2. ASSUME NEW w \in Workers, CompleteTask(w) \/ RecordFailure(w)
      PROVE  \A j \in Jobs : status[j] = "NEW" => status'[j] = "NEW"
    <2>1. task[w] \in Jobs /\ status[task[w]] # "NEW"
        BY <1>2 DEF CompleteTask, RecordFailure, InHand, Known
    <2>2. UNCHANGED jobVars \/ \E verdict, mayRetry : Finalize(task[w], verdict, mayRetry)
        BY <1>2 DEF CompleteTask, RecordFailure
    <2> QED BY <2>1, <2>2, DecidingInsertsNothing
<1> QED BY <1>1, <1>2

LEMMA KnownKept ==
    ASSUME TypeOK, InHand, Leased, Known, [Next]_vars
    PROVE  Known'
<1>1. \A j \in Jobs :
         /\ status[j] # "NEW" => status'[j] # "NEW"
         /\ status[j] \notin {"NEW", "PENDING"} => status'[j] \notin {"NEW", "PENDING"}
    BY StatusMoves DEF Moves, Decided
<1>2. ASSUME NEW c \in Clients, Acquire(c) \/ RetryFailed(c) \/ InsertRejected(c) PROVE Known'
    <2>1. CASE \E j \in Jobs, s \in Submissions, from \in Jobs \cup {None} : Inserts(c, j, s, from)
        BY <1>1, <2>1 DEF Inserts, Insert, TypeOK, InHand, Known, workerVars
    <2>2. CASE /\ UNCHANGED <<jobVars, taskVars, callVars, workerVars>>
               /\ pc' = [pc EXCEPT ![c] = "idle"] /\ sub' = [sub EXCEPT ![c] = NoSubmission]
        BY <2>2 DEF TypeOK, Known, jobVars, taskVars, workerVars
    <2> QED BY <1>2, <2>1, <2>2, Insertion
<1>3. ASSUME UNCHANGED keyOf, \A j \in Jobs : status[j] = "NEW" => status'[j] = "NEW",
             \A c \in Clients : pc'[c] = "recording" => pc[c] = "recording" /\ sub'[c] = sub[c],
             \A w \in Workers : wpc'[w] # "idle" =>
                \/ wpc[w] # "idle" /\ task'[w] = task[w]
                \/ task'[w] \in Jobs /\ status'[task'[w]] = "RUNNING"
      PROVE  Known'
    <2>1. \A j \in Jobs : status'[j] # "NEW" => keyOf'[j] \in Keys
        BY <1>3 DEF Known
    <2>2. ASSUME NEW c \in Clients, pc'[c] = "recording" PROVE status'[sub'[c].job] # "NEW"
        <3>1. sub[c].job \in Jobs /\ status[sub[c].job] # "NEW" /\ sub'[c] = sub[c]
            BY <1>3, <2>2 DEF Known, InHand
        <3>2. status'[sub[c].job] # "NEW"
            BY <1>1, <3>1
        <3> QED BY <3>1, <3>2
    <2>3. ASSUME NEW w \in Workers, wpc'[w] # "idle" PROVE status'[task'[w]] \notin {"NEW", "PENDING"}
        <3>1. CASE task'[w] \in Jobs /\ status'[task'[w]] = "RUNNING"
            BY <3>1
        <3>2. CASE wpc[w] # "idle" /\ task'[w] = task[w]
            <4>1. task[w] \in Jobs /\ status[task[w]] \notin {"NEW", "PENDING"}
                BY <3>2 DEF Known, InHand
            <4>2. status'[task[w]] \notin {"NEW", "PENDING"}
                BY <1>1, <4>1
            <4> QED BY <3>2, <4>2
        <3> QED BY <1>3, <2>3, <3>1, <3>2
    <2> QED BY <2>1, <2>2, <2>3 DEF Known
<1>4. ASSUME NEW c \in Clients, StartSubmit(c) \/ ReadBaseline(c) \/ FindBound(c) \/ Return(c) PROVE Known'
    BY <1>3, <1>4 DEF StartSubmit, ReadBaseline, FindBound, Return, Proceed, Answer, TypeOK,
       jobVars, taskVars, workerVars
<1>5. ASSUME NEW c \in Clients, RecordRejected(c) PROVE Known'
    <2>1. \A j \in Jobs : status[j] = "NEW" => status'[j] = "NEW"
        BY <1>5, RecordingInsertsNothing
    <2> QED BY <1>3, <1>5, <2>1 DEF RecordRejected, Answer, TypeOK, taskVars, workerVars
<1>6. ASSUME NEW w \in Workers, CompleteTask(w) \/ RecordFailure(w) PROVE Known'
    <2>1. \A j \in Jobs : status[j] = "NEW" => status'[j] = "NEW"
        BY <1>6, RecordingInsertsNothing
    <2>2. UNCHANGED <<keyOf, clientVars>> /\ Leave(w)
        BY <1>6 DEF CompleteTask, RecordFailure, taskVars
    <2> QED BY <1>3, <2>1, <2>2 DEF Leave, TypeOK, clientVars, callVars
<1>7. ASSUME NEW w \in Workers, ClaimTask(w) PROVE Known'
    <2>1. PICK j \in Jobs : Claimable(j) /\ status' = [status EXCEPT ![j] = "RUNNING"]
                           /\ task' = [task EXCEPT ![w] = j]
        BY <1>7 DEF ClaimTask
    <2>2. status[j] # "NEW"
        BY <2>1 DEF Claimable, Leased
    <2>3. UNCHANGED <<keyOf, pc, sub>> /\ wpc' = [wpc EXCEPT ![w] = "claimed"]
        BY <1>7 DEF ClaimTask, taskVars, clientVars, callVars
    <2>4. \A i \in Jobs : status[i] = "NEW" => status'[i] = "NEW"
        BY <2>1, <2>2 DEF TypeOK
    <2>5. \A v \in Workers : wpc'[v] # "idle" =>
             \/ wpc[v] # "idle" /\ task'[v] = task[v]
             \/ task'[v] \in Jobs /\ status'[task'[v]] = "RUNNING"
        BY <2>1, <2>3 DEF TypeOK
    <2> QED BY <1>3, <2>3, <2>4, <2>5
<1>8. ASSUME NEW w \in Workers, \/ LoadTask(w) \/ StartParsing(w) \/ CompleteRefused(w) \/ StopUnrecorded(w)
                               \/ Heartbeat(w) \/ StopExecution(w) \/ Crash(w)
      PROVE  Known'
    BY <1>3, <1>8 DEF LoadTask, StartParsing, CompleteRefused, StopUnrecorded, Heartbeat, StopExecution,
       Crash, Leave, Executing, TypeOK, jobVars, taskVars, clientVars, callVars, workerVars
<1>9. ASSUME NEW i \in Jobs, RequestCancel(i) \/ Cleanup(i) \/ ExpireLease(i) PROVE Known'
    <2>1. UNCHANGED <<keyOf, pc, sub, wpc, task>>
        BY <1>9 DEF RequestCancel, Cleanup, ExpireLease, taskVars, clientVars, callVars, workerVars
    <2>2. \A j \in Jobs : status[j] = "NEW" => status'[j] = "NEW"
        BY <1>9 DEF RequestCancel, Cleanup, ExpireLease, TypeOK
    <2> QED BY <1>3, <2>1, <2>2
<1>10. ASSUME UNCHANGED vars PROVE Known'
    BY <1>3, <1>10 DEF vars, jobVars, taskVars, clientVars, callVars, workerVars
<1> QED BY <1>2, <1>4, <1>5, <1>6, <1>7, <1>8, <1>9, <1>10 DEF Next, ClientStep, Execution

(* What the steps other than an insertion do to the columns written at the *)
(* insertion: only a completion replaces the parent, by the base used.     *)
LEMMA WrittenOnce ==
    ASSUME TypeOK, InHand, Known, Leased, [Next]_vars
    PROVE  \/ \E c \in Clients, j \in Jobs, s \in Submissions, from \in Jobs \cup {None} : Inserts(c, j, s, from)
           \/ /\ UNCHANGED <<created, commit, keyOf, origin>>
              /\ \A j \in Jobs : status[j] = "NEW" => status'[j] = "NEW"
              /\ \/ UNCHANGED parent
                 \/ \E w \in Workers :
                       /\ wpc[w] = "parsing" /\ status[task[w]] = "RUNNING" /\ status'[task[w]] = "SUCCEEDED"
                       /\ task[w] \in Jobs /\ CompleteTask(w)
                       /\ \E p \in {base[w], None} : parent' = [parent EXCEPT ![task[w]] = p]
<1>1. ASSUME NEW c \in Clients, Acquire(c) \/ RetryFailed(c) \/ InsertRejected(c)
      PROVE  \/ \E j \in Jobs, s \in Submissions, from \in Jobs \cup {None} : Inserts(c, j, s, from)
             \/ UNCHANGED <<jobVars, taskVars>>
    BY <1>1, Insertion
<1>2. ASSUME NEW w \in Workers, CompleteTask(w)
      PROVE  /\ UNCHANGED <<created, commit, keyOf, origin>>
             /\ wpc[w] = "parsing" /\ status[task[w]] = "RUNNING" /\ status'[task[w]] = "SUCCEEDED"
             /\ task[w] \in Jobs
             /\ \A j \in Jobs : status[j] = "NEW" => status'[j] = "NEW"
             /\ \E p \in {base[w], None} : parent' = [parent EXCEPT ![task[w]] = p]
    <2>1. task[w] \in Jobs /\ status[task[w]] = "RUNNING"
        BY <1>2, OwnedIsRunning DEF CompleteTask
    <2> QED BY <1>2, <2>1 DEF CompleteTask, Finalize, TypeOK
<1>3. ASSUME NEW c \in Clients, RecordRejected(c)
      PROVE  UNCHANGED taskVars /\ \A j \in Jobs : status[j] = "NEW" => status'[j] = "NEW"
    BY <1>3, RecordingInsertsNothing DEF RecordRejected
<1>4. ASSUME NEW w \in Workers, RecordFailure(w)
      PROVE  UNCHANGED taskVars /\ \A j \in Jobs : status[j] = "NEW" => status'[j] = "NEW"
    BY <1>4, RecordingInsertsNothing DEF RecordFailure
<1>5. ASSUME NEW w \in Workers, ClaimTask(w)
      PROVE  UNCHANGED taskVars /\ \A j \in Jobs : status[j] = "NEW" => status'[j] = "NEW"
    BY <1>5 DEF ClaimTask, Claimable, Leased, TypeOK
<1>6. ASSUME NEW i \in Jobs, RequestCancel(i) \/ Cleanup(i)
      PROVE  UNCHANGED taskVars /\ \A j \in Jobs : status[j] = "NEW" => status'[j] = "NEW"
    BY <1>6 DEF RequestCancel, Cleanup, TypeOK
<1>7. ASSUME UNCHANGED <<status, taskVars>>
      PROVE  UNCHANGED taskVars /\ \A j \in Jobs : status[j] = "NEW" => status'[j] = "NEW"
    BY <1>7
<1>8. UNCHANGED taskVars => UNCHANGED <<created, commit, keyOf, origin, parent>>
    BY DEF taskVars
<1>9. CASE \E w \in Workers : CompleteTask(w)
    BY <1>2, <1>9
<1>10. CASE \E c \in Clients : Acquire(c) \/ RetryFailed(c) \/ InsertRejected(c)
    BY <1>1, <1>8, <1>10 DEF jobVars
<1>11. CASE /\ UNCHANGED taskVars
            /\ \A j \in Jobs : status[j] = "NEW" => status'[j] = "NEW"
    BY <1>8, <1>11
<1> QED BY <1>3, <1>4, <1>5, <1>6, <1>7, <1>9, <1>10, <1>11
        DEF Next, ClientStep, Execution, StartSubmit, ReadBaseline, FindBound, Return, LoadTask,
        StartParsing, CompleteRefused, StopUnrecorded, Heartbeat, StopExecution, Crash, ExpireLease,
        vars, jobVars

(* How the locals of a submission change.                                  *)
ClientMove(c) ==
    /\ \/ sub'[c].parent \in {None, sub[c].parent}
       \/ sub'[c].parent \in Succeeded
    /\ Submitting(c)' =>
          \/ Submitting(c) /\ sub'[c].created = sub[c].created
          \/ /\ sub'[c].created = clock + 1 /\ clock' = clock + 1
             /\ \A d \in Clients \ {c} : sub'[d] = sub[d] /\ pc'[d] = pc[d]
             /\ UNCHANGED <<jobVars, taskVars>>

LEMMA ClientMoves ==
    ASSUME TypeOK, InHand, [Next]_vars
    PROVE  /\ clock' \in {clock, clock + 1}
           /\ \A c \in Clients : ClientMove(c)
<1>1. ASSUME UNCHANGED clientVars PROVE clock' = clock /\ \A c \in Clients : ClientMove(c)
    BY <1>1 DEF clientVars, callVars, ClientMove, Submitting
<1>2. ASSUME NEW c \in Clients, pc'[c] = "idle", sub'[c].parent = None,
             \A d \in Clients \ {c} : sub'[d] = sub[d] /\ pc'[d] = pc[d]
      PROVE  \A d \in Clients : ClientMove(d)
    BY <1>2 DEF ClientMove, Submitting
<1>3. NoSubmission.parent = None
    BY DEF NoSubmission
<1>4. ASSUME NEW c \in Clients, Acquire(c) \/ RetryFailed(c) \/ InsertRejected(c)
      PROVE  clock' = clock /\ \A d \in Clients : ClientMove(d)
    <2>1. ASSUME NEW j \in Jobs, NEW s \in Submissions, NEW from \in Jobs \cup {None}, Inserts(c, j, s, from)
          PROVE  clock' = clock /\ \A d \in Clients : ClientMove(d)
        BY <1>3, <2>1 DEF Inserts, ClientMove, Submitting, callVars
    <2>2. ASSUME pc' = [pc EXCEPT ![c] = "idle"], sub' = [sub EXCEPT ![c] = NoSubmission], clock' = clock
          PROVE  clock' = clock /\ \A d \in Clients : ClientMove(d)
        BY <1>3, <2>2 DEF TypeOK, ClientMove, Submitting
    <2> QED BY <1>4, <2>1, <2>2, Insertion DEF callVars
<1>5. ASSUME NEW c \in Clients, Answer(c) PROVE \A d \in Clients : ClientMove(d)
    BY <1>3, <1>5 DEF Answer, TypeOK, ClientMove, Submitting
<1>6. ASSUME NEW c \in Clients, StartSubmit(c) PROVE clock' = clock + 1 /\ \A d \in Clients : ClientMove(d)
    <2>1. PICK to \in {"baseline", "rejecting"}, s \in Submissions :
             Proceed(c, to, s) /\ s.created = clock + 1 /\ s.parent = None
        BY <1>6, StartedSubmission
    <2>2. clock' = clock + 1 /\ UNCHANGED <<jobVars, taskVars>>
        BY <1>6 DEF StartSubmit
    <2>3. sub'[c] = s /\ \A d \in Clients \ {c} : sub'[d] = sub[d] /\ pc'[d] = pc[d]
        BY <2>1 DEF Proceed, TypeOK
    <2>4. ClientMove(c)
        BY <2>1, <2>2, <2>3 DEF ClientMove
    <2>5. \A d \in Clients \ {c} : ClientMove(d)
        BY <2>3 DEF ClientMove, Submitting
    <2> QED BY <2>2, <2>4, <2>5
<1>7. ASSUME NEW c \in Clients, NEW to, NEW s \in Submissions, Proceed(c, to, s), Submitting(c),
             s.created = sub[c].created, s.parent \in {None, sub[c].parent} \cup Succeeded
      PROVE  \A d \in Clients : ClientMove(d)
    BY <1>7 DEF Proceed, TypeOK, ClientMove, Submitting
<1>8. ASSUME NEW c \in Clients, ReadBaseline(c) PROVE clock' = clock /\ \A d \in Clients : ClientMove(d)
    <2>1. sub[c] \in Submissions /\ Submitting(c) /\ clock' = clock
        BY <1>8 DEF TypeOK, ReadBaseline, Submitting, callVars
    <2>2. CASE Proceed(c, "rejecting", sub[c])
        BY <1>7, <2>1, <2>2
    <2>3. ASSUME NEW p \in Jobs \cup {None}, IsLatest(p),
                 Proceed(c, "acquiring", [sub[c] EXCEPT !.parent = p])
          PROVE  \A d \in Clients : ClientMove(d)
        <3>1. PICK s \in Submissions : s = [sub[c] EXCEPT !.parent = p]
            BY <2>1, Locals
        <3>2. s.created = sub[c].created /\ s.parent = p
            BY <2>1, <3>1, Locals
        <3> QED BY <1>7, <2>1, <2>3, <3>1, <3>2 DEF IsLatest
    <2> QED BY <1>8, <2>1, <2>2, <2>3 DEF ReadBaseline
<1>9. ASSUME NEW c \in Clients, FindBound(c) PROVE clock' = clock /\ \A d \in Clients : ClientMove(d)
    <2>1. sub[c] \in Submissions /\ Submitting(c) /\ clock' = clock /\ row[sub[c].key].job \in Jobs
        BY <1>9 DEF TypeOK, InHand, FindBound, Submitting, Rows, callVars
    <2>2. CASE Proceed(c, "retrying", [sub[c] EXCEPT !.job = row[sub[c].key].job])
        <3>1. PICK s \in Submissions : s = [sub[c] EXCEPT !.job = row[sub[c].key].job]
            BY <2>1, Locals
        <3>2. s.created = sub[c].created /\ s.parent = sub[c].parent
            BY <2>1, <3>1, Locals
        <3> QED BY <1>7, <2>1, <2>2, <3>1, <3>2
    <2> QED BY <1>5, <1>9, <2>1, <2>2 DEF FindBound
<1>10. ASSUME NEW c \in Clients, RecordRejected(c) \/ Return(c)
       PROVE  clock' = clock /\ \A d \in Clients : ClientMove(d)
    BY <1>5, <1>10 DEF RecordRejected, Return, callVars
<1> QED BY <1>1, <1>4, <1>6, <1>8, <1>9, <1>10 DEF Next, ClientStep, Execution, ClaimTask, LoadTask,
       StartParsing, CompleteTask, CompleteRefused, RecordFailure, StopUnrecorded, Heartbeat,
       StopExecution, Crash, RequestCancel, Cleanup, ExpireLease, vars

(* How the locals of a worker change.                                      *)
WorkerMove(w) ==
    /\ base'[w] \in {None, base[w]} \cup Succeeded
    /\ wpc'[w] = "parsing" =>
          \/ wpc[w] = "parsing" /\ task'[w] = task[w] /\ base'[w] = base[w]
          \/ /\ wpc[w] = "loaded" /\ task'[w] = task[w]
             /\ IsLatest(base'[w]) /\ UNCHANGED <<jobVars, taskVars>>

LEMMA WorkerMoves ==
    ASSUME TypeOK, InHand, [Next]_vars
    PROVE  \A w \in Workers : WorkerMove(w)
<1>1. ASSUME UNCHANGED workerVars PROVE \A w \in Workers : WorkerMove(w)
    BY <1>1 DEF workerVars, WorkerMove
<1>2. ASSUME NEW w \in Workers, Leave(w) PROVE \A v \in Workers : WorkerMove(v)
    BY <1>2 DEF Leave, TypeOK, WorkerMove
<1>3. ASSUME NEW w \in Workers, LoadTask(w) PROVE \A v \in Workers : WorkerMove(v)
    <2>1. CASE Leave(w)
        BY <1>2, <2>1
    <2>2. CASE wpc' = [wpc EXCEPT ![w] = "loaded"] /\ UNCHANGED <<task, base>>
        BY <2>2 DEF TypeOK, WorkerMove
    <2> QED BY <1>3, <2>1, <2>2 DEF LoadTask
<1>4. ASSUME NEW w \in Workers, StartParsing(w) PROVE \A v \in Workers : WorkerMove(v)
    <2>1. PICK p \in Jobs \cup {None} : IsLatest(p) /\ base' = [base EXCEPT ![w] = p]
        BY <1>4 DEF StartParsing
    <2>2. p \in {None} \cup Succeeded
        BY <2>1 DEF IsLatest
    <2>3. /\ wpc[w] = "loaded" /\ wpc' = [wpc EXCEPT ![w] = "parsing"]
          /\ UNCHANGED <<jobVars, taskVars, task>>
        BY <1>4 DEF StartParsing
    <2> QED BY <2>1, <2>2, <2>3 DEF TypeOK, WorkerMove
<1>5. ASSUME NEW w \in Workers, StopExecution(w) \/ ClaimTask(w) PROVE \A v \in Workers : WorkerMove(v)
    BY <1>5 DEF StopExecution, ClaimTask, TypeOK, WorkerMove
<1> QED BY <1>1, <1>2, <1>3, <1>4, <1>5, Insertion DEF Next, ClientStep, Execution, CompleteTask,
       CompleteRefused, RecordFailure, StopUnrecorded, Crash, Heartbeat, RequestCancel, Cleanup,
       ExpireLease, StartSubmit, ReadBaseline, Acquire, FindBound, RetryFailed, InsertRejected,
       RecordRejected, Return, vars

(* What was decided is never open again, nor new; a success that is gone   *)
(* does not come back.                                                     *)
LEMMA PastStays ==
    ASSUME TypeOK, InHand, Leased, Known, [Next]_vars, NEW j \in Jobs, status[j] \in Past
    PROVE  status'[j] \in Past /\ (status'[j] = "SUCCEEDED" => status[j] = "SUCCEEDED")
BY StatusMoves DEF Moves, Past, Decided

LEMMA BaselinesKept ==
    ASSUME TypeOK, InHand, Leased, Known, Baselines, [Next]_vars
    PROVE  Baselines'
<1>1. ASSUME NEW p \in Jobs, status[p] \in Past PROVE status'[p] \in Past
    BY <1>1, PastStays
<1>2. \A p \in Succeeded : p \in Jobs /\ status[p] \in Past
    BY DEF Succeeded, Past, Decided
<1>3. ASSUME NEW c \in Clients, sub'[c].parent # None PROVE status'[sub'[c].parent] \in Past
    <2>1. sub[c].parent \in Jobs \cup {None}
        BY DEF TypeOK, Submissions
    <2>2. sub'[c].parent = sub[c].parent \/ sub'[c].parent \in Succeeded
        BY <1>3, ClientMoves DEF ClientMove
    <2> QED BY <1>1, <1>2, <1>3, <2>1, <2>2 DEF Baselines
<1>4. ASSUME NEW w \in Workers, base'[w] # None PROVE status'[base'[w]] \in Past
    <2>1. base[w] \in Jobs \cup {None}
        BY DEF TypeOK
    <2>2. base'[w] = base[w] \/ base'[w] \in Succeeded
        BY <1>4, WorkerMoves DEF WorkerMove
    <2> QED BY <1>1, <1>2, <1>4, <2>1, <2>2 DEF Baselines
<1>5. ASSUME NEW j \in Jobs, parent'[j] # None PROVE status'[parent'[j]] \in Past
    <2>1. \/ parent'[j] = parent[j]
          \/ \E c \in Clients : parent'[j] = sub[c].parent
          \/ \E w \in Workers : parent'[j] = base[w]
        <3>1. CASE \E c \in Clients, i \in Jobs, s \in Submissions, from \in Jobs \cup {None} : Inserts(c, i, s, from)
            BY <1>5, <3>1 DEF Inserts, Insert, TypeOK
        <3>2. CASE UNCHANGED parent
            BY <3>2
        <3>3. CASE \E w \in Workers : \E p \in {base[w], None} : parent' = [parent EXCEPT ![task[w]] = p]
            BY <1>5, <3>3 DEF TypeOK
        <3> QED BY <3>1, <3>2, <3>3, WrittenOnce
    <2>2. parent[j] \in Jobs \cup {None} /\ \A w \in Workers : base[w] \in Jobs \cup {None}
        BY DEF TypeOK
    <2>3. \A c \in Clients : sub[c].parent \in Jobs \cup {None}
        BY DEF TypeOK, Submissions
    <2> QED BY <1>1, <1>5, <2>1, <2>2, <2>3 DEF Baselines
<1> QED BY <1>3, <1>4, <1>5 DEF Baselines

LEMMA DatedKept ==
    ASSUME TypeOK, InHand, Leased, Known, Dated, [Next]_vars
    PROVE  Dated'
<1>0. /\ clock \in Nat /\ clock' \in Nat /\ clock <= clock'
      /\ \A j \in Jobs : created[j] \in Nat
      /\ \A c \in Clients : sub[c].created \in Nat
    BY ClientMoves DEF TypeOK, Submissions
<1>1. CASE \E c \in Clients, j \in Jobs, s \in Submissions, from \in Jobs \cup {None} : Inserts(c, j, s, from)
    <2>1. PICK c \in Clients, j \in Jobs, s \in Submissions, from \in Jobs \cup {None} : Inserts(c, j, s, from)
        BY <1>1
    <2>2. /\ clock' = clock /\ Submitting(c) /\ ~ Submitting(c)'
          /\ \A d \in Clients \ {c} : sub'[d] = sub[d] /\ (Submitting(d)' <=> Submitting(d))
        BY <2>1 DEF Inserts, Submitting, callVars
    <2>3. /\ status[j] = "NEW" /\ created'[j] = sub[c].created
          /\ \A i \in Jobs \ {j} : created'[i] = created[i] /\ status'[i] = status[i]
        BY <2>1 DEF Inserts, Insert, TypeOK
    <2> QED BY <2>2, <2>3 DEF Dated
<1>2. CASE UNCHANGED created /\ \A j \in Jobs : status[j] = "NEW" => status'[j] = "NEW"
    <2>1. \A i \in Jobs : status'[i] # "NEW" => status[i] # "NEW" /\ created'[i] = created[i]
        BY <1>2
    <2>2. ASSUME NEW c \in Clients, sub'[c].created = clock + 1, clock' = clock + 1,
                 \A d \in Clients \ {c} : sub'[d] = sub[d] /\ pc'[d] = pc[d]
          PROVE  Dated'
        BY <1>0, <2>1, <2>2 DEF Dated, Submitting
    <2>3. ASSUME \A c \in Clients : Submitting(c)' => Submitting(c) /\ sub'[c].created = sub[c].created
          PROVE  Dated'
        BY <1>0, <2>1, <2>3 DEF Dated
    <2> QED BY <2>2, <2>3, ClientMoves DEF ClientMove
<1> QED BY <1>1, <1>2, WrittenOnce

LEMMA NoOlderBaseKept ==
    ASSUME TypeOK, InHand, IInv, [Next]_vars
    PROVE  NoOlderBase'
<1> USE DEF IInv
<1> SUFFICES ASSUME NEW w \in Workers, wpc'[w] = "parsing", status'[task'[w]] = "RUNNING",
                    parent'[task'[w]] # None, status'[parent'[task'[w]]] = "SUCCEEDED"
             PROVE  base'[w] # None /\ created'[parent'[task'[w]]] <= created'[base'[w]]
    BY DEF NoOlderBase
<1>1. CASE /\ wpc[w] = "loaded" /\ task'[w] = task[w]
           /\ IsLatest(base'[w]) /\ UNCHANGED <<jobVars, taskVars>>
    <2>1. parent'[task[w]] \in Succeeded /\ UNCHANGED <<created, parent, status>>
        BY <1>1 DEF Succeeded, TypeOK, InHand, jobVars, taskVars
    <2>2. base'[w] \in Succeeded /\ \A j \in Succeeded : created[j] <= created[base'[w]]
        BY <1>1, <2>1 DEF IsLatest
    <2>3. base'[w] # None
        BY <2>2, NoneIsNoValue DEF Succeeded
    <2>4. parent'[task'[w]] \in Succeeded
        BY <1>1, <2>1
    <2>5. created[parent'[task'[w]]] <= created[base'[w]]
        BY <2>2, <2>4
    <2> QED BY <2>1, <2>3, <2>5
<1>2. CASE wpc[w] = "parsing" /\ task'[w] = task[w] /\ base'[w] = base[w]
    <2> DEFINE j == task[w]
               p == parent[task[w]]
    <2>1. j \in Jobs /\ status[j] \notin {"NEW", "PENDING"}
        BY <1>2 DEF InHand, Known
    <2>2. status[j] = "RUNNING"
        BY <1>2, <2>1, StatusMoves DEF Moves, Decided
    <2>3. parent'[j] = p
        <3>1. CASE \E c \in Clients, i \in Jobs, s \in Submissions, from \in Jobs \cup {None} : Inserts(c, i, s, from)
            BY <2>1, <3>1 DEF Inserts, Insert, TypeOK
        <3>2. CASE UNCHANGED parent
            BY <3>2
        <3>3. CASE \E v \in Workers :
                      /\ status'[task[v]] = "SUCCEEDED"
                      /\ \E q \in {base[v], None} : parent' = [parent EXCEPT ![task[v]] = q]
            BY <1>2, <2>1, <3>3 DEF TypeOK
        <3> QED BY <3>1, <3>2, <3>3, WrittenOnce
    <2>4. p \in Jobs /\ status[p] = "SUCCEEDED"
        BY <1>2, <2>1, <2>3, PastStays DEF Baselines, TypeOK
    <2>5. base[w] # None /\ created[p] <= created[base[w]]
        BY <1>2, <2>2, <2>4, NoneIsNoValue DEF NoOlderBase
    <2>6. base[w] \in Jobs /\ status[base[w]] \in Past
        BY <2>5 DEF TypeOK, Baselines
    <2>7. \A i \in Jobs : status[i] # "NEW" => created'[i] = created[i]
        <3>1. CASE \E c \in Clients, n \in Jobs, s \in Submissions, from \in Jobs \cup {None} : Inserts(c, n, s, from)
            <4>1. PICK c \in Clients, n \in Jobs, s \in Submissions, from \in Jobs \cup {None} : Inserts(c, n, s, from)
                BY <3>1
            <4>2. status[n] = "NEW" /\ created' = [created EXCEPT ![n] = s.created]
                BY <4>1 DEF Inserts, Insert
            <4> QED BY <4>2 DEF TypeOK
        <3>2. CASE UNCHANGED created
            BY <3>2
        <3> QED BY <3>1, <3>2, WrittenOnce
    <2> QED BY <1>2, <2>3, <2>4, <2>5, <2>6, <2>7 DEF Past, Decided
<1> QED BY <1>1, <1>2, WorkerMoves DEF WorkerMove

LEMMA Inductive == Spec => []IInv
<1>1. Init => IInv
    BY DEF Init, IInv, Leased, Known, Baselines, Dated, Submitting, NoOlderBase, NoSubmission
<1>2. TypeOK /\ InHand /\ IInv /\ [Next]_vars => IInv'
    BY LeasedKept, KnownKept, BaselinesKept, DatedKept, NoOlderBaseKept DEF IInv
<1> QED BY <1>1, <1>2, Typing, PTL DEF Spec

(* A snapshot that succeeds with changes was compared with the baseline    *)
(* its submission chose: the base was read later, so it is no older, and   *)
(* the publication admits no newer success than the baseline. No two       *)
(* snapshots have the same date.                                           *)
THEOREM ChangesAreAgainstTheBaseline == Spec => DiffedAgainstBaseline
<1> DEFINE Step ==
        \A j \in Jobs : status[j] = "RUNNING" /\ status'[j] = "SUCCEEDED" =>
          \/ parent'[j] \in {parent[j], None}
          \/ status[parent'[j]] # "SUCCEEDED"
<1>1. TypeOK /\ InHand /\ IInv /\ [Next]_vars => Step
    <2> SUFFICES ASSUME TypeOK, InHand, IInv, [Next]_vars,
                        NEW j \in Jobs, status[j] = "RUNNING", status'[j] = "SUCCEEDED",
                        parent'[j] # None, status[parent'[j]] = "SUCCEEDED"
                 PROVE  parent'[j] = parent[j]
        OBVIOUS
    <2> USE DEF IInv
    <2>1. CASE UNCHANGED parent
        BY <2>1
    <2>2. CASE \E c \in Clients, i \in Jobs, s \in Submissions, from \in Jobs \cup {None} : Inserts(c, i, s, from)
        BY <2>2 DEF Inserts, Insert, TypeOK
    <2>3. ASSUME NEW w \in Workers, wpc[w] = "parsing", status[task[w]] = "RUNNING",
                 task[w] \in Jobs, CompleteTask(w),
                 NEW p \in {base[w], None}, parent' = [parent EXCEPT ![task[w]] = p]
          PROVE  parent'[j] = parent[j]
        <3>1. CASE j # task[w]
            BY <2>3, <3>1 DEF TypeOK
        <3>2. CASE j = task[w]
            <4>1. parent'[j] = base[w] /\ base[w] \in Succeeded
                BY <2>3, <3>2 DEF TypeOK, Succeeded
            <4>2. parent[j] \in Succeeded /\ created[base[w]] <= created[parent[j]]
                BY <2>3, <3>2, <4>1 DEF CompleteTask, Publishable, IsLatest
            <4>3. parent[j] # None /\ status[parent[j]] = "SUCCEEDED"
                BY <4>2, NoneIsNoValue DEF Succeeded
            <4>4. created[parent[j]] <= created[base[w]]
                BY <2>3, <3>2, <4>3 DEF NoOlderBase
            <4>5. created[parent[j]] = created[base[w]]
                BY <4>1, <4>2, <4>4 DEF Succeeded, TypeOK
            <4> QED BY <4>1, <4>2, <4>5 DEF Dated, Succeeded
        <3> QED BY <3>1, <3>2
    <2> QED BY <2>1, <2>2, <2>3, WrittenOnce
<1>2. Spec => [][Step]_vars
    BY <1>1, Typing, Inductive, PTL DEF Spec
<1> QED BY <1>2 DEF DiffedAgainstBaseline

-----------------------------------------------------------------------------
(* The rows of the keys and the events.                                    *)

(* The fields of a row of parser_idempotency.                              *)
LEMMA RowFields ==
    ASSUME TypeOK, NEW k \in Keys, row[k] # None
    PROVE  /\ row[k].job \in Jobs /\ row[k].status \in {"RUNNING", "SUCCEEDED", "FAILED"}
           /\ row[k].retryable \in BOOLEAN
           /\ LET r == [row[k] EXCEPT !.status = "FAILED", !.retryable = FALSE]
              IN  r # None /\ r.job = row[k].job /\ r.status = "FAILED" /\ r.retryable = FALSE
<1>1. row[k] \in Rows
    BY DEF TypeOK
<1>2. [row[k] EXCEPT !.status = "FAILED", !.retryable = FALSE] \in Rows
    BY <1>1 DEF Rows
<1> QED BY <1>1, <1>2, NoneIsNoValue DEF Rows

(* The cancellation of a waiting job fails the rows that name it.          *)
LEMMA CancelledRows ==
    ASSUME TypeOK, NEW j \in Jobs, RequestCancel(j), status[j] = "PENDING"
    PROVE  \A k \in Keys :
              /\ row'[k] # None <=> row[k] # None
              /\ row[k] # None => row'[k].job = row[k].job
              /\ row[k] # None /\ row[k].job = j => row'[k].status = "FAILED" /\ row'[k].retryable = FALSE
              /\ row[k] # None /\ row[k].job # j => row'[k] = row[k]
<1> TAKE k \in Keys
<1>1. row'[k] = IF row[k] # None /\ row[k].job = j
                THEN [row[k] EXCEPT !.status = "FAILED", !.retryable = FALSE]
                ELSE row[k]
    BY DEF RequestCancel
<1> QED BY <1>1, RowFields

(* A claim takes an open job and leaves it open.                           *)
LEMMA ClaimingOpens ==
    ASSUME TypeOK, Leased, NEW w \in Workers, ClaimTask(w), NEW i \in Jobs
    PROVE  /\ Open(i)' <=> Open(i)
           /\ \A s \in {"NEW", "SUCCEEDED", "FAILED", "CANCELLED", "GONE"} :
                 status'[i] = s <=> status[i] = s
<1>1. PICK j \in Jobs : Claimable(j) /\ status' = [status EXCEPT ![j] = "RUNNING"]
    BY DEF ClaimTask
<1>2. Open(j)
    BY <1>1 DEF Claimable, Leased, Open
<1> QED BY <1>1, <1>2 DEF TypeOK, Open

(* A job that is neither new nor deleted is decided, by the worker that has *)
(* it or by the late record of a rejection.                                *)
Records(j, verdict, mayRetry) ==
    /\ status[j] \notin {"NEW", "GONE"}
    /\ verdict = "FAILED" \/ (status[j] = "RUNNING" /\ mayRetry = FALSE)
    /\ Finalize(j, verdict, mayRetry)
    /\ UNCHANGED keyOf

(* Every step with an effect on a key, its job, or what is told of it.     *)
LEMMA ToldSteps ==
    ASSUME TypeOK, InHand, Leased, Known, [Next]_vars
    PROVE  \/ \E c \in Clients, j \in Jobs, s \in Submissions, from \in Jobs \cup {None} : Inserts(c, j, s, from)
           \/ \E j \in Jobs, verdict \in Decided, mayRetry \in BOOLEAN : Records(j, verdict, mayRetry)
           \/ \E j \in Jobs : RequestCancel(j) \/ Cleanup(j)
           \/ \E w \in Workers : ClaimTask(w)
           \/ UNCHANGED <<status, retryable, keyOf, row, events>>
<1>1. ASSUME NEW c \in Clients, Acquire(c) \/ RetryFailed(c) \/ InsertRejected(c)
      PROVE  \/ \E j \in Jobs, s \in Submissions, from \in Jobs \cup {None} : Inserts(c, j, s, from)
             \/ UNCHANGED <<status, retryable, keyOf, row, events>>
    BY <1>1, Insertion DEF jobVars, taskVars
<1>2. ASSUME NEW w \in Workers, CompleteTask(w) \/ RecordFailure(w)
      PROVE  \/ \E j \in Jobs, verdict \in Decided, mayRetry \in BOOLEAN : Records(j, verdict, mayRetry)
             \/ UNCHANGED <<status, retryable, keyOf, row, events>>
    <2>1. CASE ~ Owned(w)
        BY <1>2, <2>1 DEF CompleteTask, RecordFailure, jobVars, taskVars
    <2>2. CASE Owned(w)
        <3>1. task[w] \in Jobs /\ status[task[w]] = "RUNNING"
            BY <1>2, <2>2, OwnedIsRunning DEF CompleteTask, RecordFailure
        <3>2. \E verdict \in Decided, mayRetry \in BOOLEAN :
                 (verdict = "FAILED" \/ mayRetry = FALSE) /\ Finalize(task[w], verdict, mayRetry)
            BY <1>2, <2>2 DEF CompleteTask, RecordFailure, Decided
        <3>3. UNCHANGED keyOf
            BY <1>2 DEF CompleteTask, RecordFailure, taskVars
        <3> QED BY <3>1, <3>2, <3>3 DEF Records
    <2> QED BY <2>1, <2>2
<1>3. ASSUME NEW c \in Clients, RecordRejected(c)
      PROVE  \/ \E j \in Jobs, mayRetry \in BOOLEAN : Records(j, "FAILED", mayRetry)
             \/ UNCHANGED <<status, retryable, keyOf, row, events>>
    <2>1. sub[c].job \in Jobs /\ status[sub[c].job] # "NEW" /\ UNCHANGED keyOf
        BY <1>3 DEF RecordRejected, InHand, Known, taskVars
    <2>2. CASE status[sub[c].job] = "GONE"
        BY <1>3, <2>1, <2>2 DEF RecordRejected, jobVars
    <2>3. CASE status[sub[c].job] # "GONE"
        <3>1. PICK mayRetry \in BOOLEAN : Finalize(sub[c].job, "FAILED", mayRetry)
            BY <1>3, <2>3 DEF RecordRejected
        <3> QED BY <2>1, <2>3, <3>1 DEF Records
    <2> QED BY <2>2, <2>3
<1>4. "FAILED" \in Decided
    BY DEF Decided
<1> QED BY <1>1, <1>2, <1>3, <1>4 DEF Next, ClientStep, Execution, StartSubmit, ReadBaseline, FindBound,
       Return, LoadTask, StartParsing, CompleteRefused, StopUnrecorded, Heartbeat, StopExecution,
       Crash, ExpireLease, vars, jobVars, taskVars

LEMMA ToldKept ==
    ASSUME TypeOK, InHand, Leased, Known, ToldInv, [Next]_vars
    PROVE  ToldInv'
<1> USE DEF ToldInv
<1>0. \A k \in Keys : row[k] # None => row[k].job \in Jobs
    BY RowFields
<1>1. ASSUME NEW c \in Clients, NEW j \in Jobs, NEW s \in Submissions, NEW from \in Jobs \cup {None},
             Inserts(c, j, s, from)
      PROVE  ToldInv'
    <2>1. /\ status[j] = "NEW" /\ s.key \in Keys
          /\ status' = [status EXCEPT ![j] = "PENDING"] /\ keyOf' = [keyOf EXCEPT ![j] = s.key]
          /\ UNCHANGED <<retryable, events>>
        BY <1>1 DEF Inserts, Insert
    <2>2. /\ row'[s.key] # None /\ row'[s.key].job = j /\ row'[s.key].status = "RUNNING"
          /\ row'[s.key].retryable = FALSE
          /\ \A k \in Keys \ {s.key} : row'[k] = row[k]
        <3>1. PICK r \in Rows : r = [job |-> j, status |-> "RUNNING", retryable |-> FALSE]
            BY DEF Rows
        <3>2. r # None /\ r.job = j /\ r.status = "RUNNING" /\ r.retryable = FALSE
            BY <3>1, NoneIsNoValue
        <3>3. row' = [row EXCEPT ![s.key] = r]
            BY <1>1, <3>1 DEF Inserts, Insert
        <3> QED BY <2>1, <3>2, <3>3 DEF TypeOK
    <2>3. RetryableFailed' /\ j \notin retryable
        BY <2>1 DEF TypeOK, RetryableFailed
    <2>4. Named'
        BY <2>1, <1>0, <2>2 DEF TypeOK, Named
    <2>5. ASSUME NEW k \in Keys, NEW i \in Jobs, row'[k] # None, row'[k].job = i
          PROVE  RowAgrees(k, i)'
        <3>1. CASE k = s.key
            BY <2>1, <2>2, <2>3, <2>5, <3>1 DEF TypeOK, Open, RowAgrees
        <3>2. CASE k # s.key
            <4>1. row'[k] = row[k] /\ row[k].job \in Jobs \ {j}
                BY <2>1, <2>2, <2>5, <3>2, RowFields DEF Named
            <4> QED BY <2>1, <2>5, <4>1 DEF TypeOK, Open, RowsAgree, RowAgrees
        <3> QED BY <3>1, <3>2
    <2>6. ASSUME NEW i \in Jobs PROVE EventsAgree(i)'
        BY <2>1 DEF TypeOK, EventsAgree
    <2> QED BY <2>3, <2>4, <2>5, <2>6 DEF RowsAgree
<1>2. ASSUME NEW j \in Jobs, NEW verdict \in Decided, NEW mayRetry \in BOOLEAN, Records(j, verdict, mayRetry)
      PROVE  ToldInv'
    <2>1. /\ status[j] \notin {"NEW", "GONE"} /\ (mayRetry => verdict = "FAILED")
          /\ verdict # "FAILED" => status[j] = "RUNNING"
          /\ status' = [status EXCEPT ![j] = verdict] /\ UNCHANGED keyOf
          /\ retryable' = IF mayRetry THEN retryable \cup {j} ELSE retryable \ {j}
          /\ events' = events \cup {<<j, IF verdict = "SUCCEEDED" THEN "completed" ELSE "failed">>}
        BY <1>2 DEF Records, Finalize, Announce
    <2>2. keyOf[j] \in Keys
        BY <2>1 DEF Known
    <2>3. /\ row'[keyOf[j]] # None =>
                /\ row'[keyOf[j]].job = j
                /\ row'[keyOf[j]].status = IF verdict = "SUCCEEDED" THEN "SUCCEEDED" ELSE "FAILED"
                /\ row'[keyOf[j]].retryable = mayRetry
          /\ \A k \in Keys \ {keyOf[j]} : row'[k] = row[k]
        <3>0. PICK v \in {"SUCCEEDED", "FAILED"} : v = IF verdict = "SUCCEEDED" THEN "SUCCEEDED" ELSE "FAILED"
            OBVIOUS
        <3>1. PICK r \in Rows : r = [job |-> j, status |-> v, retryable |-> mayRetry]
            BY DEF Rows
        <3>2. r.job = j /\ r.status = v /\ r.retryable = mayRetry
            BY <3>1
        <3>3. row' = [row EXCEPT ![keyOf[j]] = IF @ = None THEN None ELSE r]
            BY <1>2, <3>0, <3>1 DEF Records, Finalize
        <3> QED BY <2>2, <3>0, <3>2, <3>3 DEF TypeOK
    <2>4. \A k \in Keys : row[k] # None /\ row[k].job = j => k = keyOf[j]
        BY DEF RowsAgree, RowAgrees
    <2>5. RetryableFailed'
        BY <2>1 DEF TypeOK, RetryableFailed
    <2>6. Named'
        BY <2>1, <2>2, <1>0, <2>3 DEF TypeOK, Named, Decided
    <2>7. ASSUME NEW k \in Keys, NEW i \in Jobs, row'[k] # None, row'[k].job = i
          PROVE  RowAgrees(k, i)'
        <3>1. CASE k = keyOf[j]
            BY <2>1, <2>2, <2>3, <2>7, <3>1 DEF TypeOK, Open, Decided, RowAgrees
        <3>2. CASE k # keyOf[j]
            <4>1. row'[k] = row[k] /\ row[k].job \in Jobs \ {j}
                BY <2>3, <2>4, <2>7, <3>2, RowFields
            <4> QED BY <2>1, <2>7, <4>1 DEF TypeOK, Open, RowsAgree, RowAgrees
        <3> QED BY <3>1, <3>2
    <2>8. ASSUME NEW i \in Jobs PROVE EventsAgree(i)'
        <3>1. ASSUME i # j
              PROVE  /\ status'[i] = status[i]
                     /\ <<i, "completed">> \in events' <=> <<i, "completed">> \in events
                     /\ <<i, "failed">> \in events' <=> <<i, "failed">> \in events
            BY <2>1, <3>1 DEF TypeOK
        <3>2. CASE verdict = "SUCCEEDED"
            <4>1. <<j, "failed">> \notin events
                BY <2>1, <3>2 DEF EventsAgree
            <4>2. status'[j] = "SUCCEEDED" /\ <<j, "completed">> \in events' /\ <<j, "failed">> \notin events'
                BY <2>1, <3>2, <4>1 DEF TypeOK
            <4> QED BY <3>1, <4>2 DEF EventsAgree
        <3>3. CASE verdict # "SUCCEEDED"
            <4>1. status'[j] \in {"FAILED", "CANCELLED"} /\ <<j, "failed">> \in events'
                BY <2>1, <3>3 DEF TypeOK, Decided
            <4> QED BY <3>1, <4>1 DEF EventsAgree
        <3> QED BY <3>2, <3>3
    <2> QED BY <2>5, <2>6, <2>7, <2>8 DEF RowsAgree
<1>3. ASSUME NEW j \in Jobs, RequestCancel(j) PROVE ToldInv'
    <2>1. UNCHANGED <<retryable, keyOf, events>> /\ Open(j)
        BY <1>3 DEF RequestCancel, taskVars
    <2>2. CASE UNCHANGED <<status, row>>
        BY <2>1, <2>2 DEF RetryableFailed, Named, RowsAgree, RowAgrees, EventsAgree, Open
    <2>3. CASE status[j] = "PENDING"
        <3>1. status' = [status EXCEPT ![j] = "CANCELLED"] /\ j \notin retryable
            BY <1>3, <2>3 DEF RequestCancel, RetryableFailed
        <3>2. \A k \in Keys :
                 /\ row'[k] # None <=> row[k] # None
                 /\ row[k] # None => row'[k].job = row[k].job
                 /\ row[k] # None /\ row[k].job = j => row'[k].status = "FAILED" /\ row'[k].retryable = FALSE
                 /\ row[k] # None /\ row[k].job # j => row'[k] = row[k]
            BY <1>3, <2>3, CancelledRows
        <3>3. RetryableFailed'
            BY <2>1, <2>3, <3>1 DEF TypeOK, RetryableFailed
        <3>4. Named'
            BY <3>1, <1>0, <3>2 DEF TypeOK, Named
        <3>5. ASSUME NEW k \in Keys, NEW i \in Jobs, row'[k] # None, row'[k].job = i
              PROVE  RowAgrees(k, i)'
            <4>1. row[k] # None /\ row[k].job = i /\ RowAgrees(k, i)
                BY <3>2, <3>5 DEF RowsAgree
            <4>2. CASE i = j
                <5>1. row'[k].status = "FAILED" /\ row'[k].retryable = FALSE
                    BY <3>2, <4>1, <4>2
                <5>2. status'[i] = "CANCELLED" /\ i \notin retryable' /\ keyOf'[i] = k
                    BY <2>1, <3>1, <4>1, <4>2 DEF TypeOK, RowAgrees
                <5> QED BY <5>1, <5>2 DEF Open, RowAgrees
            <4>3. CASE i # j
                <5>1. row'[k] = row[k]
                    BY <3>2, <4>1, <4>3
                <5>2. status'[i] = status[i] /\ UNCHANGED <<keyOf, retryable>>
                    BY <2>1, <3>1, <4>3 DEF TypeOK
                <5> QED BY <4>1, <5>1, <5>2 DEF Open, RowAgrees
            <4> QED BY <4>2, <4>3
        <3>6. ASSUME NEW i \in Jobs PROVE EventsAgree(i)'
            BY <2>1, <2>3, <3>1 DEF TypeOK, EventsAgree
        <3> QED BY <3>3, <3>4, <3>5, <3>6 DEF RowsAgree
    <2> QED BY <1>3, <2>2, <2>3 DEF RequestCancel
<1>4. ASSUME NEW j \in Jobs, Cleanup(j) PROVE ToldInv'
    <2>1. /\ status[j] \in {"FAILED", "CANCELLED"} /\ status' = [status EXCEPT ![j] = "GONE"]
          /\ UNCHANGED <<retryable, keyOf, events>>
        BY <1>4 DEF Cleanup, taskVars
    <2>2. \A k \in Keys : row'[k] = IF row[k] # None /\ row[k].job = j THEN None ELSE row[k]
        BY <1>4 DEF Cleanup
    <2>3. RetryableFailed'
        BY <2>1 DEF TypeOK, RetryableFailed
    <2>4. Named'
        BY <2>1, <1>0, <2>2 DEF TypeOK, Named
    <2>5. ASSUME NEW k \in Keys, NEW i \in Jobs, row'[k] # None, row'[k].job = i
          PROVE  RowAgrees(k, i)'
        <3>1. row'[k] = row[k] /\ row[k] # None /\ row[k].job = i /\ i # j
            BY <2>2, <2>5
        <3>2. RowAgrees(k, i) /\ status'[i] = status[i]
            BY <2>1, <3>1 DEF TypeOK, RowsAgree
        <3> QED BY <2>1, <3>1, <3>2 DEF Open, RowAgrees
    <2>6. ASSUME NEW i \in Jobs PROVE EventsAgree(i)'
        BY <2>1 DEF TypeOK, EventsAgree
    <2> QED BY <2>3, <2>4, <2>5, <2>6 DEF RowsAgree
<1>5. ASSUME NEW w \in Workers, ClaimTask(w) PROVE ToldInv'
    <2>1. UNCHANGED <<retryable, keyOf, row, events>>
        BY <1>5 DEF ClaimTask, taskVars
    <2>2. ASSUME NEW i \in Jobs
          PROVE  /\ Open(i)' <=> Open(i)
                 /\ \A s \in {"NEW", "SUCCEEDED", "FAILED", "CANCELLED", "GONE"} :
                       status'[i] = s <=> status[i] = s
        BY <1>5, ClaimingOpens
    <2>3. RetryableFailed' /\ Named'
        BY <1>0, <2>1, <2>2 DEF TypeOK, RetryableFailed, Named
    <2>4. ASSUME NEW k \in Keys, NEW i \in Jobs, row'[k] # None, row'[k].job = i
          PROVE  RowAgrees(k, i)'
        <3>1. row'[k] = row[k] /\ row[k] # None /\ row[k].job = i
            BY <2>1, <2>4
        <3>2. RowAgrees(k, i) /\ (Open(i)' <=> Open(i)) /\ (status'[i] = "SUCCEEDED" <=> status[i] = "SUCCEEDED")
            BY <2>2, <3>1 DEF RowsAgree
        <3> QED BY <2>1, <3>1, <3>2 DEF RowAgrees
    <2>5. ASSUME NEW i \in Jobs PROVE EventsAgree(i)'
        BY <2>1, <2>2 DEF EventsAgree
    <2> QED BY <2>3, <2>4, <2>5 DEF RowsAgree
<1>6. ASSUME UNCHANGED <<status, retryable, keyOf, row, events>> PROVE ToldInv'
    BY <1>6 DEF RetryableFailed, Named, RowsAgree, RowAgrees, EventsAgree, Open
<1> QED BY <1>1, <1>2, <1>3, <1>4, <1>5, <1>6, ToldSteps

LEMMA ToldInductive == Spec => []ToldInv
<1>1. Init => ToldInv
    BY DEF Init, ToldInv, RetryableFailed, Named, RowsAgree, EventsAgree
<1>2. TypeOK /\ InHand /\ IInv /\ ToldInv /\ [Next]_vars => ToldInv'
    BY ToldKept DEF IInv
<1> QED BY <1>1, <1>2, Typing, Inductive, PTL DEF Spec

-----------------------------------------------------------------------------
(* The tasks of a key, as long as Git and the baseline lookup answer.      *)

(* A job is accepted for a free key, or for the retryable failure the key  *)
(* is bound to.                                                            *)
Accepts(j, s, from) ==
    /\ s.key \in Keys
    /\ \/ row[s.key] = None /\ from = None
       \/ from \in Jobs /\ status[from] = "FAILED" /\ row[s.key] # None /\ row[s.key].job = from
    /\ Insert(j, s, from)

(* A worker decides the job it has.                                        *)
Decides(j, verdict, mayRetry) ==
    /\ status[j] = "RUNNING"
    /\ mayRetry => verdict = "FAILED"
    /\ Finalize(j, verdict, mayRetry)
    /\ UNCHANGED <<keyOf, origin>>

(* Every step with an effect on a key, its job, or what is told of it.     *)
LEMMA KeySteps ==
    ASSUME TypeOK, InHand, Leased, NoRejection, [Next]_vars
    PROVE  \/ \E j \in Jobs, s \in Submissions, from \in Jobs \cup {None} : Accepts(j, s, from)
           \/ \E j \in Jobs, verdict \in Decided, mayRetry \in BOOLEAN : Decides(j, verdict, mayRetry)
           \/ \E j \in Jobs : RequestCancel(j) \/ Cleanup(j)
           \/ \E w \in Workers : ClaimTask(w)
           \/ UNCHANGED <<status, retryable, keyOf, origin, row, events>>
<1>1. ASSUME NEW c \in Clients, Acquire(c)
      PROVE  \E j \in Jobs, s \in Submissions, from \in Jobs \cup {None} : Accepts(j, s, from)
    <2>1. sub[c] \in Submissions /\ sub[c].key \in Keys /\ row[sub[c].key] = None
        BY <1>1 DEF TypeOK, InHand, Acquire
    <2>2. PICK j \in Jobs : Insert(j, sub[c], None)
        BY <1>1 DEF Acquire
    <2> QED BY <2>1, <2>2 DEF Accepts
<1>2. ASSUME NEW c \in Clients, RetryFailed(c)
      PROVE  \E j \in Jobs, s \in Submissions, from \in Jobs \cup {None} : Accepts(j, s, from)
    <2>1. sub[c] \in Submissions /\ sub[c].key \in Keys /\ sub[c].job \in Jobs
        BY <1>2 DEF TypeOK, InHand, RetryFailed
    <2>2. status[sub[c].job] = "FAILED" /\ row[sub[c].key].job = sub[c].job
        BY <1>2 DEF RetryFailed
    <2>3. [job |-> sub[c].job, status |-> "FAILED", retryable |-> TRUE] \in Rows
        BY <2>1 DEF Rows
    <2>4. row[sub[c].key] # None
        BY <1>2, <2>3, NoneIsNoValue DEF RetryFailed
    <2>5. PICK j \in Jobs : Insert(j, sub[c], sub[c].job)
        BY <1>2 DEF RetryFailed
    <2> QED BY <2>1, <2>2, <2>4, <2>5 DEF Accepts
<1>3. ASSUME NEW w \in Workers, CompleteTask(w) \/ RecordFailure(w)
      PROVE  \/ \E j \in Jobs, verdict \in Decided, mayRetry \in BOOLEAN : Decides(j, verdict, mayRetry)
             \/ UNCHANGED <<status, retryable, keyOf, origin, row, events>>
    <2>1. CASE ~ Owned(w)
        BY <1>3, <2>1 DEF CompleteTask, RecordFailure, jobVars, taskVars
    <2>2. CASE Owned(w)
        <3>1. task[w] \in Jobs /\ status[task[w]] = "RUNNING"
            BY <1>3, <2>2, OwnedIsRunning DEF CompleteTask, RecordFailure
        <3>2. \E verdict \in Decided, mayRetry \in BOOLEAN :
                 (mayRetry => verdict = "FAILED") /\ Finalize(task[w], verdict, mayRetry)
            BY <1>3, <2>2 DEF CompleteTask, RecordFailure, Decided
        <3>3. UNCHANGED <<keyOf, origin>>
            BY <1>3 DEF CompleteTask, RecordFailure, taskVars
        <3> QED BY <3>1, <3>2, <3>3 DEF Decides
    <2> QED BY <2>1, <2>2
<1>4. \A c \in Clients : ~ InsertRejected(c) /\ ~ RecordRejected(c)
    BY DEF NoRejection, InsertRejected, RecordRejected
<1> QED BY <1>1, <1>2, <1>3, <1>4 DEF Next, ClientStep, Execution, StartSubmit, ReadBaseline, FindBound,
       Return, LoadTask, StartParsing, CompleteRefused, StopUnrecorded, Heartbeat, StopExecution,
       Crash, ExpireLease, vars, jobVars, taskVars

LEMMA NoRejectionKept ==
    ASSUME TypeOK, InHand, NoRejection, ~ submissionsFail, [Next]_vars
    PROVE  NoRejection'
<1> USE DEF NoRejection
<1>1. ASSUME NEW c \in Clients, NEW to \in {"idle", "baseline", "acquiring", "retrying"},
             pc' = [pc EXCEPT ![c] = to]
      PROVE  NoRejection'
    BY <1>1 DEF TypeOK
<1>2. ASSUME NEW c \in Clients, StartSubmit(c) PROVE NoRejection'
    <2>1. \E s : Proceed(c, "baseline", s)
        BY <1>2, StartedSubmission
    <2> QED BY <1>1, <2>1 DEF Proceed
<1>3. ASSUME NEW c \in Clients, Acquire(c) \/ RetryFailed(c) \/ Return(c) PROVE NoRejection'
    BY <1>1, <1>3 DEF Acquire, RetryFailed, Return, Answer
<1>4. ASSUME NEW c \in Clients, ReadBaseline(c) \/ FindBound(c) PROVE NoRejection'
    BY <1>1, <1>4 DEF ReadBaseline, FindBound, Answer, Proceed
<1>5. \A c \in Clients : ~ InsertRejected(c) /\ ~ RecordRejected(c)
    BY DEF InsertRejected, RecordRejected
<1> QED BY <1>2, <1>3, <1>4, <1>5 DEF Next, ClientStep, Execution, ClaimTask, LoadTask, StartParsing,
       CompleteTask, CompleteRefused, RecordFailure, StopUnrecorded, Heartbeat, StopExecution, Crash,
       RequestCancel, Cleanup, ExpireLease, vars, clientVars, callVars

LEMMA KeysKept ==
    ASSUME TypeOK, InHand, Leased, Known, ToldInv, KeyInv, ~ submissionsFail, [Next]_vars
    PROVE  KeyInv'
<1> USE DEF KeyInv, ToldInv
<1>0. /\ \A k \in Keys : row[k] # None => row[k].job \in Jobs
      /\ \A i \in Jobs : origin[i] # None => origin[i] \in Jobs
    BY RowFields DEF TypeOK
<1>1. ASSUME NEW j \in Jobs, NEW s \in Submissions, NEW from \in Jobs \cup {None}, Accepts(j, s, from)
      PROVE  Origins' /\ OneTaskPerKey'
    <2>1. /\ status[j] = "NEW" /\ s.key \in Keys
          /\ status' = [status EXCEPT ![j] = "PENDING"] /\ keyOf' = [keyOf EXCEPT ![j] = s.key]
          /\ origin' = [origin EXCEPT ![j] = from]
        BY <1>1 DEF Accepts, Insert
    <2>2. /\ row'[s.key] # None /\ row'[s.key].job = j
          /\ \A k \in Keys \ {s.key} : row'[k] = row[k]
        <3>1. PICK r \in Rows : r = [job |-> j, status |-> "RUNNING", retryable |-> FALSE]
            BY DEF Rows
        <3>2. r # None /\ r.job = j
            BY <3>1, NoneIsNoValue
        <3>3. row' = [row EXCEPT ![s.key] = r]
            BY <1>1, <3>1 DEF Accepts, Insert
        <3> QED BY <2>1, <3>2, <3>3 DEF TypeOK
    <2>3. \/ row[s.key] = None /\ from = None
          \/ from \in Jobs /\ status[from] = "FAILED" /\ row[s.key] # None /\ row[s.key].job = from
        BY <1>1 DEF Accepts
    <2>4. Origins'
        <3>1. ASSUME NEW i \in Jobs \ {j}, origin'[i] # None
              PROVE  /\ status'[origin'[i]] \in {"FAILED", "GONE"}
                     /\ \A k \in Keys : row'[k] # None => row'[k].job # origin'[i]
            <4>1. origin'[i] = origin[i] /\ origin[i] \in Jobs
                BY <2>1, <3>1 DEF TypeOK
            <4>2. status[origin[i]] \in {"FAILED", "GONE"} /\ origin[i] # j
                BY <2>1, <3>1, <4>1 DEF Origins
            <4> QED BY <2>1, <2>2, <3>1, <4>1, <4>2 DEF TypeOK, Origins
        <3>2. ASSUME from # None
              PROVE  /\ status'[from] \in {"FAILED", "GONE"}
                     /\ \A k \in Keys : row'[k] # None => row'[k].job # from
            <4>1. from \in Jobs /\ status[from] = "FAILED" /\ row[s.key] # None /\ row[s.key].job = from
                BY <2>3, <3>2
            <4>2. keyOf[from] = s.key /\ \A k \in Keys : row[k] # None /\ row[k].job = from => k = s.key
                BY <2>1, <4>1 DEF RowsAgree, RowAgrees
            <4> QED BY <2>1, <2>2, <4>1, <4>2 DEF TypeOK
        <3>3. origin'[j] = from
            BY <2>1 DEF TypeOK
        <3> QED BY <3>1, <3>2, <3>3 DEF Origins
    <2>5. ASSUME NEW i \in Jobs, Open(i)' PROVE row'[keyOf'[i]] # None /\ row'[keyOf'[i]].job = i
        <3>1. CASE i = j
            BY <2>1, <2>2, <3>1 DEF TypeOK
        <3>2. CASE i # j
            <4>1. Open(i) /\ keyOf'[i] = keyOf[i] /\ status[i] # "NEW"
                BY <2>1, <2>5, <3>2 DEF TypeOK, Open
            <4>2. keyOf[i] \in Keys /\ row[keyOf[i]] # None /\ row[keyOf[i]].job = i
                BY <4>1 DEF Known, OneTaskPerKey
            <4>3. keyOf[i] # s.key
                BY <2>3, <4>1, <4>2 DEF Open
            <4> QED BY <2>2, <4>1, <4>2, <4>3
        <3> QED BY <3>1, <3>2
    <2>6. ASSUME NEW i \in Jobs \ {j}, from # None PROVE origin[i] # from
        BY <2>1, <2>3, <2>6 DEF Origins
    <2>7. OneTaskPerKey'
        BY <2>1, <2>5, <2>6 DEF TypeOK, OneTaskPerKey
    <2> QED BY <2>4, <2>7
<1>2. ASSUME UNCHANGED <<keyOf, origin>>,
             \A i \in Jobs : status[i] \in {"FAILED", "GONE"} => status'[i] \in {"FAILED", "GONE"},
             \A k \in Keys : row'[k] # None => row[k] # None /\ row'[k].job = row[k].job,
             \A i \in Jobs : Open(i)' => Open(i) /\ row'[keyOf[i]] # None
      PROVE  Origins' /\ OneTaskPerKey'
    <2>1. Origins'
        BY <1>0, <1>2 DEF Origins
    <2>2. ASSUME NEW i \in Jobs, Open(i)' PROVE row'[keyOf'[i]] # None /\ row'[keyOf'[i]].job = i
        <3>1. Open(i) /\ status[i] # "NEW" /\ row'[keyOf[i]] # None
            BY <1>2, <2>2 DEF Open
        <3>2. keyOf[i] \in Keys /\ row[keyOf[i]].job = i
            BY <3>1 DEF Known, OneTaskPerKey
        <3> QED BY <1>2, <3>1, <3>2
    <2> QED BY <1>2, <2>1, <2>2 DEF OneTaskPerKey
<1>3. \A i \in Jobs : Open(i) => keyOf[i] \in Keys /\ row[keyOf[i]] # None /\ row[keyOf[i]].job = i
    BY DEF Known, OneTaskPerKey, Open
<1>4. ASSUME NEW j \in Jobs, NEW verdict \in Decided, NEW mayRetry \in BOOLEAN, Decides(j, verdict, mayRetry)
      PROVE  Origins' /\ OneTaskPerKey'
    <2>1. /\ status[j] = "RUNNING" /\ status' = [status EXCEPT ![j] = verdict] /\ UNCHANGED <<keyOf, origin>>
        BY <1>4 DEF Decides, Finalize
    <2>2. row[keyOf[j]] # None /\ row[keyOf[j]].job = j /\ keyOf[j] \in Keys
        BY <1>3, <2>1 DEF Open
    <2>3. \A k \in Keys : /\ row'[k] # None <=> row[k] # None
                          /\ row[k] # None => row'[k].job = row[k].job
        <3>0. PICK v \in {"SUCCEEDED", "FAILED"} : v = IF verdict = "SUCCEEDED" THEN "SUCCEEDED" ELSE "FAILED"
            OBVIOUS
        <3>1. PICK r \in Rows : r = [job |-> j, status |-> v, retryable |-> mayRetry]
            BY DEF Rows
        <3>2. r # None /\ r.job = j
            BY <3>1, NoneIsNoValue
        <3>3. row' = [row EXCEPT ![keyOf[j]] = r]
            BY <1>4, <2>2, <3>0, <3>1 DEF Decides, Finalize
        <3> QED BY <2>2, <3>2, <3>3 DEF TypeOK
    <2>4. \A i \in Jobs : status[i] \in {"FAILED", "GONE"} => status'[i] \in {"FAILED", "GONE"}
        BY <2>1 DEF TypeOK
    <2>5. \A i \in Jobs : Open(i)' => Open(i)
        BY <2>1 DEF TypeOK, Open, Decided
    <2> QED BY <1>2, <1>3, <2>1, <2>3, <2>4, <2>5
<1>5. ASSUME NEW j \in Jobs, RequestCancel(j) PROVE Origins' /\ OneTaskPerKey'
    <2>1. UNCHANGED <<keyOf, origin>>
        BY <1>5 DEF RequestCancel, taskVars
    <2>2. CASE UNCHANGED <<status, row>>
        BY <1>2, <1>3, <2>1, <2>2 DEF Open
    <2>3. CASE status[j] = "PENDING"
        <3>1. status' = [status EXCEPT ![j] = "CANCELLED"]
            BY <1>5, <2>3 DEF RequestCancel
        <3>2. \A k \in Keys : /\ row'[k] # None <=> row[k] # None
                              /\ row[k] # None => row'[k].job = row[k].job
            BY <1>5, <2>3, CancelledRows
        <3>3. \A i \in Jobs : /\ status[i] \in {"FAILED", "GONE"} => status'[i] \in {"FAILED", "GONE"}
                              /\ Open(i)' => Open(i)
            BY <2>3, <3>1 DEF TypeOK, Open
        <3> QED BY <1>2, <1>3, <2>1, <3>2, <3>3
    <2> QED BY <1>5, <2>2, <2>3 DEF RequestCancel
<1>6. ASSUME NEW j \in Jobs, Cleanup(j) PROVE Origins' /\ OneTaskPerKey'
    <2>1. /\ status[j] \in {"FAILED", "CANCELLED"} /\ status' = [status EXCEPT ![j] = "GONE"]
          /\ UNCHANGED <<keyOf, origin>>
        BY <1>6 DEF Cleanup, taskVars
    <2>2. \A k \in Keys : row'[k] = IF row[k] # None /\ row[k].job = j THEN None ELSE row[k]
        BY <1>6 DEF Cleanup
    <2>3. \A i \in Jobs : /\ status[i] \in {"FAILED", "GONE"} => status'[i] \in {"FAILED", "GONE"}
                          /\ Open(i)' => Open(i) /\ i # j
        BY <2>1 DEF TypeOK, Open
    <2> QED BY <1>2, <1>3, <2>1, <2>2, <2>3
<1>7. ASSUME NEW w \in Workers, ClaimTask(w) PROVE Origins' /\ OneTaskPerKey'
    <2>1. UNCHANGED <<keyOf, origin, row>>
        BY <1>7 DEF ClaimTask, taskVars
    <2>2. \A i \in Jobs : /\ Open(i)' <=> Open(i)
                          /\ status[i] \in {"FAILED", "GONE"} => status'[i] \in {"FAILED", "GONE"}
        BY <1>7, ClaimingOpens
    <2> QED BY <1>2, <1>3, <2>1, <2>2
<1>8. ASSUME UNCHANGED <<status, keyOf, origin, row>> PROVE Origins' /\ OneTaskPerKey'
    BY <1>2, <1>3, <1>8 DEF Open
<1> QED BY <1>1, <1>4, <1>5, <1>6, <1>7, <1>8, KeySteps, NoRejectionKept

LEMMA KeysInductive == Spec => [](~ submissionsFail => KeyInv)
<1>1. Init => KeyInv
    BY DEF Init, KeyInv, NoRejection, Origins, OneTaskPerKey, Open
<1>2. TypeOK /\ InHand /\ IInv /\ ToldInv /\ (~ submissionsFail => KeyInv) /\ [Next]_vars
         => (~ submissionsFail => KeyInv)'
    <2>1. [Next]_vars => submissionsFail' = submissionsFail
        BY DEF Next, ClientStep, Execution, StartSubmit, ReadBaseline, Acquire, FindBound, RetryFailed,
            InsertRejected, RecordRejected, Return, ClaimTask, LoadTask, StartParsing, CompleteTask,
            CompleteRefused, RecordFailure, StopUnrecorded, Heartbeat, StopExecution, Crash,
            RequestCancel, Cleanup, ExpireLease, vars, clientVars, callVars
    <2> QED BY <2>1, KeysKept DEF IInv
<1> QED BY <1>1, <1>2, Typing, Inductive, ToldInductive, PTL DEF Spec

THEOREM TypeCorrect == Spec => []TypeOK
BY Typing, PTL

(* A request is not executed twice where no submission fails. Otherwise it *)
(* may be: a rejected submission inserts its job before it is refused (run *)
(* tasks_duplicate).                                                       *)
THEOREM NothingRunsTwice == Spec => []OneTaskUnlessRejected
<1>1. (~ submissionsFail => KeyInv) => OneTaskUnlessRejected
    BY DEF KeyInv, OneTaskUnlessRejected
<1> QED BY <1>1, KeysInductive, PTL

(* The row of a key and the events agree with the job they are about,      *)
(* whether submissions fail or not.                                        *)
THEOREM ClientsAreTold == Spec => []OutcomeIsTold
<1>1. TypeOK /\ ToldInv => OutcomeIsTold
    <2> SUFFICES ASSUME TypeOK, ToldInv PROVE OutcomeIsTold
        OBVIOUS
    <2>1. ASSUME NEW k \in Keys, row[k] # None
          PROVE  LET j == row[k].job
                 IN  /\ keyOf[j] = k
                     /\ row[k].status = IF Open(j) THEN "RUNNING"
                                        ELSE IF status[j] = "SUCCEEDED" THEN "SUCCEEDED" ELSE "FAILED"
                     /\ row[k].retryable <=> j \in retryable
        <3>1. row[k].job \in Jobs /\ row[k].retryable \in BOOLEAN /\ RowAgrees(k, row[k].job)
            BY <2>1, RowFields DEF ToldInv, RowsAgree
        <3> QED BY <3>1 DEF RowAgrees, Open
    <2> QED BY <2>1 DEF ToldInv, EventsAgree, OutcomeIsTold
<1> QED BY <1>1, Typing, ToldInductive, PTL

(* A decision is left alone until retention deletes the job, by every step *)
(* but the late record of the job's own rejection.                         *)
THEOREM DecisionsStand == Spec => DecidedStaysDecided
<1> DEFINE Step ==
        \A j \in Jobs : status[j] \in Decided /\ status'[j] # status[j] =>
          \/ status[j] # "SUCCEEDED" /\ status'[j] = "GONE"
          \/ LateRejection(j) /\ status'[j] = "FAILED"
<1>1. TypeOK /\ InHand /\ IInv /\ [Next]_vars => Step
    BY StatusMoves DEF Moves, Decided, IInv
<1>2. Spec => [][Step]_vars
    BY <1>1, Typing, Inductive, PTL DEF Spec
<1> QED BY <1>2 DEF DecidedStaysDecided

=============================================================================
