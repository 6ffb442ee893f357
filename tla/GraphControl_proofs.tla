------------------------ MODULE GraphControl_proofs -------------------------
(***************************************************************************)
(* Theorems about GraphControl, for all sets of jobs, attempts, workers    *)
(* and reconcilers, all lease lengths, lags and clock skews.               *)
(***************************************************************************)
EXTENDS GraphControl, FiniteSetTheorems, TLAPS

(* A worker that is not idle holds an attempt; needed to type own[w] as an *)
(* argument in the steps of the worker.                                    *)
Holding == \A w \in Workers : pc[w] # "idle" =>
    own[w] \in Attempts /\ attStatus[own[w]] # "NEW"

(* A row names a job as soon as it is inserted, and a job names only its   *)
(* own attempts.                                                           *)
Booked ==
    /\ \A a \in Attempts : attStatus[a] # "NEW" => attJob[a] \in Jobs
    /\ \A j \in Jobs : jobRevision[j] # None =>
          attJob[jobRevision[j]] = j /\ attStatus[jobRevision[j]] # "NEW"

(* Sealing precedes activation in execute, and as long as the attempt is   *)
(* RUNNING no reconciler has its candidate on a page.                      *)
SealedInTime == \A w \in Workers :
    pc[w] \in {"sealed", "activating"} /\ Running(own[w]) => candidate[own[w]] = "SEALED"

(* The inductive invariant. PublishedIsSealed alone is not inductive: that *)
(* the attempt about to publish is sealed needs SealedInTime, which needs  *)
(* that reconcilers delete only what no worker can still publish.          *)
IInv ==
    /\ Booked
    /\ FencedOwner
    /\ PublishedOnce
    /\ StalePageIsHarmless
    /\ SealedInTime
    /\ PublishedIsSealed
    /\ PointerIsTheActiveRow

(* A new expiry lies in the range of ttl, whatever the clock that made it. *)
LEMMA ExpiryInRange ==
    ASSUME NEW r \in ClockReadings
    PROVE  Expiry(r) \in Ttls
BY TimeAssumption DEF Expiry, Ttls, ClockReadings

(* Every variable stays in its set: the first fact of every proof below.   *)
LEMMA Typing == Spec => [](TypeOK /\ Holding)
<1>1. Init => TypeOK /\ Holding
    BY TimeAssumption DEF Init, TypeOK, Holding, JobStatuses, AttemptStatuses,
       RevisionStatuses, CandidateStatuses, Ttls
<1>2. TypeOK /\ Holding /\ [Next]_vars => TypeOK' /\ Holding'
    <2> SUFFICES ASSUME TypeOK, Holding, [Next]_vars PROVE TypeOK' /\ Holding'
        OBVIOUS
    <2> USE DEF TypeOK, Holding, JobStatuses, AttemptStatuses, RevisionStatuses,
            CandidateStatuses, BuildStages, FailStages, jobVars, attVars,
            pubVars, workerVars, recVars
    <2>1. ASSUME NEW w \in Workers, Claim(w) PROVE TypeOK' /\ Holding'
        <3> PICK j \in Jobs, a \in Attempts, r \in ClockReadings : Claim(w)!2!(j, a, r)
            BY <2>1 DEF Claim
        <3>1. PICK f \in 1..(Cardinality(Attempts) + 1) :
                 IsNextFence(j, f) /\ fence' = [fence EXCEPT ![a] = f]
            OBVIOUS
        <3>2. fence' \in [Attempts -> Nat]
            BY <3>1
        <3>3. ttl' \in [Attempts -> Ttls]
            BY ExpiryInRange
        <3> QED BY <2>1, <3>2, <3>3 DEF Claim
    <2>2. ASSUME NEW w \in Workers, Heartbeat(w) PROVE TypeOK' /\ Holding'
        BY <2>2, ExpiryInRange DEF Heartbeat, Renewed
    <2>3. ASSUME NEW w \in Workers, HeartbeatRefused(w) PROVE TypeOK' /\ Holding'
        BY <2>3 DEF HeartbeatRefused, Leave, MoveTo
    <2>4. ASSUME NEW w \in Workers, StartCandidate(w) PROVE TypeOK' /\ Holding'
        BY <2>4, ExpiryInRange DEF StartCandidate, RenewBetween, Renewed, MoveTo
    <2>5. ASSUME NEW w \in Workers, StartSeal(w) PROVE TypeOK' /\ Holding'
        BY <2>5, ExpiryInRange DEF StartSeal, RenewBetween, Renewed, MoveTo
    <2>6. ASSUME NEW w \in Workers, StartActivation(w) PROVE TypeOK' /\ Holding'
        BY <2>6, ExpiryInRange DEF StartActivation, RenewBetween, Renewed, MoveTo
    <2>7. ASSUME NEW w \in Workers, CreateCandidate(w) PROVE TypeOK' /\ Holding'
        BY <2>7 DEF CreateCandidate, MoveTo
    <2>8. ASSUME NEW w \in Workers, SealCandidate(w) PROVE TypeOK' /\ Holding'
        BY <2>8 DEF SealCandidate, MoveTo
    <2>9. ASSUME NEW w \in Workers, Activate(w) PROVE TypeOK' /\ Holding'
        <3>1. PICK r \in ClockReadings : Publish(own[w], r)
            BY <2>9 DEF Activate
        <3>2. own[w] \in Attempts
            BY <2>9 DEF Activate
        <3>3. /\ jobStatus' \in [Jobs -> JobStatuses]
              /\ attStatus' \in [Attempts -> AttemptStatuses]
              /\ \A a \in Attempts : attStatus[a] # "NEW" => attStatus'[a] # "NEW"
            BY <3>1, <3>2 DEF Publish
        <3>4. revStatus' \in [Attempts -> RevisionStatuses]
            BY <3>1 DEF Publish
        <3>5. active' \in [Snapshots -> Attempts \cup {None}] /\ outbox' \in SUBSET Attempts
            BY <3>1, <3>2 DEF Publish
        <3>6. /\ pc' \in [Workers -> {"idle"} \cup BuildStages \cup FailStages]
              /\ own' \in [Workers -> Attempts \cup {None}]
              /\ \A v \in Workers : pc'[v] # "idle" => pc[v] # "idle" /\ own'[v] = own[v]
            BY <2>9 DEF Activate, Leave
        <3> QED BY <2>9, <3>3, <3>4, <3>5, <3>6 DEF Activate
    <2>10. ASSUME NEW w \in Workers, ActivateIdle(w) PROVE TypeOK' /\ Holding'
        BY <2>10 DEF ActivateIdle, Leave
    <2>11. ASSUME NEW w \in Workers, BuildFails(w) PROVE TypeOK' /\ Holding'
        BY <2>11 DEF BuildFails, MoveTo
    <2>12. ASSUME NEW w \in Workers, Abandon(w) PROVE TypeOK' /\ Holding'
        BY <2>12 DEF Abandon, Leave
    <2>13. ASSUME NEW w \in Workers, FailAttempt(w) PROVE TypeOK' /\ Holding'
        BY <2>13 DEF FailAttempt, Leave
    <2>14. ASSUME NEW w \in Workers, FailRefused(w) PROVE TypeOK' /\ Holding'
        BY <2>14 DEF FailRefused, Leave
    <2>15. ASSUME NEW c \in Reconcilers, ListExpired(c) PROVE TypeOK' /\ Holding'
        BY <2>15 DEF ListExpired, Pages, ExpiredAttempts
    <2>16. ASSUME NEW c \in Reconcilers, MarkLost(c) PROVE TypeOK' /\ Holding'
        BY <2>16 DEF MarkLost
    <2>17. ASSUME NEW c \in Reconcilers, ListOrphans(c) PROVE TypeOK' /\ Holding'
        BY <2>17 DEF ListOrphans, Pages, UnreferencedCandidates
    <2>18. ASSUME NEW c \in Reconcilers, DeleteOrphan(c) PROVE TypeOK' /\ Holding'
        BY <2>18 DEF DeleteOrphan
    <2>19. ASSUME NEW c \in Reconcilers, FinishPass(c) PROVE TypeOK' /\ Holding'
        BY <2>19 DEF FinishPass, EndPass
    <2>20. ASSUME NEW c \in Reconcilers, AbandonPass(c) PROVE TypeOK' /\ Holding'
        BY <2>20 DEF AbandonPass, EndPass
    <2>21. ASSUME NEW c \in Reconcilers, StoreFails(c) PROVE TypeOK' /\ Holding'
        BY <2>21 DEF StoreFails
    <2>22. ASSUME NEW j \in Jobs, RequestCancel(j) PROVE TypeOK' /\ Holding'
        BY <2>22 DEF RequestCancel
    <2>23. ASSUME Tick PROVE TypeOK' /\ Holding'
        BY <2>23, TimeAssumption DEF Tick, Ttls
    <2>24. ASSUME UNCHANGED vars PROVE TypeOK' /\ Holding'
        BY <2>24 DEF vars
    <2> QED BY <2>1, <2>2, <2>3, <2>4, <2>5, <2>6, <2>7, <2>8, <2>9, <2>10, <2>11, <2>12, <2>13, <2>14, <2>15, <2>16, <2>17, <2>18, <2>19, <2>20, <2>21, <2>22, <2>23, <2>24
        DEF Next, WorkerStep, ReconcilerStep
<1>3. QED BY <1>1, <1>2, PTL DEF Spec

(* Everything about the rows follows from the rows.                        *)
LEMMA RowsUnchanged ==
    ASSUME IInv, UNCHANGED <<jobVars, attVars, pubVars>>
    PROVE  (Booked /\ FencedOwner /\ PublishedOnce /\ PointerIsTheActiveRow)'
BY DEF IInv, Booked, FencedOwner, PublishedOnce, PointerIsTheActiveRow, Running,
       AttemptsOf, jobVars, attVars, pubVars

(* Steps of a worker that touch neither rows nor candidates and do not     *)
(* bring it to the stages after the seal.                                  *)
LEMMA QuietWorkerStep ==
    ASSUME TypeOK, IInv, NEW w \in Workers,
           UNCHANGED <<jobVars, attVars, pubVars, candidate, recVars>>,
           NEW stage, pc' = [pc EXCEPT ![w] = stage],
           \/ stage \notin {"sealed", "activating"}
           \/ stage = "activating" /\ pc[w] = "sealed",
           NEW holder, own' = [own EXCEPT ![w] = holder],
           stage = "activating" => holder = own[w]
    PROVE  IInv'
<1>1. (Booked /\ FencedOwner /\ PublishedOnce /\ PointerIsTheActiveRow)'
    BY RowsUnchanged
<1>2. SealedInTime'
    BY DEF IInv, SealedInTime, TypeOK, Running, attVars
<1>3. StalePageIsHarmless' /\ PublishedIsSealed'
    BY DEF IInv, StalePageIsHarmless, PublishedIsSealed, recVars, jobVars, attVars, pubVars
<1> QED BY <1>1, <1>2, <1>3 DEF IInv

(* Steps that leave rows, candidates and worker stages alone and put only  *)
(* harmless attempts on a page.                                            *)
LEMMA QuietReconcilerStep ==
    ASSUME IInv, UNCHANGED <<jobVars, attVars, pubVars, candidate, workerVars>>,
           StalePageIsHarmless'
    PROVE  IInv'
<1>1. (Booked /\ FencedOwner /\ PublishedOnce /\ PointerIsTheActiveRow)'
    BY RowsUnchanged
<1>2. SealedInTime' /\ PublishedIsSealed'
    BY DEF IInv, SealedInTime, PublishedIsSealed, Running, attVars, pubVars, workerVars
<1> QED BY <1>1, <1>2 DEF IInv

(* A claim retires every RUNNING attempt of its job, since none of them is *)
(* live for the reading that made the job claimable.                       *)
LEMMA ClaimPreserves ==
    ASSUME TypeOK, Holding, IInv, NEW w \in Workers, Claim(w)
    PROVE  IInv'
<1> USE DEF TypeOK
<1>1. PICK j \in Jobs, a \in Attempts, r \in ClockReadings : Claim(w)!2!(j, a, r)
    BY DEF Claim
<1>2. PICK f \in 1..(Cardinality(Attempts) + 1) :
         IsNextFence(j, f) /\ fence' = [fence EXCEPT ![a] = f]
    BY <1>1
<1>3. /\ attStatus[a] = "NEW"
      /\ \A b \in Attempts : b # a /\ attJob[b] = j => attStatus'[b] # "RUNNING"
      /\ attStatus'[a] = "RUNNING" /\ attJob'[a] = j
      /\ jobStatus'[j] = "BUILDING" /\ jobRevision'[j] = a
    BY <1>1 DEF Claimable, LiveAttempts, ExpiredAttempts, Running, ClockReadings, Ttls
<1>4. \A b \in Attempts \ {a} :
         /\ attJob'[b] = attJob[b] /\ fence'[b] = fence[b]
         /\ attStatus'[b] = attStatus[b] \/ (attStatus[b] = "RUNNING" /\ attStatus'[b] = "LOST")
    BY <1>1, <1>2 DEF ExpiredAttempts, Running
<1>5. \A k \in Jobs \ {j} : jobStatus'[k] = jobStatus[k] /\ jobRevision'[k] = jobRevision[k]
    BY <1>1
<1>6. jobStatus[j] \in {"PENDING", "BUILDING"}
    BY <1>1 DEF Claimable
<1>7. UNCHANGED <<revStatus, active, outbox, candidate, recPc, todo>>
    BY DEF Claim, pubVars, recVars
<1>8. Booked'
    BY <1>3, <1>4, <1>5, IdentityAssumption DEF IInv, Booked
<1>9. FencedOwner'
    <2> SUFFICES ASSUME NEW x \in Attempts, Running(x)'
                 PROVE  /\ jobStatus'[attJob'[x]] = "BUILDING"
                        /\ jobRevision'[attJob'[x]] = x
                        /\ \A b \in AttemptsOf(attJob[x])' \ {x} : fence'[b] < fence'[x] /\ ~ Running(b)'
        BY DEF FencedOwner
    <2>1. CASE x = a
        <3>1. \A b \in AttemptsOf(j)' \ {a} : b \in AttemptsOf(j)
            BY <1>3, <1>4 DEF AttemptsOf
        <3>2. fence'[a] = f
            BY <1>2
        <3>3. \A b \in AttemptsOf(j) \ {a} : fence'[b] < f
            BY <1>2, <1>4 DEF IsNextFence, AttemptsOf
        <3> QED BY <2>1, <1>3, <3>1, <3>2, <3>3 DEF Running, AttemptsOf
    <2>2. CASE x # a
        <3>1. Running(x) /\ attJob[x] # j /\ attJob[x] \in Jobs
            BY <2>2, <1>3, <1>4 DEF Running, IInv, Booked
        <3>2. AttemptsOf(attJob[x])' = AttemptsOf(attJob[x])
            BY <2>2, <3>1, <1>3, <1>4 DEF AttemptsOf
        <3>3. \A b \in AttemptsOf(attJob[x]) : b # a
            BY <1>3 DEF AttemptsOf
        <3> QED BY <2>2, <3>1, <3>2, <3>3, <1>4, <1>5 DEF IInv, FencedOwner, Running, AttemptsOf
    <2> QED BY <2>1, <2>2
<1>10. PublishedOnce'
    <2>1. revStatus[a] = "NEW" /\ a \notin outbox
        BY <1>3 DEF IInv, PublishedOnce
    <2>2. \A b \in Attempts : revStatus[b] # "NEW" => b # a /\ attJob[b] # j /\ attJob[b] \in Jobs
        BY <2>1, <1>6 DEF IInv, PublishedOnce, Booked
    <2> QED BY <2>1, <2>2, <1>3, <1>4, <1>5, <1>6, <1>7 DEF IInv, PublishedOnce
<1>11. StalePageIsHarmless'
    BY <1>3, <1>4, <1>5, <1>7 DEF IInv, StalePageIsHarmless
<1>12. SealedInTime'
    <2> SUFFICES ASSUME NEW v \in Workers, pc'[v] \in {"sealed", "activating"}, Running(own[v])'
                 PROVE  candidate'[own'[v]] = "SEALED"
        BY DEF SealedInTime
    <2>1. v # w /\ pc[v] = pc'[v] /\ own'[v] = own[v]
        BY <1>1
    <2>2. own[v] \in Attempts /\ own[v] # a
        BY <2>1, <1>3 DEF Holding
    <2> QED BY <2>1, <2>2, <1>4, <1>7 DEF IInv, SealedInTime, Running
<1>13. PublishedIsSealed'
    BY <1>7 DEF IInv, PublishedIsSealed
<1>14. PointerIsTheActiveRow'
    BY <1>3, <1>4, <1>7 DEF IInv, PointerIsTheActiveRow, PublishedOnce
<1> QED BY <1>8, <1>9, <1>10, <1>11, <1>12, <1>13, <1>14 DEF IInv

(* Publication turns the one RUNNING attempt of a BUILDING job into the    *)
(* one revision of a SUCCEEDED job.                                        *)
LEMMA ActivatePreserves ==
    ASSUME TypeOK, Holding, IInv, NEW w \in Workers, Activate(w)
    PROVE  IInv'
<1> USE DEF TypeOK
<1> DEFINE a == own[w]
           j == attJob[a]
           s == SnapshotOf[j]
<1>1. PICK r \in ClockReadings : Publish(a, r)
    BY DEF Activate
<1>2. /\ a \in Attempts /\ Running(a)
      /\ j \in Jobs /\ jobStatus[j] = "BUILDING" /\ jobRevision[j] = a
      /\ s \in Snapshots
    <2>1. a \in Attempts
        BY DEF Activate, Holding
    <2> QED BY <1>1, <2>1, ScopeAssumption DEF Publish, IInv, Booked, Running
<1>3. /\ attStatus' = [attStatus EXCEPT ![a] = "SUCCEEDED"]
      /\ jobStatus' = [jobStatus EXCEPT ![j] = "SUCCEEDED"]
      /\ active' = [active EXCEPT ![s] = a]
      /\ outbox' = outbox \cup {a}
    BY <1>1 DEF Publish
<1>4. UNCHANGED <<jobRevision, attJob, fence, candidate, recPc, todo>>
    BY DEF Activate, recVars
<1>5. \A v \in Workers : pc'[v] # "idle" => pc'[v] = pc[v] /\ own'[v] = own[v]
    BY DEF Activate, Leave, workerVars
<1>6. revStatus[a] = "NEW" /\ a \notin outbox
    BY <1>2 DEF IInv, PublishedOnce, Running
<1>7. /\ revStatus'[a] = "ACTIVE"
      /\ \A b \in Attempts \ {a} :
            revStatus'[b] = IF b = active[s] /\ revStatus[b] = "ACTIVE"
                            THEN "SUPERSEDED" ELSE revStatus[b]
    BY <1>1, <1>2 DEF Publish
<1>8. \A b \in Attempts \ {a} : revStatus'[b] # "NEW" <=> revStatus[b] # "NEW"
    BY <1>7
<1>9. Booked'
    BY <1>2, <1>3, <1>4, IdentityAssumption DEF IInv, Booked
<1>10. FencedOwner'
    <2> SUFFICES ASSUME NEW x \in Attempts, Running(x)'
                 PROVE  /\ jobStatus'[attJob'[x]] = "BUILDING"
                        /\ jobRevision'[attJob'[x]] = x
                        /\ \A b \in AttemptsOf(attJob[x])' \ {x} : fence'[b] < fence'[x] /\ ~ Running(b)'
        BY DEF FencedOwner
    <2>1. x # a /\ Running(x) /\ attJob[x] \in Jobs
        BY <1>2, <1>3 DEF Running, IInv, Booked
    <2>2. attJob[x] # j
        BY <1>2, <2>1 DEF IInv, FencedOwner
    <2>3. AttemptsOf(attJob[x])' = AttemptsOf(attJob[x])
        BY <1>2, <1>3, <1>4 DEF AttemptsOf, Running
    <2> QED BY <2>1, <2>2, <2>3, <1>3, <1>4 DEF IInv, FencedOwner, Running, AttemptsOf
<1>11. PublishedOnce'
    <2>1. \A b \in Attempts : revStatus[b] # "NEW" => attJob[b] # j /\ attJob[b] \in Jobs
        BY <1>2 DEF IInv, PublishedOnce, Booked
    <2>2. ASSUME NEW b \in Attempts
          PROVE  /\ revStatus'[b] # "NEW" <=> attStatus'[b] = "SUCCEEDED"
                 /\ revStatus'[b] # "NEW" <=> b \in outbox'
                 /\ revStatus'[b] # "NEW" => /\ jobStatus'[attJob'[b]] = "SUCCEEDED"
                                             /\ jobRevision'[attJob'[b]] = b
        <3>1. CASE b = a
            BY <3>1, <1>2, <1>3, <1>4, <1>7
        <3>2. CASE b # a
            BY <3>2, <2>1, <1>3, <1>4, <1>8 DEF IInv, PublishedOnce
        <3> QED BY <3>1, <3>2
    <2>3. ASSUME NEW k \in Jobs, jobStatus'[k] = "SUCCEEDED"
          PROVE  \E b \in Attempts : jobRevision'[k] = b /\ attJob'[b] = k /\ revStatus'[b] # "NEW"
        <3>1. CASE k = j
            BY <3>1, <1>2, <1>4, <1>7
        <3>2. CASE k # j
            BY <3>2, <2>3, <1>2, <1>3, <1>4, <1>8 DEF IInv, PublishedOnce
        <3> QED BY <3>1, <3>2
    <2> QED BY <2>2, <2>3 DEF PublishedOnce
<1>12. StalePageIsHarmless'
    BY <1>2, <1>3, <1>4 DEF IInv, StalePageIsHarmless, Running
<1>13. SealedInTime'
    BY <1>2, <1>3, <1>4, <1>5 DEF IInv, SealedInTime, Running, Holding
<1>14. PublishedIsSealed'
    <2>1. candidate[a] = "SEALED"
        BY <1>2 DEF IInv, SealedInTime, Activate
    <2> QED BY <2>1, <1>4, <1>8 DEF IInv, PublishedIsSealed
<1>15. PointerIsTheActiveRow'
    <2> SUFFICES ASSUME NEW b \in Attempts, NEW z \in Snapshots
                 PROVE  active'[z] = b <=> revStatus'[b] = "ACTIVE" /\ SnapshotOf[attJob'[b]] = z
        BY DEF PointerIsTheActiveRow
    <2>1. CASE b = a
        BY <2>1, <1>2, <1>3, <1>4, <1>6, <1>7 DEF IInv, PointerIsTheActiveRow
    <2>2. CASE b # a
        BY <2>2, <1>2, <1>3, <1>4, <1>7 DEF IInv, PointerIsTheActiveRow
    <2> QED BY <2>1, <2>2
<1> QED BY <1>9, <1>10, <1>11, <1>12, <1>13, <1>14, <1>15 DEF IInv

(* An attempt that ends without publishing, and takes its job along if it  *)
(* fails or is cancelled.                                                  *)
LEMMA EndOfAttempt ==
    ASSUME TypeOK, IInv, NEW a \in Attempts, Running(a),
           NEW status \in {"FAILED", "CANCELLED", "LOST"},
           attStatus' = [attStatus EXCEPT ![a] = status],
           \/ status = "LOST" /\ jobStatus' = jobStatus
           \/ status # "LOST" /\ jobStatus' = [jobStatus EXCEPT ![attJob[a]] = status],
           UNCHANGED <<jobRevision, attJob, fence, pubVars>>
    PROVE  /\ (Booked /\ FencedOwner /\ PublishedOnce /\ PointerIsTheActiveRow)'
           /\ \A j \in Jobs : jobRevision[j] # a => jobStatus'[j] = jobStatus[j]
<1> USE DEF TypeOK, pubVars
<1>1. attJob[a] \in Jobs /\ jobStatus[attJob[a]] = "BUILDING" /\ jobRevision[attJob[a]] = a
    BY DEF IInv, Booked, FencedOwner, Running
<1>2. revStatus[a] = "NEW"
    BY DEF IInv, PublishedOnce, Running
<1>3. Booked'
    BY IdentityAssumption DEF IInv, Booked, Running
<1>4. FencedOwner'
    <2> SUFFICES ASSUME NEW x \in Attempts, Running(x)'
                 PROVE  /\ jobStatus'[attJob'[x]] = "BUILDING"
                        /\ jobRevision'[attJob'[x]] = x
                        /\ \A b \in AttemptsOf(attJob[x])' \ {x} : fence'[b] < fence'[x] /\ ~ Running(b)'
        BY DEF FencedOwner
    <2>1. x # a /\ Running(x) /\ attJob[x] \in Jobs
        BY DEF Running, IInv, Booked
    <2>2. attJob[x] # attJob[a]
        BY <1>1, <2>1 DEF IInv, FencedOwner
    <2>3. AttemptsOf(attJob[x])' = AttemptsOf(attJob[x])
        BY DEF AttemptsOf, Running
    <2> QED BY <2>1, <2>2, <2>3 DEF IInv, FencedOwner, Running, AttemptsOf
<1>5. PublishedOnce'
    <2>1. \A b \in Attempts : revStatus[b] # "NEW" => attJob[b] # attJob[a] /\ attJob[b] \in Jobs
        BY <1>1 DEF IInv, PublishedOnce, Booked
    <2> QED BY <1>1, <1>2, <2>1 DEF IInv, PublishedOnce
<1>6. PointerIsTheActiveRow'
    BY DEF IInv, PointerIsTheActiveRow
<1> QED BY <1>1, <1>3, <1>4, <1>5, <1>6

LEMMA FailAttemptPreserves ==
    ASSUME TypeOK, Holding, IInv, NEW w \in Workers, FailAttempt(w)
    PROVE  IInv'
<1> USE DEF TypeOK
<1> DEFINE a == own[w]
           status == IF pc[w] = "cancelling" THEN "CANCELLED" ELSE "FAILED"
<1>1. a \in Attempts /\ Running(a)
    BY DEF FailAttempt, Holding, FailStages, LiveAttempts
<1>2. /\ attStatus' = [attStatus EXCEPT ![a] = status]
      /\ jobStatus' = [jobStatus EXCEPT ![attJob[a]] = status]
      /\ UNCHANGED <<jobRevision, attJob, fence, pubVars>>
      /\ UNCHANGED <<candidate, recPc, todo>>
    BY DEF FailAttempt, recVars
<1>3. /\ (Booked /\ FencedOwner /\ PublishedOnce /\ PointerIsTheActiveRow)'
      /\ \A j \in Jobs : jobRevision[j] # a => jobStatus'[j] = jobStatus[j]
    BY <1>1, <1>2, EndOfAttempt
<1>4. StalePageIsHarmless'
    BY <1>1, <1>2, <1>3 DEF IInv, StalePageIsHarmless, Running
<1>5. SealedInTime'
    BY <1>1, <1>2 DEF FailAttempt, Leave, IInv, SealedInTime, Running, Holding
<1>6. PublishedIsSealed'
    BY <1>2 DEF IInv, PublishedIsSealed, pubVars
<1> QED BY <1>3, <1>4, <1>5, <1>6 DEF IInv

LEMMA MarkLostPreserves ==
    ASSUME TypeOK, Holding, IInv, NEW c \in Reconcilers, MarkLost(c)
    PROVE  IInv'
<1> USE DEF TypeOK
<1>1. PICK a \in todo[c], r \in ClockReadings :
         /\ todo' = [todo EXCEPT ![c] = @ \ {a}]
         /\ attStatus' = [attStatus EXCEPT ![a] = IF a \in ExpiredAttempts(r) THEN "LOST" ELSE @]
    BY DEF MarkLost
<1>2. a \in Attempts
    OBVIOUS
<1>3. UNCHANGED <<jobStatus, jobRevision, attJob, fence, pubVars, candidate, pc, own, recPc>>
    BY DEF MarkLost, jobVars, workerVars
<1>4. \A b \in Attempts : attStatus'[b] = attStatus[b] \/ (Running(b) /\ attStatus'[b] = "LOST")
    BY <1>1 DEF ExpiredAttempts
<1>5. (Booked /\ FencedOwner /\ PublishedOnce /\ PointerIsTheActiveRow)'
    <2>1. CASE a \in ExpiredAttempts(r)
        BY <2>1, <1>1, <1>2, <1>3, EndOfAttempt DEF ExpiredAttempts
    <2>2. CASE a \notin ExpiredAttempts(r)
        <3>1. attStatus' = attStatus
            BY <2>2, <1>1, <1>2
        <3> QED BY <3>1, <1>3, RowsUnchanged DEF jobVars, attVars
    <2> QED BY <2>1, <2>2
<1>6. StalePageIsHarmless'
    BY <1>1, <1>3, <1>4 DEF IInv, StalePageIsHarmless, Running
<1>7. SealedInTime'
    BY <1>3, <1>4 DEF IInv, SealedInTime, Running, Holding
<1>8. PublishedIsSealed'
    BY <1>3 DEF IInv, PublishedIsSealed, pubVars
<1> QED BY <1>5, <1>6, <1>7, <1>8 DEF IInv

(* Candidates: created, sealed by the holder of an attempt, deleted only   *)
(* from a page of the reconciler.                                          *)
LEMMA CandidateStepsPreserve ==
    ASSUME TypeOK, Holding, IInv,
           \/ \E w \in Workers : CreateCandidate(w) \/ SealCandidate(w)
           \/ \E c \in Reconcilers : DeleteOrphan(c)
    PROVE  IInv'
<1> USE DEF TypeOK
<1>1. UNCHANGED <<jobVars, attVars, pubVars>>
    BY DEF CreateCandidate, SealCandidate, DeleteOrphan
<1>2. (Booked /\ FencedOwner /\ PublishedOnce /\ PointerIsTheActiveRow)'
    BY <1>1, RowsUnchanged
<1>3. ASSUME NEW w \in Workers, CreateCandidate(w) \/ SealCandidate(w)
      PROVE  IInv'
    <2>1. own[w] \in Attempts
        BY <1>3 DEF Holding, CreateCandidate, SealCandidate
    <2>2. \A b \in Attempts : candidate[b] = "SEALED" => candidate'[b] = "SEALED"
        BY <1>3, <2>1 DEF CreateCandidate, SealCandidate
    <2>3. own' = own /\ recPc' = recPc /\ todo' = todo
        BY <1>3 DEF CreateCandidate, SealCandidate, recVars
    <2>4. \A v \in Workers : pc'[v] \in {"sealed", "activating"} =>
             \/ pc[v] \in {"sealed", "activating"}
             \/ candidate'[own[v]] = "SEALED"
        BY <1>3, <2>1 DEF CreateCandidate, SealCandidate, MoveTo
    <2>5. SealedInTime'
        BY <2>2, <2>3, <2>4, <1>1 DEF IInv, SealedInTime, Running, attVars, Holding
    <2>6. PublishedIsSealed'
        BY <2>2, <1>1 DEF IInv, PublishedIsSealed, pubVars
    <2>7. StalePageIsHarmless'
        BY <2>3, <1>1 DEF IInv, StalePageIsHarmless, jobVars, attVars
    <2> QED BY <1>2, <2>5, <2>6, <2>7 DEF IInv
<1>4. ASSUME NEW c \in Reconcilers, DeleteOrphan(c)
      PROVE  IInv'
    <2>1. PICK a \in todo[c] :
             /\ todo' = [todo EXCEPT ![c] = @ \ {a}]
             /\ candidate' = [candidate EXCEPT ![a] = "ABSENT"] \/ UNCHANGED candidate
        BY <1>4 DEF DeleteOrphan
    <2>2. attStatus[a] \in {"FAILED", "LOST", "CANCELLED"}
        BY <1>4, <2>1 DEF DeleteOrphan, IInv, StalePageIsHarmless
    <2>3. \A b \in Attempts \ {a} : candidate'[b] = candidate[b]
        BY <2>1
    <2>4. UNCHANGED <<pc, own, recPc>>
        BY <1>4 DEF DeleteOrphan, workerVars
    <2>5. SealedInTime'
        BY <2>2, <2>3, <2>4, <1>1 DEF IInv, SealedInTime, Running, attVars, Holding
    <2>6. PublishedIsSealed'
        BY <2>2, <2>3, <1>1 DEF IInv, PublishedIsSealed, PublishedOnce, pubVars
    <2>7. StalePageIsHarmless'
        BY <2>1, <2>4, <1>1 DEF IInv, StalePageIsHarmless, jobVars, attVars
    <2> QED BY <1>2, <2>5, <2>6, <2>7 DEF IInv
<1> QED BY <1>3, <1>4

(* What UnreferencedGraphCandidates returns is harmless when it is read.   *)
LEMMA ListingPreserves ==
    ASSUME TypeOK, IInv, NEW c \in Reconcilers,
           ListExpired(c) \/ ListOrphans(c) \/ FinishPass(c) \/ StoreFails(c) \/ AbandonPass(c)
    PROVE  IInv'
<1> USE DEF TypeOK
<1>1. UNCHANGED <<jobVars, attVars, pubVars, candidate, workerVars>>
    BY DEF ListExpired, ListOrphans, FinishPass, StoreFails, AbandonPass, EndPass
<1>2. \A d \in Reconcilers \ {c} : recPc'[d] = recPc[d] /\ todo'[d] = todo[d]
    BY DEF ListExpired, ListOrphans, FinishPass, StoreFails, AbandonPass, EndPass
<1>3. recPc'[c] = "cleaning" => \/ todo'[c] = {}
                                \/ \E r \in ClockReadings : todo'[c] \subseteq UnreferencedCandidates(r)
    BY DEF ListExpired, ListOrphans, FinishPass, StoreFails, AbandonPass, EndPass, Pages
<1>4. StalePageIsHarmless'
    BY <1>1, <1>2, <1>3 DEF IInv, StalePageIsHarmless, UnreferencedCandidates,
       jobVars, attVars, JobStatuses
<1> QED BY <1>1, <1>4, QuietReconcilerStep

(* Init establishes the invariant and every step preserves it.             *)
LEMMA Inductive == Spec => []IInv
<1>1. Init => IInv
    BY IdentityAssumption DEF Init, IInv, Booked, FencedOwner, PublishedOnce,
       StalePageIsHarmless, SealedInTime, PublishedIsSealed, PointerIsTheActiveRow, Running
<1>2. TypeOK /\ Holding /\ IInv /\ [Next]_vars => IInv'
    <2> SUFFICES ASSUME TypeOK, Holding, IInv, [Next]_vars PROVE IInv'
        OBVIOUS
    <2>1. ASSUME NEW w \in Workers, HeartbeatRefused(w) \/ ActivateIdle(w) \/ FailRefused(w)
                                    \/ Abandon(w) \/ BuildFails(w)
          PROVE  IInv'
        <3>1. UNCHANGED <<jobVars, attVars, pubVars, candidate, recVars>>
            BY <2>1 DEF HeartbeatRefused, ActivateIdle, FailRefused, Abandon, BuildFails
        <3>2. own = [own EXCEPT ![w] = own[w]]
            BY DEF TypeOK
        <3>3. PICK stage \in {"idle", "failing", "cancelling"} : pc' = [pc EXCEPT ![w] = stage]
            BY <2>1 DEF HeartbeatRefused, ActivateIdle, FailRefused, Abandon, BuildFails, Leave, MoveTo
        <3>4. PICK holder : own' = [own EXCEPT ![w] = holder]
            BY <2>1, <3>2 DEF HeartbeatRefused, ActivateIdle, FailRefused, Abandon, BuildFails, Leave
        <3> QED BY <3>1, <3>3, <3>4, QuietWorkerStep
    <2>2. ASSUME NEW w \in Workers, StartCandidate(w) \/ StartSeal(w) \/ StartActivation(w)
          PROVE  IInv'
        <3>1. UNCHANGED <<jobVars, attVars, pubVars, candidate, recVars>>
            BY <2>2 DEF StartCandidate, StartSeal, StartActivation, RenewBetween
        <3>2. own' = [own EXCEPT ![w] = own[w]]
            BY <2>2 DEF StartCandidate, StartSeal, StartActivation, RenewBetween, TypeOK
        <3>3. PICK stage \in {"creating", "sealing", "activating"} :
                 /\ pc' = [pc EXCEPT ![w] = stage]
                 /\ stage = "activating" => pc[w] = "sealed"
            BY <2>2 DEF StartCandidate, StartSeal, StartActivation, RenewBetween, MoveTo
        <3> QED BY <3>1, <3>2, <3>3, QuietWorkerStep
    <2>3. ASSUME \/ \E w \in Workers : Heartbeat(w)
                 \/ \E j \in Jobs : RequestCancel(j)
                 \/ Tick
                 \/ UNCHANGED vars
          PROVE  IInv'
        <3>1. UNCHANGED <<jobVars, attVars, pubVars, candidate, workerVars, recVars>>
            BY <2>3 DEF Heartbeat, RequestCancel, Tick, vars
        <3>2. StalePageIsHarmless'
            BY <3>1 DEF IInv, StalePageIsHarmless, recVars, jobVars, attVars
        <3> QED BY <3>1, <3>2, QuietReconcilerStep
    <2> QED BY <2>1, <2>2, <2>3, ClaimPreserves, ActivatePreserves, FailAttemptPreserves,
            MarkLostPreserves, CandidateStepsPreserve, ListingPreserves
            DEF Next, WorkerStep, ReconcilerStep
<1>3. QED BY <1>1, <1>2, Typing, PTL DEF Spec

-----------------------------------------------------------------------------

(* TypeOK for every value of the constants.                                *)
THEOREM TypeCorrect == Spec => []TypeOK
BY Typing, PTL

(* The graph behind a revision row is complete, for any number of workers  *)
(* and reconcilers, any lag and any skew.                                  *)
THEOREM ReadersSeeSealedGraphs == Spec => []PublishedIsSealed
<1>1. IInv => PublishedIsSealed
    BY DEF IInv
<1> QED BY <1>1, Inductive, PTL

(* One revision, one event, one verdict per published job.                 *)
THEOREM JobsPublishOnce == Spec => []PublishedOnce
<1>1. IInv => PublishedOnce
    BY DEF IInv
<1> QED BY <1>1, Inductive, PTL

(* The fence decides who owns a job, whatever the clocks say.              *)
THEOREM FencingHolds == Spec => []FencedOwner
<1>1. IInv => FencedOwner
    BY DEF IInv
<1> QED BY <1>1, Inductive, PTL

(* A page of orphans can be acted upon however late.                       *)
THEOREM OrphansStayOrphans == Spec => []StalePageIsHarmless
<1>1. IInv => StalePageIsHarmless
    BY DEF IInv
<1> QED BY <1>1, Inductive, PTL

(* The active pointer and the ACTIVE rows agree for any number of versions *)
(* of a snapshot.                                                          *)
THEOREM PointersAgree == Spec => []PointerIsTheActiveRow
<1>1. IInv => PointerIsTheActiveRow
    BY DEF IInv
<1> QED BY <1>1, Inductive, PTL

(* The three ways in which a step changes the status of jobs and attempts: *)
(* a claim, an expiry, and an attempt that decides its job.                *)
RowsClaimed ==
    \E j \in Jobs, a \in Attempts :
        /\ attStatus[a] = "NEW" /\ jobStatus[j] \in {"PENDING", "BUILDING"}
        /\ jobStatus' = [jobStatus EXCEPT ![j] = "BUILDING"]
        /\ \A b \in Attempts \ {a} : attStatus'[b] # attStatus[b] =>
              attStatus[b] = "RUNNING" /\ attStatus'[b] = "LOST"

RowLost ==
    \E a \in Attempts :
        /\ Running(a) /\ jobStatus' = jobStatus
        /\ attStatus' = [attStatus EXCEPT ![a] = "LOST"]

Decides(a, status) ==
    /\ Running(a)
    /\ attStatus' = [attStatus EXCEPT ![a] = status]
    /\ jobStatus' = [jobStatus EXCEPT ![attJob[a]] = status]

RowsDecided ==
    \E a \in Attempts, status \in {"SUCCEEDED", "FAILED", "CANCELLED"} : Decides(a, status)

(* What one step does to the rows of jobs and attempts, in one place for   *)
(* the two action properties.                                              *)
LEMMA RowChanges ==
    ASSUME TypeOK, Holding, IInv, [Next]_vars
    PROVE  \/ UNCHANGED <<jobStatus, attStatus>>
           \/ RowsClaimed
           \/ RowLost
           \/ RowsDecided
<1> USE DEF TypeOK
<1>1. ASSUME NEW w \in Workers, Claim(w)
      PROVE  RowsClaimed
    <2>1. PICK j \in Jobs, a \in Attempts, r \in ClockReadings : Claim(w)!2!(j, a, r)
        BY <1>1 DEF Claim
    <2>2. \A b \in Attempts \ {a} : attStatus'[b] # attStatus[b] =>
             attStatus[b] = "RUNNING" /\ attStatus'[b] = "LOST"
        BY <2>1 DEF ExpiredAttempts, Running
    <2> QED BY <2>1, <2>2 DEF Claimable, RowsClaimed
<1>2. ASSUME NEW w \in Workers, Activate(w) \/ FailAttempt(w)
      PROVE  RowsDecided
    <2>1. own[w] \in Attempts
        BY <1>2 DEF Holding, Activate, FailAttempt, FailStages
    <2>2. CASE Activate(w)
        BY <2>1, <2>2 DEF Activate, Publish, RowsDecided, Decides
    <2>3. CASE FailAttempt(w)
        BY <2>1, <2>3 DEF FailAttempt, LiveAttempts, RowsDecided, Decides
    <2> QED BY <1>2, <2>2, <2>3
<1>3. ASSUME NEW c \in Reconcilers, MarkLost(c)
      PROVE  \/ UNCHANGED <<jobStatus, attStatus>>
             \/ RowLost
    <2>1. PICK a \in todo[c], r \in ClockReadings :
             attStatus' = [attStatus EXCEPT ![a] = IF a \in ExpiredAttempts(r) THEN "LOST" ELSE @]
        BY <1>3 DEF MarkLost
    <2>2. a \in Attempts /\ jobStatus' = jobStatus
        BY <1>3 DEF MarkLost, jobVars
    <2> QED BY <2>1, <2>2 DEF ExpiredAttempts, RowLost
<1>4. ASSUME \/ \E w \in Workers :
                  \/ HeartbeatRefused(w) \/ ActivateIdle(w) \/ FailRefused(w)
                  \/ Abandon(w) \/ BuildFails(w) \/ Heartbeat(w)
                  \/ StartCandidate(w) \/ StartSeal(w) \/ StartActivation(w)
                  \/ CreateCandidate(w) \/ SealCandidate(w)
             \/ \E c \in Reconcilers :
                  \/ ListExpired(c) \/ ListOrphans(c) \/ DeleteOrphan(c)
                  \/ FinishPass(c) \/ StoreFails(c) \/ AbandonPass(c)
             \/ \E j \in Jobs : RequestCancel(j)
             \/ Tick
             \/ UNCHANGED vars
      PROVE  UNCHANGED <<jobStatus, attStatus>>
    BY <1>4 DEF HeartbeatRefused, ActivateIdle, FailRefused, Abandon, BuildFails, Heartbeat,
       StartCandidate, StartSeal, StartActivation, RenewBetween, CreateCandidate,
       SealCandidate, ListExpired, ListOrphans, DeleteOrphan, FinishPass, StoreFails, AbandonPass,
       EndPass, RequestCancel, Tick, vars, jobVars, attVars
<1> QED BY <1>1, <1>2, <1>3, <1>4 DEF Next, WorkerStep, ReconcilerStep

(* Decided jobs and ended attempts stay so, whatever arrives late.         *)
THEOREM TransitionsFollowTheDomain == Spec => DomainTransitions
<1> DEFINE Step ==
        /\ \A j \in Jobs : jobStatus'[j] # jobStatus[j] =>
              CanTransitionJob(jobStatus[j], jobStatus'[j])
        /\ \A a \in Attempts : attStatus[a] # "NEW" /\ attStatus'[a] # attStatus[a] =>
              CanTransitionAttempt(attStatus[a], attStatus'[a])
<1>1. TypeOK /\ Holding /\ IInv /\ [Next]_vars => Step
    <2> SUFFICES ASSUME TypeOK, Holding, IInv, [Next]_vars PROVE Step
        OBVIOUS
    <2>1. CASE RowsClaimed
        BY <2>1 DEF TypeOK, RowsClaimed, CanTransitionJob, CanTransitionAttempt
    <2>2. CASE RowLost
        BY <2>2 DEF TypeOK, RowLost, Running, CanTransitionAttempt
    <2>3. CASE RowsDecided
        <3>1. PICK a \in Attempts, status \in {"SUCCEEDED", "FAILED", "CANCELLED"} : Decides(a, status)
            BY <2>3 DEF RowsDecided
        <3>2. jobStatus[attJob[a]] = "BUILDING"
            BY <3>1 DEF IInv, FencedOwner, Decides
        <3>3. \A j \in Jobs : jobStatus'[j] # jobStatus[j] =>
                 jobStatus[j] = "BUILDING" /\ jobStatus'[j] = status
            BY <3>1, <3>2 DEF TypeOK, Decides
        <3>4. \A b \in Attempts : attStatus'[b] # attStatus[b] =>
                 attStatus[b] = "RUNNING" /\ attStatus'[b] = status
            BY <3>1 DEF TypeOK, Running, Decides
        <3> QED BY <3>3, <3>4 DEF CanTransitionJob, CanTransitionAttempt
    <2> QED BY <2>1, <2>2, <2>3, RowChanges
<1>2. Spec => [][Step]_vars
    BY <1>1, Typing, Inductive, PTL DEF Spec
<1> QED BY <1>2 DEF DomainTransitions

(* A worker that lost its job to another cannot decide it.                 *)
THEOREM LatestAttemptDecides == Spec => DecidedByLatestAttempt
<1> DEFINE Step ==
        \A j \in Jobs : jobStatus[j] = "BUILDING" /\ jobStatus'[j] # "BUILDING" =>
          \E a \in AttemptsOf(j) :
              /\ Running(a)
              /\ attStatus'[a] = jobStatus'[j]
              /\ \A b \in AttemptsOf(j) : fence[b] <= fence[a]
<1>1. TypeOK /\ Holding /\ IInv /\ [Next]_vars => Step
    <2> SUFFICES ASSUME TypeOK, Holding, IInv, [Next]_vars,
                        NEW j \in Jobs, jobStatus[j] = "BUILDING", jobStatus'[j] # "BUILDING"
                 PROVE  \E a \in AttemptsOf(j) :
                            /\ Running(a)
                            /\ attStatus'[a] = jobStatus'[j]
                            /\ \A b \in AttemptsOf(j) : fence[b] <= fence[a]
        OBVIOUS
    <2>1. PICK a \in Attempts, status \in {"SUCCEEDED", "FAILED", "CANCELLED"} : Decides(a, status)
        BY RowChanges DEF TypeOK, RowsClaimed, RowLost, RowsDecided
    <2>2. attJob[a] = j /\ a \in AttemptsOf(j)
        BY <2>1 DEF TypeOK, AttemptsOf, Running, Decides
    <2>3. attStatus'[a] = jobStatus'[j]
        BY <2>1, <2>2 DEF TypeOK, Decides
    <2>4. \A b \in AttemptsOf(j) : fence[b] <= fence[a]
        BY <2>1, <2>2 DEF TypeOK, IInv, FencedOwner, AttemptsOf, Decides
    <2> QED BY <2>1, <2>2, <2>3, <2>4 DEF Decides
<1>2. Spec => [][Step]_vars
    BY <1>1, Typing, Inductive, PTL DEF Spec
<1> QED BY <1>2 DEF DecidedByLatestAttempt

(* With clocks that are never ahead of the database, only a claim makes a  *)
(* lease live: a heartbeat cannot revive one that the database saw expire. *)
LEMMA LeaseChanges ==
    ASSUME MaxSkew = 0, TypeOK, Holding, [Next]_vars
    PROVE  \/ \E w \in Workers : Claim(w)
           \/ \A a \in LiveAttempts(0)' : a \in LiveAttempts(0) /\ attJob'[a] = attJob[a]
<1> USE DEF TypeOK, LiveAttempts, Running
<1>1. ASSUME NEW w \in Workers,
             \/ Heartbeat(w)
             \/ StartCandidate(w) \/ StartSeal(w) \/ StartActivation(w)
      PROVE  \A a \in LiveAttempts(0)' : a \in LiveAttempts(0) /\ attJob'[a] = attJob[a]
    <2>1. PICK r \in ClockReadings :
             LeaseRenewable(own[w], r) /\ ttl' = [ttl EXCEPT ![own[w]] = Expiry(r)]
        BY <1>1 DEF Heartbeat, StartCandidate, StartSeal, StartActivation,
           RenewBetween, Renewed
    <2>2. UNCHANGED attVars
        BY <1>1 DEF Heartbeat, StartCandidate, StartSeal, StartActivation, RenewBetween
    <2> QED BY <2>1, <2>2 DEF LeaseRenewable, attVars
<1>2. CASE Tick
    BY <1>2, TimeAssumption DEF Tick, attVars, Ttls
<1>3. ASSUME \/ \E w \in Workers : \/ Activate(w) \/ FailAttempt(w)
             \/ \E c \in Reconcilers : MarkLost(c)
      PROVE  \A a \in LiveAttempts(0)' : a \in LiveAttempts(0) /\ attJob'[a] = attJob[a]
    <2>1. UNCHANGED <<ttl, attJob>>
        BY <1>3 DEF Activate, FailAttempt, MarkLost
    <2>2. \A a \in Attempts : attStatus'[a] = "RUNNING" => attStatus[a] = "RUNNING"
        BY <1>3 DEF Activate, Publish, FailAttempt, MarkLost
    <2> QED BY <2>1, <2>2
<1>4. ASSUME UNCHANGED <<attVars, ttl>>
      PROVE  \A a \in LiveAttempts(0)' : a \in LiveAttempts(0) /\ attJob'[a] = attJob[a]
    BY <1>4 DEF attVars
<1> QED BY <1>1, <1>2, <1>3, <1>4
        DEF Next, WorkerStep, ReconcilerStep, HeartbeatRefused, ActivateIdle, FailRefused,
        Abandon, BuildFails, CreateCandidate, SealCandidate, ListExpired, ListOrphans,
        DeleteOrphan, FinishPass, StoreFails, AbandonPass, EndPass, RequestCancel, vars

(* A claim adds one live lease, to those its own reading of the clock, at  *)
(* most the time of the database, had counted.                             *)
LEMMA ClaimedLease ==
    ASSUME MaxSkew = 0, TypeOK, NEW w \in Workers, Claim(w)
    PROVE  \E j \in Jobs, a \in Attempts, r \in ClockReadings :
              /\ attStatus[a] = "NEW" /\ Claimable(j, r)
              /\ attJob' = [attJob EXCEPT ![a] = j]
              /\ LiveAttempts(0) \subseteq LiveAttempts(r)
              /\ LiveAttempts(0)' \subseteq LiveAttempts(0) \cup {a}
              /\ {b \in Attempts : attStatus'[b] # "NEW"} = {b \in Attempts : attStatus[b] # "NEW"} \cup {a}
<1>1. PICK j \in Jobs, a \in Attempts, r \in ClockReadings : Claim(w)!2!(j, a, r)
    BY DEF Claim
<1>2. LiveAttempts(0) \subseteq LiveAttempts(r)
    BY TimeAssumption DEF LiveAttempts, ClockReadings, TypeOK, Ttls
<1>3. LiveAttempts(0)' \subseteq LiveAttempts(0) \cup {a}
    BY <1>1 DEF LiveAttempts, Running, TypeOK
<1>4. {b \in Attempts : attStatus'[b] # "NEW"} = {b \in Attempts : attStatus[b] # "NEW"} \cup {a}
    BY <1>1 DEF TypeOK, ExpiredAttempts, Running
<1> QED BY <1>1, <1>2, <1>3, <1>4

(* With clocks that are never ahead of the database, the limit of one      *)
(* build per repository holds for any number of replicas. A reading in the *)
(* past only makes leases look longer to a claim.                          *)
THEOREM OneBuildPerRepository ==
    ASSUME MaxSkew = 0
    PROVE  Spec => []RepositoryExclusive
<1> USE DEF TypeOK
<1>1. Init => RepositoryExclusive
    BY DEF Init, RepositoryExclusive, LiveAttempts, Running
<1>2. TypeOK /\ Holding /\ RepositoryExclusive /\ [Next]_vars => RepositoryExclusive'
    <2> SUFFICES ASSUME TypeOK, Holding, RepositoryExclusive, [Next]_vars
                 PROVE  RepositoryExclusive'
        OBVIOUS
    <2>1. ASSUME \A a \in LiveAttempts(0)' : a \in LiveAttempts(0) /\ attJob'[a] = attJob[a]
          PROVE  RepositoryExclusive'
        BY <2>1 DEF RepositoryExclusive
    <2>2. ASSUME NEW w \in Workers, Claim(w) PROVE RepositoryExclusive'
        <3>1. PICK j \in Jobs, a \in Attempts, r \in ClockReadings :
                 /\ attStatus[a] = "NEW" /\ Claimable(j, r)
                 /\ attJob' = [attJob EXCEPT ![a] = j]
                 /\ LiveAttempts(0) \subseteq LiveAttempts(r)
                 /\ LiveAttempts(0)' \subseteq LiveAttempts(0) \cup {a}
            BY <2>2, ClaimedLease
        <3>2. \A b \in LiveAttempts(0) : RepositoryOf[attJob[b]] # RepositoryOf[j]
            BY <3>1 DEF Claimable, LiveInRepository
        <3>3. \A b \in LiveAttempts(0)' : b # a => b \in LiveAttempts(0) /\ attJob'[b] = attJob[b]
            BY <3>1 DEF LiveAttempts
        <3>4. attJob'[a] = j
            BY <3>1
        <3> QED BY <3>2, <3>3, <3>4 DEF RepositoryExclusive
    <2> QED BY <2>1, <2>2, LeaseChanges
<1> QED BY <1>1, <1>2, Typing, PTL DEF Spec

(* Sizes of finite sets, in the form in which the budgets need them.       *)
LEMMA PartIsSmaller ==
    ASSUME NEW T, NEW S, IsFiniteSet(T), S \subseteq T
    PROVE  /\ IsFiniteSet(S)
           /\ Cardinality(S) \in Nat /\ Cardinality(T) \in Nat
           /\ Cardinality(S) <= Cardinality(T)
<1>1. S \in SUBSET T
    OBVIOUS
<1>2. IsFiniteSet(S) /\ Cardinality(S) <= Cardinality(T)
    BY <1>1, FS_Subset
<1> QED BY <1>2, FS_CardinalityType

LEMMA OneMoreFits ==
    ASSUME NEW T, NEW S, NEW x, NEW U, NEW n \in Nat,
           IsFiniteSet(T), Cardinality(T) < n, S \subseteq T, U \subseteq S \cup {x}
    PROVE  Cardinality(U) <= n
<1>1. IsFiniteSet(S) /\ Cardinality(S) \in Nat /\ Cardinality(S) + 1 <= n
    BY PartIsSmaller
<1>2. IsFiniteSet(S \cup {x}) /\ Cardinality(S \cup {x}) \in Nat
    BY <1>1, FS_AddElement, FS_CardinalityType
<1>3. Cardinality(S \cup {x}) <= Cardinality(S) + 1
    BY <1>1, FS_AddElement
<1>4. Cardinality(U) \in Nat /\ Cardinality(U) <= Cardinality(S \cup {x})
    BY <1>2, PartIsSmaller
<1> QED BY <1>1, <1>2, <1>3, <1>4

(* The global budget and that of every tenant hold under the same clocks,  *)
(* with any number of replicas claiming at once. That the live leases are  *)
(* finitely many is part of the invariant: attempts are inserted one by    *)
(* one.                                                                    *)
THEOREM BudgetsHold ==
    ASSUME MaxSkew = 0
    PROVE  Spec => []WithinBudgets
<1> DEFINE Inserted == {a \in Attempts : attStatus[a] # "NEW"}
           Budgeted == IsFiniteSet(Inserted) /\ WithinBudgets
<1> USE DEF TypeOK
<1>0. ASSUME NEW r \in Int, IsFiniteSet(Inserted)
      PROVE  IsFiniteSet(LiveAttempts(r)) /\ \A t \in Tenants : IsFiniteSet(LiveInTenant(t, r))
    <2>1. LiveAttempts(r) \in SUBSET Inserted
        BY DEF LiveAttempts, Running
    <2>2. \A t \in Tenants : LiveInTenant(t, r) \in SUBSET LiveAttempts(r)
        BY DEF LiveInTenant
    <2>3. IsFiniteSet(LiveAttempts(r))
        BY <1>0, <2>1, FS_Subset
    <2> QED BY <2>2, <2>3, FS_Subset
<1>1. Init => Budgeted
    <2> SUFFICES ASSUME Init PROVE Budgeted
        OBVIOUS
    <2>1. Inserted = {} /\ LiveAttempts(0) = {} /\ \A t \in Tenants : LiveInTenant(t, 0) = {}
        BY DEF Init, LiveAttempts, LiveInTenant, Running
    <2> QED BY <2>1, FS_EmptySet, LimitAssumption DEF WithinBudgets
<1>2. TypeOK /\ Holding /\ IInv /\ Budgeted /\ [Next]_vars => Budgeted'
    <2> SUFFICES ASSUME TypeOK, Holding, IInv, Budgeted, [Next]_vars PROVE Budgeted'
        OBVIOUS
    <2>0. IsFiniteSet(LiveAttempts(0)) /\ \A t \in Tenants : IsFiniteSet(LiveInTenant(t, 0))
        BY <1>0
    <2>1. ASSUME IsFiniteSet(Inserted'),
                 \A a \in LiveAttempts(0)' : a \in LiveAttempts(0) /\ attJob'[a] = attJob[a]
          PROVE  Budgeted'
        <3>1. LiveAttempts(0)' \subseteq LiveAttempts(0)
            BY <2>1
        <3>2. \A t \in Tenants : LiveInTenant(t, 0)' \subseteq LiveInTenant(t, 0)
            BY <2>1 DEF LiveInTenant
        <3>3. /\ Cardinality(LiveAttempts(0)') <= Cardinality(LiveAttempts(0))
              /\ Cardinality(LiveAttempts(0)') \in Nat /\ Cardinality(LiveAttempts(0)) \in Nat
            BY <2>0, <3>1, PartIsSmaller
        <3>4. ASSUME NEW t \in Tenants
              PROVE  /\ Cardinality(LiveInTenant(t, 0)') <= Cardinality(LiveInTenant(t, 0))
                     /\ Cardinality(LiveInTenant(t, 0)') \in Nat
                     /\ Cardinality(LiveInTenant(t, 0)) \in Nat
            BY <2>0, <3>2, PartIsSmaller
        <3> QED BY <2>1, <3>3, <3>4, LimitAssumption DEF WithinBudgets
    <2>2. ASSUME NEW w \in Workers, Claim(w) PROVE Budgeted'
        <3>1. PICK j \in Jobs, a \in Attempts, r \in ClockReadings :
                 /\ attStatus[a] = "NEW" /\ Claimable(j, r)
                 /\ attJob' = [attJob EXCEPT ![a] = j]
                 /\ LiveAttempts(0) \subseteq LiveAttempts(r)
                 /\ LiveAttempts(0)' \subseteq LiveAttempts(0) \cup {a}
                 /\ Inserted' = Inserted \cup {a}
            BY <2>2, ClaimedLease
        <3>2. IsFiniteSet(Inserted')
            <4>1. IsFiniteSet(Inserted \cup {a})
                BY FS_AddElement
            <4> QED BY <3>1, <4>1
        <3>3. r \in Int
            BY TimeAssumption DEF ClockReadings
        <3>4. MaxGlobal \in Nat /\ IsFiniteSet(LiveAttempts(r)) /\ Cardinality(LiveAttempts(r)) < MaxGlobal
            BY <1>0, <3>1, <3>3, LimitAssumption DEF Claimable
        <3>5. Cardinality(LiveAttempts(0)') <= MaxGlobal
            <4> HIDE DEF TypeOK
            <4>1. /\ LiveAttempts(0) \subseteq LiveAttempts(r)
                  /\ LiveAttempts(0)' \subseteq LiveAttempts(0) \cup {a}
                BY <3>1
            <4> QED BY <3>4, <4>1, OneMoreFits
        <3>6. ASSUME NEW t \in Tenants
              PROVE  Cardinality(LiveInTenant(t, 0)') <= MaxTenant
            <4>1. \A b \in LiveAttempts(0)' : b # a => b \in LiveAttempts(0) /\ attJob'[b] = attJob[b]
                BY <3>1 DEF LiveAttempts
            <4>2. attJob'[a] = j
                BY <3>1
            <4>3. CASE t = TenantOf[j]
                <5>1. LiveInTenant(t, 0) \subseteq LiveInTenant(t, r)
                    BY <3>1 DEF LiveInTenant
                <5>2. LiveInTenant(t, 0)' \subseteq LiveInTenant(t, 0) \cup {a}
                    BY <4>1 DEF LiveInTenant
                <5>3. IsFiniteSet(LiveInTenant(t, r)) /\ Cardinality(LiveInTenant(t, r)) < MaxTenant
                    BY <3>1, <3>3, <4>3, <1>0 DEF Claimable
                <5>4. MaxTenant \in Nat
                    BY LimitAssumption
                <5> QED BY <5>1, <5>2, <5>3, <5>4, OneMoreFits
            <4>4. CASE t # TenantOf[j]
                <5>1. LiveInTenant(t, 0)' \subseteq LiveInTenant(t, 0)
                    BY <4>1, <4>2, <4>4 DEF LiveInTenant
                <5>2. IsFiniteSet(LiveInTenant(t, 0))
                    BY <2>0
                <5>3. /\ Cardinality(LiveInTenant(t, 0)') <= Cardinality(LiveInTenant(t, 0))
                      /\ Cardinality(LiveInTenant(t, 0)') \in Nat
                      /\ Cardinality(LiveInTenant(t, 0)) \in Nat
                    BY <5>1, <5>2, PartIsSmaller
                <5> QED BY <5>3, LimitAssumption DEF WithinBudgets
            <4> QED BY <4>3, <4>4
        <3> QED BY <3>2, <3>5, <3>6 DEF WithinBudgets
    <2>3. IsFiniteSet(Inserted')
        <3>1. PICK a : Inserted' \subseteq Inserted \cup {a}
            BY RowChanges DEF RowsClaimed, RowLost, RowsDecided, Decides, Running
        <3>2. IsFiniteSet(Inserted \cup {a})
            BY FS_AddElement
        <3> QED BY <3>1, <3>2, PartIsSmaller
    <2> QED BY <2>1, <2>2, <2>3, LeaseChanges
<1>3. Budgeted => WithinBudgets
    OBVIOUS
<1> QED BY <1>1, <1>2, <1>3, Typing, Inductive, PTL DEF Spec

-----------------------------------------------------------------------------
(***************************************************************************)
(* GraphControl implements GraphPublication: under the mapping at the end  *)
(* of GraphControl its initial states are initial states of the promise    *)
(* and its steps are steps of the promise or stutter.                      *)
(***************************************************************************)

(* The mapped variables do not see rows of undecided jobs, nor candidates  *)
(* that are not sealed.                                                    *)
LEMMA MappedUnchanged ==
    ASSUME TypeOK, TypeOK',
           \A j \in Jobs : \/ jobStatus'[j] = jobStatus[j] /\ jobRevision'[j] = jobRevision[j]
                           \/ {jobStatus[j], jobStatus'[j]} \subseteq {"PENDING", "BUILDING"},
           UNCHANGED pubVars,
           \A a \in Attempts : candidate'[a] = "SEALED" <=> candidate[a] = "SEALED"
    PROVE  UNCHANGED Publication!vars
<1>1. outcome' = outcome /\ published' = published
    BY DEF TypeOK, outcome, published
<1>2. complete' = complete
    BY DEF complete
<1> QED BY <1>1, <1>2 DEF Publication!vars, pubVars

(* Publishing a revision publishes it in the promise.                      *)
LEMMA ActivateRefines ==
    ASSUME TypeOK, Holding, IInv, NEW w \in Workers, Activate(w)
    PROVE  Publication!Next
<1> USE DEF TypeOK
<1> DEFINE a == own[w]
           j == attJob[a]
<1>1. PICK r \in ClockReadings : Publish(a, r)
    BY DEF Activate
<1>2. a \in Attempts /\ Running(a) /\ j \in Jobs
    BY <1>1 DEF Activate, Holding, IInv, Booked, Publish
<1>3. jobStatus[j] = "BUILDING" /\ jobRevision[j] = a /\ jobRevision' = jobRevision
    BY <1>1 DEF Publish, Activate
<1>4. jobStatus' = [jobStatus EXCEPT ![j] = "SUCCEEDED"]
    BY <1>1 DEF Publish
<1>5. outcome[j] = "OPEN" /\ outcome' = [outcome EXCEPT ![j] = "SUCCEEDED"]
    BY <1>2, <1>3, <1>4 DEF outcome
<1>6. published' = [published EXCEPT ![j] = a]
    BY <1>2, <1>3, <1>4 DEF published
<1>7. a \in complete /\ UNCHANGED complete
    BY <1>2 DEF complete, Activate, IInv, SealedInTime
<1>8. a \notin outbox
    BY <1>2 DEF IInv, PublishedOnce, Running
<1>9. active' = [active EXCEPT ![SnapshotOf[j]] = a] /\ outbox' = outbox \cup {a}
    BY <1>1 DEF Publish
<1>10. Publication!Publish(j, a)
    BY <1>5, <1>6, <1>7, <1>8, <1>9 DEF Publication!Publish
<1> QED BY <1>2, <1>10 DEF Publication!Next

(* Giving a job up gives it up in the promise.                             *)
LEMMA FailAttemptRefines ==
    ASSUME TypeOK, Holding, IInv, NEW w \in Workers, FailAttempt(w)
    PROVE  Publication!Next
<1> USE DEF TypeOK
<1> DEFINE a == own[w]
           j == attJob[a]
           status == IF pc[w] = "cancelling" THEN "CANCELLED" ELSE "FAILED"
<1>1. a \in Attempts /\ Running(a) /\ j \in Jobs
    BY DEF FailAttempt, Holding, FailStages, LiveAttempts, IInv, Booked, Running
<1>2. /\ jobStatus[j] = "BUILDING"
      /\ jobStatus' = [jobStatus EXCEPT ![j] = status]
      /\ UNCHANGED <<jobRevision, pubVars, candidate>>
    BY DEF FailAttempt
<1>3. outcome[j] = "OPEN" /\ outcome' = [outcome EXCEPT ![j] = status]
    BY <1>1, <1>2 DEF outcome
<1>4. published' = published
    BY <1>1, <1>2 DEF published
<1>5. Publication!GiveUp(j, status)
    BY <1>2, <1>3, <1>4 DEF Publication!GiveUp, pubVars, complete
<1> QED BY <1>1, <1>5 DEF Publication!Next

(* Sealing completes a revision, deleting an orphan discards one.          *)
LEMMA SealRefines ==
    ASSUME TypeOK, Holding, IInv, NEW w \in Workers, SealCandidate(w)
    PROVE  [Publication!Next]_(Publication!vars)
<1> USE DEF TypeOK
<1> DEFINE a == own[w]
<1>1. a \in Attempts
    BY DEF Holding, SealCandidate
<1>2. UNCHANGED <<outcome, published, active, outbox>>
    BY DEF SealCandidate, outcome, published, jobVars, pubVars
<1>3. complete' = complete \cup {a}
    BY <1>1 DEF SealCandidate, complete
<1>4. CASE a \in complete
    BY <1>2, <1>3, <1>4 DEF Publication!vars
<1>5. CASE a \notin complete
    BY <1>1, <1>2, <1>3, <1>5 DEF Publication!Next, Publication!Complete
<1> QED BY <1>4, <1>5

LEMMA DeleteRefines ==
    ASSUME TypeOK, IInv, NEW c \in Reconcilers, DeleteOrphan(c)
    PROVE  [Publication!Next]_(Publication!vars)
<1> USE DEF TypeOK
<1>1. PICK a \in todo[c] :
         candidate' = [candidate EXCEPT ![a] = "ABSENT"] \/ UNCHANGED candidate
    BY DEF DeleteOrphan
<1>2. UNCHANGED <<outcome, published, active, outbox>>
    BY DEF DeleteOrphan, outcome, published, jobVars, pubVars
<1>3. complete' = complete \ {a} \/ complete' = complete
    BY <1>1 DEF complete
<1>4. \A j \in Jobs : published[j] # a
    BY IdentityAssumption DEF DeleteOrphan, IInv, StalePageIsHarmless, published
<1>5. CASE a \in complete /\ complete' = complete \ {a}
    BY <1>2, <1>4, <1>5 DEF Publication!Next, Publication!Discard
<1>6. CASE complete' = complete
    BY <1>2, <1>6 DEF Publication!vars
<1> QED BY <1>3, <1>5, <1>6

(* Every behaviour of the control plane is a behaviour of the promise.     *)
THEOREM Refinement == Spec => PublicationSpec
<1>1. Init => Publication!Init
    BY DEF Init, Publication!Init, outcome, published, complete
<1>2. TypeOK /\ TypeOK' /\ Holding /\ IInv /\ [Next]_vars => [Publication!Next]_(Publication!vars)
    <2> SUFFICES ASSUME TypeOK, TypeOK', Holding, IInv, [Next]_vars
                 PROVE  [Publication!Next]_(Publication!vars)
        OBVIOUS
    <2>1. ASSUME NEW w \in Workers, Claim(w) PROVE UNCHANGED Publication!vars
        <3>1. PICK j \in Jobs, a \in Attempts, r \in ClockReadings : Claim(w)!2!(j, a, r)
            BY <2>1 DEF Claim
        <3>2. \A k \in Jobs : \/ jobStatus'[k] = jobStatus[k] /\ jobRevision'[k] = jobRevision[k]
                              \/ {jobStatus[k], jobStatus'[k]} \subseteq {"PENDING", "BUILDING"}
            BY <3>1 DEF TypeOK, Claimable
        <3> QED BY <2>1, <3>2, MappedUnchanged DEF Claim
    <2>2. ASSUME NEW w \in Workers, CreateCandidate(w) PROVE UNCHANGED Publication!vars
        <3>1. own[w] \in Attempts
            BY <2>2 DEF Holding, CreateCandidate
        <3>2. \A a \in Attempts : candidate'[a] = "SEALED" <=> candidate[a] = "SEALED"
            BY <2>2, <3>1 DEF CreateCandidate, TypeOK
        <3> QED BY <2>2, <3>2, MappedUnchanged DEF CreateCandidate, jobVars
    <2>3. ASSUME UNCHANGED <<jobVars, pubVars, candidate>> PROVE UNCHANGED Publication!vars
        BY <2>3, MappedUnchanged DEF jobVars
    <2>4. ASSUME \/ \E w \in Workers :
                      \/ HeartbeatRefused(w) \/ ActivateIdle(w) \/ FailRefused(w)
                      \/ Abandon(w) \/ BuildFails(w) \/ Heartbeat(w)
                      \/ StartCandidate(w) \/ StartSeal(w) \/ StartActivation(w)
                 \/ \E c \in Reconcilers :
                      \/ ListExpired(c) \/ ListOrphans(c) \/ MarkLost(c)
                      \/ FinishPass(c) \/ StoreFails(c) \/ AbandonPass(c)
                 \/ \E j \in Jobs : RequestCancel(j)
                 \/ Tick
                 \/ UNCHANGED vars
          PROVE  UNCHANGED <<jobVars, pubVars, candidate>>
        BY <2>4 DEF HeartbeatRefused, ActivateIdle, FailRefused, Abandon, BuildFails, Heartbeat,
           StartCandidate, StartSeal, StartActivation, RenewBetween, MarkLost,
           ListExpired, ListOrphans, FinishPass, StoreFails, AbandonPass, EndPass, RequestCancel, Tick, vars
    <2> QED BY <2>1, <2>2, <2>3, <2>4, ActivateRefines, FailAttemptRefines, SealRefines,
            DeleteRefines DEF Next, WorkerStep, ReconcilerStep
<1>3. QED BY <1>1, <1>2, Typing, Inductive, PTL DEF Spec, PublicationSpec, Publication!Spec
=============================================================================
