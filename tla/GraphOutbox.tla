----------------------------- MODULE GraphOutbox ----------------------------
(***************************************************************************)
(* The delivery of graph.published events: rows of graph_outbox_events,    *)
(* written by the activation transaction of GraphControl, are claimed in   *)
(* batches by the dispatchers of the graph-outbox role, published to NATS  *)
(* and marked. A claim is a lease without a fence: it only moves           *)
(* next_attempt_at past the time the batch should take.                    *)
(*                                                                         *)
(* Time is discrete. wait[e] is next_attempt_at relative to now; every     *)
(* call has the deadline its context gets, and time does not pass the      *)
(* deadline of a call that has not returned. Replicas share one clock.     *)
(***************************************************************************)
EXTENDS Integers, Sequences, FiniteSets

CONSTANTS
    Events,          \* rows of graph_outbox_events
    Dispatchers,     \* replicas of the role
    BatchSize, MaxAttempts, PublishTimeout, StoreTimeout,
    BaseBackoff, MaxBackoff,   \* GraphOutboxConfig
    ClaimDurations,            \* what its ClaimDuration may be
    MaxFaults        \* crashes and unanswered store calls in a behaviour

(* GraphOutboxConfig.Validate                                              *)
ASSUME ConfigAssumption ==
    /\ {BatchSize, MaxAttempts, PublishTimeout, StoreTimeout,
        BaseBackoff, MaxBackoff} \subseteq Nat \ {0}
    /\ MaxBackoff >= BaseBackoff
    /\ ClaimDurations \subseteq Nat
    /\ \A t \in ClaimDurations : t > (PublishTimeout + StoreTimeout) * BatchSize
    /\ MaxFaults \in Nat

VARIABLES
    published,   \* events with published_at
    dead,        \* events with dead_lettered_at
    count,       \* delivery_count
    wait,        \* next_attempt_at - now
    delivered,   \* events NATS has accepted at least once
    phase,       \* where each dispatcher stands in DispatchOnce
    timer,       \* time left to the call a dispatcher has made
    batch,       \* records still to be dispatched, with the count as read
    faults,
    claimDuration

rowVars == <<published, dead, count, wait>>
dispatcherVars == <<phase, timer, batch>>
vars == <<rowVars, delivered, dispatcherVars, faults, claimDuration>>

-----------------------------------------------------------------------------

(* graphOutboxBackoff, for the attempt number n.                           *)
Backoff[n \in Nat \ {0}] ==
    IF n = 1 THEN BaseBackoff
    ELSE IF 2 * Backoff[n - 1] > MaxBackoff THEN MaxBackoff ELSE 2 * Backoff[n - 1]

Init ==
    /\ published = {}
    /\ dead = {}
    /\ count = [e \in Events |-> 0]
    /\ wait = [e \in Events |-> 0]
    /\ delivered = {}
    /\ phase = [d \in Dispatchers |-> "idle"]
    /\ timer = [d \in Dispatchers |-> 0]
    /\ batch = [d \in Dispatchers |-> <<>>]
    /\ faults = 0
    /\ claimDuration \in ClaimDurations

-----------------------------------------------------------------------------

Open(e) == e \notin published \cup dead

(* How long ago a dispatcher read the clock for its current store call.    *)
Age(d) == StoreTimeout - timer[d]

Call(d, to, deadline) ==
    /\ phase' = [phase EXCEPT ![d] = to]
    /\ timer' = [timer EXCEPT ![d] = deadline]

Fault ==
    /\ faults < MaxFaults
    /\ faults' = faults + 1

StartClaim(d) ==
    /\ phase[d] = "idle"
    /\ Call(d, "claiming", StoreTimeout)
    /\ UNCHANGED <<rowVars, delivered, batch, faults, claimDuration>>

(* Mutant: a row is claimed whether it is due or not.                      *)
DueWhenever(d) == {e \in Events : Open(e)}

Due(d) == {e \in Events : Open(e) /\ wait[e] <= -Age(d)}

(* FOR UPDATE SKIP LOCKED LIMIT BatchSize, in some order.                  *)
Batches(S) ==
    {b \in UNION {[1..n -> S] : n \in 0..BatchSize} :
        /\ \A i, k \in DOMAIN b : b[i] = b[k] => i = k
        /\ Len(b) = BatchSize \/ \A e \in S : \E i \in DOMAIN b : b[i] = e}

(* ClaimGraphEvents. next_attempt_at becomes the reading plus the claim    *)
(* duration.                                                               *)
Lease(d, claimed) ==
    wait' = [e \in Events |-> IF e \in claimed THEN claimDuration - Age(d) ELSE wait[e]]

ClaimEvents(d) ==
    /\ phase[d] = "claiming"
    /\ \E b \in Batches(Due(d)) :
          /\ Lease(d, {b[i] : i \in DOMAIN b})
          /\ batch' = [batch EXCEPT ![d] =
                 [i \in DOMAIN b |-> [event |-> b[i], count |-> count[b[i]]]]]
          /\ IF b = <<>> THEN Call(d, "idle", 0) ELSE Call(d, "publishing", PublishTimeout)
    /\ UNCHANGED <<published, dead, count, delivered, faults, claimDuration>>

(* The store does not answer: nothing is dispatched, the rows may be       *)
(* leased.                                                                 *)
ClaimUnanswered(d) ==
    /\ phase[d] = "claiming"
    /\ Fault
    /\ \/ \E b \in Batches(Due(d)) : Lease(d, {b[i] : i \in DOMAIN b})
       \/ UNCHANGED wait
    /\ Call(d, "idle", 0)
    /\ UNCHANGED <<published, dead, count, delivered, batch, claimDuration>>

PublishSucceeds(d) ==
    /\ phase[d] = "publishing"
    /\ delivered' = delivered \cup {Head(batch[d]).event}
    /\ Call(d, "published", StoreTimeout)
    /\ UNCHANGED <<rowVars, batch, faults, claimDuration>>

(* An error, or no answer: NATS may have taken the event all the same.     *)
PublishFails(d) ==
    /\ phase[d] = "publishing"
    /\ \/ delivered' = delivered \cup {Head(batch[d]).event}
       \/ UNCHANGED delivered
    /\ Call(d, "failed", StoreTimeout)
    /\ UNCHANGED <<rowVars, batch, faults, claimDuration>>

NextRecord(d) ==
    /\ batch' = [batch EXCEPT ![d] = Tail(@)]
    /\ IF Len(batch[d]) = 1 THEN Call(d, "idle", 0) ELSE Call(d, "publishing", PublishTimeout)

(* MarkGraphEventPublished; a row that is final already is left alone.     *)
SetPublished(e) ==
    published' = IF Open(e) THEN published \cup {e} ELSE published

MarkPublished(d) ==
    /\ phase[d] = "published"
    /\ SetPublished(Head(batch[d]).event)
    /\ NextRecord(d)
    /\ UNCHANGED <<dead, count, wait, delivered, faults, claimDuration>>

(* MarkGraphEventFailed. The attempt number, and with it the backoff and   *)
(* the decision to give up, comes from the count read by the claim.        *)
(* Mutants: the row is rewritten although it is final; it is never given   *)
(* up; it is given up one attempt early.                                   *)
SetFailedAnyway(d) ==
    LET e == Head(batch[d]).event
    IN  /\ count' = [count EXCEPT ![e] = @ + 1]
        /\ wait' = [wait EXCEPT ![e] = BaseBackoff - Age(d)]
        /\ dead' = IF count[e] + 1 >= MaxAttempts THEN dead \cup {e} ELSE dead

SetFailedForever(d) ==
    LET e == Head(batch[d]).event
    IN  /\ Open(e)
        /\ count' = [count EXCEPT ![e] = IF @ < MaxAttempts THEN @ + 1 ELSE @]
        /\ wait' = [wait EXCEPT ![e] = BaseBackoff - Age(d)]
        /\ dead' = dead

SetFailedEarly(d) ==
    LET e == Head(batch[d]).event
    IN  IF ~ Open(e) THEN UNCHANGED <<dead, count, wait>>
        ELSE /\ count' = [count EXCEPT ![e] = @ + 1]
             /\ wait' = [wait EXCEPT ![e] = BaseBackoff - Age(d)]
             /\ dead' = IF Head(batch[d]).count + 2 >= MaxAttempts THEN dead \cup {e} ELSE dead

SetFailed(d) ==
    LET e == Head(batch[d]).event
        attempt == Head(batch[d]).count + 1
        deadLetter == attempt >= MaxAttempts
    IN  IF ~ Open(e) THEN UNCHANGED <<dead, count, wait>>
        ELSE /\ count' = [count EXCEPT ![e] = @ + 1]
             /\ wait' = [wait EXCEPT ![e] = (IF deadLetter THEN 0 ELSE Backoff[attempt]) - Age(d)]
             /\ dead' = IF deadLetter THEN dead \cup {e} ELSE dead

MarkFailed(d) ==
    /\ phase[d] = "failed"
    /\ SetFailed(d)
    /\ NextRecord(d)
    /\ UNCHANGED <<published, delivered, faults, claimDuration>>

(* The mark was not stored (if it was and only the answer is lost, the     *)
(* dispatcher goes on just the same).                                      *)
MarkUnanswered(d) ==
    /\ phase[d] \in {"published", "failed"}
    /\ Fault
    /\ NextRecord(d)
    /\ UNCHANGED <<rowVars, delivered, claimDuration>>

(* The process stops, or its context is cancelled between two records.     *)
Crash(d) ==
    /\ phase[d] # "idle"
    /\ Fault
    /\ Call(d, "idle", 0)
    /\ batch' = [batch EXCEPT ![d] = <<>>]
    /\ UNCHANGED <<rowVars, delivered, claimDuration>>

(* No call outlives its deadline. An idle dispatcher has no deadline.      *)
Tick ==
    /\ \A d \in Dispatchers : phase[d] # "idle" => timer[d] > 0
    /\ timer' = [d \in Dispatchers |-> IF phase[d] = "idle" THEN 0 ELSE timer[d] - 1]
    /\ wait' = [e \in Events |-> IF wait[e] > -StoreTimeout THEN wait[e] - 1 ELSE wait[e]]
    /\ UNCHANGED <<published, dead, count, delivered, phase, batch, faults, claimDuration>>

Dispatch(d) ==
    \/ StartClaim(d) \/ ClaimEvents(d)
    \/ PublishSucceeds(d) \/ PublishFails(d)
    \/ MarkPublished(d) \/ MarkFailed(d)

Next ==
    \/ \E d \in Dispatchers : Dispatch(d) \/ ClaimUnanswered(d) \/ MarkUnanswered(d) \/ Crash(d)
    \/ Tick

Spec == Init /\ [][Next]_vars

(* Run calls DispatchOnce again and again, and its calls have deadlines.   *)
FairSpec ==
    /\ Spec
    /\ WF_vars(Tick)
    /\ \A d \in Dispatchers : WF_vars(Dispatch(d))

-----------------------------------------------------------------------------

(* A row gets one final state and keeps it: a late mark of a dispatcher    *)
(* whose claim ran out changes nothing.                                    *)
FinalIsFinal ==
    [][/\ published \subseteq published' /\ dead \subseteq dead'
       /\ (published' \cap dead') = {}
       /\ \A e \in published \cup dead : count'[e] = count[e]]_vars

(* A claim that covers the claim call as well as the batch.                *)
Covering == claimDuration > StoreTimeout + (PublishTimeout + StoreTimeout) * BatchSize

(* A final row has earned its state: an event is marked published only     *)
(* after NATS accepted it, so consumers hear of every revision that counts *)
(* as announced whatever crashes, and given up only after MaxAttempts      *)
(* recorded failures - if claims exclude each other exactly then -         *)
(* although the decision is taken on the count the claim read earlier.     *)
FinalRowsAreEarned ==
    /\ published \subseteq delivered
    /\ \A e \in Events :
          /\ e \in dead => count[e] >= MaxAttempts
          /\ Covering /\ count[e] >= MaxAttempts => e \in dead

(* With such a claim two dispatchers never work on the same event at the   *)
(* same time.                                                              *)
Working(d) == {batch[d][i].event : i \in DOMAIN batch[d]}
ExclusiveClaim ==
    Covering => \A d1, d2 \in Dispatchers : d1 # d2 => Working(d1) \cap Working(d2) = {}

(* Every event is published or dead-lettered in the end.                   *)
EventsSettle == \A e \in Events : <>(e \in published \cup dead)
=============================================================================
