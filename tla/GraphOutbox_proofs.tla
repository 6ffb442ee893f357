------------------------- MODULE GraphOutbox_proofs -------------------------
(***************************************************************************)
(* Theorems about GraphOutbox, for all sets of events and dispatchers and  *)
(* every configuration that GraphOutboxConfig.Validate accepts.            *)
(*                                                                         *)
(* Time enters through two bounds only: a call ends by its deadline, and   *)
(* next_attempt_at of a record in a batch lies beyond the time the rest of *)
(* the batch can take. How long the backoff after a failure is does not    *)
(* matter, so nothing is said of Backoff, and wait is typed only where a   *)
(* batch relies on it.                                                     *)
(***************************************************************************)
EXTENDS GraphOutbox, SequenceTheorems, TLAPS

Phases == {"idle", "claiming", "publishing", "published", "failed"}
Records == [event : Events, count : Nat]

(* The deadline of the call a dispatcher has made.                         *)
Deadline(d) ==
    IF phase[d] = "idle" THEN 0
    ELSE IF phase[d] = "publishing" THEN PublishTimeout
    ELSE StoreTimeout

TypeOK ==
    /\ published \in SUBSET Events
    /\ dead \in SUBSET Events
    /\ count \in [Events -> Nat]
    /\ wait = [e \in Events |-> wait[e]]
    /\ delivered \in SUBSET Events
    /\ phase \in [Dispatchers -> Phases]
    /\ timer \in [Dispatchers -> Nat]
    /\ batch \in [Dispatchers -> Seq(Records)]
    /\ faults \in Nat
    /\ claimDuration \in ClaimDurations

(* A dispatcher holds a batch exactly while it dispatches it, every record *)
(* of it once, and never more than it may claim.                           *)
BatchInHand == \A d \in Dispatchers :
    /\ timer[d] <= Deadline(d)
    /\ batch[d] # <<>> <=> phase[d] \in {"publishing", "published", "failed"}
    /\ \A i, k \in DOMAIN batch[d] : batch[d][i].event = batch[d][k].event => i = k
    /\ phase[d] = "published" => batch[d][1].event \in delivered

(* The count a claim read can only be too small: others may have recorded  *)
(* a failure since.                                                        *)
CountsOnlyGrow == \A d \in Dispatchers : \A i \in DOMAIN batch[d] :
    batch[d][i].count <= count[batch[d][i].event]

RowsAreEarned ==
    /\ published \subseteq delivered
    /\ published \cap dead = {}
    /\ \A e \in dead : count[e] >= MaxAttempts

(* The time the batch of d may still take, counted from now: the call it   *)
(* is in, and two calls for each record that follows.                      *)
Slot == PublishTimeout + StoreTimeout
Slots(n) == n * Slot
Remaining(d) ==
    timer[d] + Slots(Len(batch[d]) - 1)
        + IF phase[d] = "publishing" THEN StoreTimeout ELSE 0

(* What a covering claim adds: no record of a batch falls due before the   *)
(* batch must be done, so nobody else claims it or records a failure.      *)
ClaimLasts ==
    /\ \A d \in Dispatchers : \A i \in DOMAIN batch[d] :
          /\ wait[batch[d][i].event] \in Int
          /\ wait[batch[d][i].event] > Remaining(d)
          /\ count[batch[d][i].event] = batch[d][i].count
    /\ \A d1, d2 \in Dispatchers : d1 # d2 => Working(d1) \cap Working(d2) = {}
    /\ \A e \in Events : count[e] >= MaxAttempts => e \in dead

(* The inductive invariant.                                                *)
IInv ==
    /\ BatchInHand
    /\ CountsOnlyGrow
    /\ RowsAreEarned
    /\ Covering => ClaimLasts

-----------------------------------------------------------------------------
(* Operators of the model.                                                 *)

LEMMA Durations ==
    /\ PublishTimeout \in Nat \ {0} /\ StoreTimeout \in Nat \ {0}
    /\ BatchSize \in Nat \ {0} /\ MaxAttempts \in Nat \ {0}
    /\ Slot \in Nat \ {0}
BY ConfigAssumption DEF Slot

(* A batch is taken from its front.                                        *)
LEMMA FrontOfBatch ==
    ASSUME TypeOK, NEW d \in Dispatchers, batch[d] # <<>>
    PROVE  /\ Len(batch[d]) \in Nat \ {0} /\ DOMAIN batch[d] = 1..Len(batch[d])
           /\ Head(batch[d]) = batch[d][1] /\ Head(batch[d]) \in Records
           /\ Head(batch[d]).event \in Events /\ Head(batch[d]).count \in Nat
           /\ Tail(batch[d]) \in Seq(Records) /\ Len(Tail(batch[d])) = Len(batch[d]) - 1
           /\ \A i \in DOMAIN Tail(batch[d]) :
                 i \in Nat \ {0} /\ i + 1 \in DOMAIN batch[d] /\ Tail(batch[d])[i] = batch[d][i + 1]
           /\ Tail(batch[d]) = <<>> <=> Len(batch[d]) = 1
<1>1. batch[d] \in Seq(Records)
    BY DEF TypeOK
<1>2. Len(batch[d]) \in Nat \ {0} /\ DOMAIN batch[d] = 1..Len(batch[d])
    BY <1>1, EmptySeq, LenProperties
<1>3. /\ Head(batch[d]) \in Records
      /\ Tail(batch[d]) \in Seq(Records) /\ Len(Tail(batch[d])) = Len(batch[d]) - 1
      /\ \A i \in 1..Len(Tail(batch[d])) : Tail(batch[d])[i] = batch[d][i + 1]
    BY <1>1, HeadTailProperties
<1>4. DOMAIN Tail(batch[d]) = 1..Len(Tail(batch[d]))
    BY <1>3, LenProperties
<1>5. Head(batch[d]) = batch[d][1]
    BY <1>1
<1>6. Tail(batch[d]) = <<>> <=> Len(Tail(batch[d])) = 0
    BY <1>3, EmptySeq
<1> QED BY <1>2, <1>3, <1>4, <1>5, <1>6 DEF Records

LEMMA RecordsOfBatch ==
    ASSUME TypeOK, NEW d \in Dispatchers
    PROVE  /\ Len(batch[d]) \in Nat /\ DOMAIN batch[d] = 1..Len(batch[d])
           /\ \A i \in DOMAIN batch[d] :
                 /\ batch[d][i] \in Records
                 /\ batch[d][i].event \in Events /\ batch[d][i].count \in Nat
<1>1. batch[d] \in Seq(Records)
    BY DEF TypeOK
<1>2. Len(batch[d]) \in Nat /\ DOMAIN batch[d] = 1..Len(batch[d])
    BY <1>1, LenProperties
<1>3. \A i \in 1..Len(batch[d]) : batch[d][i] \in Records
    BY <1>1, ElementOfSeq
<1> QED BY <1>2, <1>3 DEF Records

(* What ClaimGraphEvents can return: distinct rows, at most BatchSize.     *)
LEMMA ClaimedRows ==
    ASSUME NEW S, NEW b \in Batches(S)
    PROVE  /\ b \in Seq(S) /\ Len(b) \in 0..BatchSize /\ DOMAIN b = 1..Len(b)
           /\ \A i \in DOMAIN b : b[i] \in S
           /\ \A i, k \in DOMAIN b : b[i] = b[k] => i = k
           /\ b = <<>> <=> Len(b) = 0
<1>1. PICK n \in 0..BatchSize : b \in [1..n -> S]
    BY DEF Batches
<1>2. n \in Nat
    BY Durations
<1>3. b \in Seq(S) /\ Len(b) = n /\ DOMAIN b = 1..n
    BY <1>1, <1>2
<1>4. b = <<>> <=> Len(b) = 0
    BY <1>3, EmptySeq
<1> QED BY <1>1, <1>3, <1>4 DEF Batches

(* The rest of a batch takes its number of slots.                          *)
LEMMA SlotsAddUp ==
    /\ \A n \in Nat : Slots(n) \in Nat /\ Slots(n + 1) = Slots(n) + Slot
    /\ \A n \in 0..BatchSize : Slots(n) <= Slots(BatchSize)
    /\ (PublishTimeout + StoreTimeout) * BatchSize = Slots(BatchSize)
<1>1. \A n \in Nat, k \in Nat : n * k \in Nat /\ (n + 1) * k = n * k + k
    OBVIOUS
<1>2. \A m \in Nat : \A n \in 0..m, k \in Nat : n * k <= m * k
    OBVIOUS
<1>3. \A m \in Nat, k \in Nat : m * k = k * m /\ m * k \in Nat
    OBVIOUS
<1> QED BY <1>1, <1>2, <1>3, Durations DEF Slot, Slots

-----------------------------------------------------------------------------
(* Steps of one dispatcher.                                                *)

Dispatching(d) == phase[d] \in {"publishing", "published", "failed"}

(* Going on to the next record: the batch loses its first one, and what is *)
(* left of it takes no longer than before.                                 *)
LEMMA NextRecordKeeps ==
    ASSUME TypeOK, BatchInHand, NEW d \in Dispatchers, Dispatching(d),
           NextRecord(d), UNCHANGED delivered
    PROVE  /\ phase' \in [Dispatchers -> Phases] /\ timer' \in [Dispatchers -> Nat]
           /\ batch' \in [Dispatchers -> Seq(Records)]
           /\ BatchInHand'
           /\ \A v \in Dispatchers \ {d} : UNCHANGED <<batch[v], phase[v], timer[v]>>
           /\ \A i \in DOMAIN batch'[d] :
                 i + 1 \in DOMAIN batch[d] \ {1} /\ batch'[d][i] = batch[d][i + 1]
           /\ batch'[d] # <<>> => Remaining(d)' \in Int /\ Remaining(d)' <= Remaining(d)
<1> DEFINE rest == Tail(batch[d])
<1>1. batch[d] # <<>>
    BY DEF BatchInHand, Dispatching
<1>2. /\ Len(batch[d]) \in Nat \ {0} /\ DOMAIN batch[d] = 1..Len(batch[d])
      /\ rest \in Seq(Records) /\ Len(rest) = Len(batch[d]) - 1
      /\ \A i \in DOMAIN rest :
            i \in Nat \ {0} /\ i + 1 \in DOMAIN batch[d] /\ rest[i] = batch[d][i + 1]
      /\ rest = <<>> <=> Len(batch[d]) = 1
    BY <1>1, FrontOfBatch
<1>3. /\ batch' \in [Dispatchers -> Seq(Records)] /\ batch'[d] = rest
      /\ \A v \in Dispatchers \ {d} : UNCHANGED <<batch[v], phase[v], timer[v]>>
    BY <1>2 DEF NextRecord, Call, TypeOK
<1>4. /\ phase' \in [Dispatchers -> Phases] /\ timer' \in [Dispatchers -> Nat]
      /\ IF rest = <<>> THEN phase'[d] = "idle" /\ timer'[d] = 0
                        ELSE phase'[d] = "publishing" /\ timer'[d] = PublishTimeout
    <2>1. \/ Len(batch[d]) = 1 /\ Call(d, "idle", 0)
          \/ Len(batch[d]) # 1 /\ Call(d, "publishing", PublishTimeout)
        BY DEF NextRecord
    <2>2. CASE Len(batch[d]) = 1 /\ Call(d, "idle", 0)
        BY <1>2, <2>2 DEF Call, TypeOK, Phases
    <2>3. CASE Len(batch[d]) # 1 /\ Call(d, "publishing", PublishTimeout)
        BY <1>2, <2>3, Durations DEF Call, TypeOK, Phases
    <2> QED BY <2>1, <2>2, <2>3
<1>5. BatchInHand'
    <2>1. \A v \in Dispatchers \ {d} : BatchInHand!(v)'
        BY <1>3 DEF BatchInHand, Deadline
    <2>2. \A i, k \in DOMAIN rest : rest[i].event = rest[k].event => i = k
        BY <1>2 DEF BatchInHand
    <2>3. timer'[d] <= Deadline(d)'
        BY <1>4, Durations DEF Deadline
    <2>4. BatchInHand!(d)'
        BY <1>3, <1>4, <2>2, <2>3
    <2> QED BY <2>1, <2>4 DEF BatchInHand
<1>6. ASSUME batch'[d] # <<>> PROVE Remaining(d)' \in Int /\ Remaining(d)' <= Remaining(d)
    <2> HIDE DEF rest
    <2>1. /\ Len(batch[d]) - 2 \in Nat /\ Len(batch'[d]) = Len(batch[d]) - 1
          /\ timer'[d] = PublishTimeout /\ phase'[d] = "publishing"
        BY <1>2, <1>3, <1>4, <1>6
    <2>2. PICK n \in Nat : n = Len(batch[d]) - 2
        BY <2>1
    <2>3. Len(batch'[d]) - 1 = n /\ Len(batch[d]) - 1 = n + 1
        BY <1>2, <2>1, <2>2
    <2>4. Slots(n) \in Nat /\ Slots(n + 1) = Slots(n) + Slot
        BY SlotsAddUp
    <2>5. Remaining(d)' = PublishTimeout + Slots(n) + StoreTimeout
        BY <2>1, <2>3 DEF Remaining, Slots, Slot
    <2>6. \/ Remaining(d) = timer[d] + Slots(n + 1) + StoreTimeout
          \/ Remaining(d) = timer[d] + Slots(n + 1) + 0
        BY <2>3 DEF Remaining
    <2>7. timer[d] \in Nat
        BY DEF TypeOK
    <2> QED BY <2>4, <2>5, <2>6, <2>7, Durations DEF Slot
<1> QED BY <1>2, <1>3, <1>4, <1>5, <1>6

(* Everything but the exclusion of claims, in which time plays no part.    *)
Basics == TypeOK /\ BatchInHand /\ CountsOnlyGrow /\ RowsAreEarned

LEMMA InitBasics == Init => Basics
<1> SUFFICES ASSUME Init PROVE Basics
    OBVIOUS
<1>1. <<>> \in Seq(Records) /\ DOMAIN <<>> = {}
    BY EmptySeq
<1>2. TypeOK
    BY <1>1, ConfigAssumption DEF Init, TypeOK, Phases
<1> QED BY <1>1, <1>2 DEF Init, Basics, BatchInHand, CountsOnlyGrow, RowsAreEarned, Deadline

LEMMA ClaimKeepsBasics ==
    ASSUME Basics, NEW d \in Dispatchers, ClaimEvents(d)
    PROVE  Basics'
<1> USE DEF Basics, TypeOK
<1>1. PICK b \in Batches(Due(d)) :
         /\ Lease(d, {b[i] : i \in DOMAIN b})
         /\ batch' = [batch EXCEPT ![d] =
                [i \in DOMAIN b |-> [event |-> b[i], count |-> count[b[i]]]]]
         /\ IF b = <<>> THEN Call(d, "idle", 0) ELSE Call(d, "publishing", PublishTimeout)
    BY DEF ClaimEvents
<1>2. /\ Len(b) \in Nat /\ DOMAIN b = 1..Len(b)
      /\ \A i \in DOMAIN b : b[i] \in Events
      /\ \A i, k \in DOMAIN b : b[i] = b[k] => i = k
      /\ b = <<>> <=> Len(b) = 0
    <2>1. /\ Len(b) \in 0..BatchSize /\ DOMAIN b = 1..Len(b)
          /\ \A i \in DOMAIN b : b[i] \in Due(d)
          /\ \A i, k \in DOMAIN b : b[i] = b[k] => i = k
          /\ b = <<>> <=> Len(b) = 0
        BY ClaimedRows
    <2>2. Due(d) \subseteq Events /\ 0..BatchSize \subseteq Nat
        BY Durations DEF Due
    <2> QED BY <2>1, <2>2
<1>3. UNCHANGED <<published, dead, count, delivered, faults, claimDuration>>
    BY DEF ClaimEvents
<1>4. /\ batch'[d] = [i \in 1..Len(b) |-> [event |-> b[i], count |-> count[b[i]]]]
      /\ batch'[d] \in Seq(Records) /\ Len(batch'[d]) = Len(b) /\ DOMAIN batch'[d] = 1..Len(b)
      /\ \A v \in Dispatchers \ {d} : batch'[v] = batch[v]
    BY <1>1, <1>2 DEF Records
<1>5. batch'[d] = <<>> <=> b = <<>>
    BY <1>2, <1>4, EmptySeq
<1>6. /\ phase' \in [Dispatchers -> Phases] /\ timer' \in [Dispatchers -> Nat]
      /\ \A v \in Dispatchers \ {d} : phase'[v] = phase[v] /\ timer'[v] = timer[v]
      /\ \/ b = <<>> /\ phase'[d] = "idle" /\ timer'[d] = 0
         \/ b # <<>> /\ phase'[d] = "publishing" /\ timer'[d] = PublishTimeout
    <2>1. CASE b = <<>>
        <3>1. Call(d, "idle", 0)
            BY <1>1, <2>1
        <3> QED BY <2>1, <3>1 DEF Call, Phases
    <2>2. CASE b # <<>>
        <3>1. Call(d, "publishing", PublishTimeout)
            BY <1>1, <2>2
        <3> QED BY <2>2, <3>1, Durations DEF Call, Phases
    <2> QED BY <2>1, <2>2
<1>7. TypeOK'
    BY <1>1, <1>3, <1>4, <1>6 DEF Lease
<1>8. BatchInHand'
    <2>1. \A v \in Dispatchers \ {d} : BatchInHand!(v)'
        BY <1>3, <1>4, <1>6 DEF BatchInHand, Deadline
    <2>2. \A i, k \in DOMAIN batch'[d] : batch'[d][i].event = batch'[d][k].event => i = k
        BY <1>2, <1>4
    <2>3. timer'[d] <= Deadline(d)'
        BY <1>6, Durations DEF Deadline
    <2>4. BatchInHand!(d)'
        BY <1>5, <1>6, <2>2, <2>3
    <2> QED BY <2>1, <2>4 DEF BatchInHand
<1>9. CountsOnlyGrow'
    <2>1. \A i \in DOMAIN batch'[d] : batch'[d][i].count <= count'[batch'[d][i].event]
        BY <1>2, <1>3, <1>4
    <2> QED BY <1>3, <1>4, <2>1 DEF CountsOnlyGrow
<1>10. RowsAreEarned'
    BY <1>3 DEF RowsAreEarned
<1> QED BY <1>7, <1>8, <1>9, <1>10

(* The two answers of the broker.                                          *)
LEMMA PublishKeepsBasics ==
    ASSUME Basics, NEW d \in Dispatchers, PublishSucceeds(d) \/ PublishFails(d)
    PROVE  Basics'
<1> USE DEF Basics, TypeOK
<1>1. batch[d] # <<>> /\ phase[d] = "publishing"
    BY DEF BatchInHand, PublishSucceeds, PublishFails
<1>2. Head(batch[d]) = batch[d][1] /\ Head(batch[d]).event \in Events
    BY <1>1, FrontOfBatch
<1>3. UNCHANGED <<published, dead, count, wait, batch, faults, claimDuration>>
    BY DEF PublishSucceeds, PublishFails, rowVars
<1>4. /\ delivered \subseteq delivered' /\ delivered' \subseteq Events
      /\ PublishSucceeds(d) => batch[d][1].event \in delivered'
    BY <1>2 DEF PublishSucceeds, PublishFails
<1>5. PICK to \in {"published", "failed"} :
         /\ phase' = [phase EXCEPT ![d] = to] /\ timer' = [timer EXCEPT ![d] = StoreTimeout]
         /\ to = "published" => PublishSucceeds(d)
    BY DEF PublishSucceeds, PublishFails, Call
<1>6. TypeOK'
    BY <1>3, <1>4, <1>5, Durations DEF Phases
<1>7. BatchInHand'
    BY <1>1, <1>3, <1>4, <1>5, Durations DEF BatchInHand, Deadline
<1>8. CountsOnlyGrow' /\ RowsAreEarned'
    BY <1>3, <1>4 DEF CountsOnlyGrow, RowsAreEarned
<1> QED BY <1>6, <1>7, <1>8

(* The three ways in which a dispatcher goes on to its next record.        *)
LEMMA MarkKeepsBasics ==
    ASSUME Basics, NEW d \in Dispatchers,
           MarkPublished(d) \/ MarkFailed(d) \/ MarkUnanswered(d)
    PROVE  Basics'
<1> USE DEF Basics
<1> DEFINE e == Head(batch[d]).event
<1>1. Dispatching(d) /\ NextRecord(d) /\ UNCHANGED <<delivered, claimDuration>> /\ faults' \in Nat
    BY DEF Dispatching, MarkPublished, MarkFailed, MarkUnanswered, Fault, TypeOK
<1>2. batch[d] # <<>>
    BY <1>1 DEF BatchInHand, Dispatching
<1>3. /\ e = batch[d][1].event /\ e \in Events /\ Head(batch[d]).count \in Nat
      /\ Head(batch[d]).count <= count[e]
    BY <1>2, FrontOfBatch DEF CountsOnlyGrow
<1>4. /\ phase' \in [Dispatchers -> Phases] /\ timer' \in [Dispatchers -> Nat]
      /\ batch' \in [Dispatchers -> Seq(Records)]
      /\ BatchInHand'
      /\ \A v \in Dispatchers \ {d} : UNCHANGED <<batch[v], phase[v], timer[v]>>
      /\ \A i \in DOMAIN batch'[d] :
            i + 1 \in DOMAIN batch[d] \ {1} /\ batch'[d][i] = batch[d][i + 1]
    BY <1>1, NextRecordKeeps
<1> HIDE DEF e
<1>5. \/ /\ UNCHANGED <<dead, count, wait>>
         /\ \/ UNCHANGED published
            \/ published' = published \cup {e} /\ Open(e) /\ e \in delivered
      \/ /\ UNCHANGED published /\ Open(e)
         /\ count' = [count EXCEPT ![e] = @ + 1]
         /\ wait' = [x \in Events |-> wait'[x]]
         /\ \/ dead' = dead
            \/ dead' = dead \cup {e} /\ Head(batch[d]).count + 1 >= MaxAttempts
    <2>1. CASE MarkPublished(d)
        BY <1>3, <2>1 DEF MarkPublished, SetPublished, BatchInHand, e
    <2>2. CASE MarkFailed(d)
        <3>1. CASE ~ Open(e)
            BY <2>2, <3>1 DEF MarkFailed, SetFailed, e
        <3>2. CASE Open(e)
            BY <2>2, <3>2 DEF MarkFailed, SetFailed, e, TypeOK
        <3> QED BY <3>1, <3>2
    <2>3. CASE MarkUnanswered(d)
        BY <2>3 DEF MarkUnanswered, rowVars
    <2> QED BY <2>1, <2>2, <2>3
<1>6. /\ count' \in [Events -> Nat]
      /\ \A x \in Events : count[x] <= count'[x]
    <2>1. UNCHANGED count \/ count' = [count EXCEPT ![e] = @ + 1]
        BY <1>5
    <2>2. count \in [Events -> Nat]
        BY DEF TypeOK
    <2> QED BY <1>3, <2>1, <2>2
<1>7. TypeOK'
    BY <1>1, <1>3, <1>4, <1>5, <1>6 DEF TypeOK
<1>8. RowsAreEarned'
    <2>1. published' \subseteq delivered' /\ published' \cap dead' = {}
        BY <1>1, <1>5 DEF RowsAreEarned, Open
    <2>2. ASSUME NEW x \in dead' PROVE count'[x] >= MaxAttempts
        <3>1. CASE x \in dead
            BY <1>6, <3>1, Durations DEF RowsAreEarned, TypeOK
        <3>2. CASE x \notin dead
            <4>1. x = e /\ Head(batch[d]).count + 1 >= MaxAttempts /\ count'[e] = count[e] + 1
                BY <1>3, <1>5, <2>2, <3>2 DEF TypeOK
            <4> QED BY <1>3, <4>1, Durations DEF TypeOK
        <3> QED BY <3>1, <3>2
    <2> QED BY <2>1, <2>2 DEF RowsAreEarned
<1>9. CountsOnlyGrow'
    <2> SUFFICES ASSUME NEW v \in Dispatchers, NEW i \in DOMAIN batch'[v]
                 PROVE  batch'[v][i].count <= count'[batch'[v][i].event]
        BY DEF CountsOnlyGrow
    <2>1. PICK k \in DOMAIN batch[v] : batch'[v][i] = batch[v][k]
        BY <1>4
    <2>2. /\ batch[v][k].event \in Events /\ batch[v][k].count \in Nat
          /\ batch[v][k].count <= count[batch[v][k].event]
        BY RecordsOfBatch DEF CountsOnlyGrow
    <2> QED BY <1>6, <2>1, <2>2 DEF TypeOK
<1> QED BY <1>4, <1>7, <1>8, <1>9

(* Steps that leave the rows alone and touch no batch but to drop it.      *)
LEMMA OtherStepsKeepBasics ==
    ASSUME Basics,
           \/ \E d \in Dispatchers : StartClaim(d) \/ ClaimUnanswered(d) \/ Crash(d)
           \/ Tick
           \/ UNCHANGED vars
    PROVE  Basics'
<1> USE DEF Basics, TypeOK
<1>1. UNCHANGED <<published, dead, count, delivered, claimDuration>>
    BY DEF StartClaim, ClaimUnanswered, Crash, Tick, vars, rowVars
<1>2. faults' \in Nat /\ wait' = [e \in Events |-> wait'[e]]
    BY DEF StartClaim, ClaimUnanswered, Crash, Tick, Fault, Lease, vars, rowVars
<1>3. \A d \in Dispatchers : batch'[d] = batch[d] \/ batch'[d] = <<>>
    BY DEF StartClaim, ClaimUnanswered, Crash, Tick, vars, dispatcherVars
<1>4. <<>> \in Seq(Records) /\ DOMAIN <<>> = {}
    BY EmptySeq
<1>5. batch' \in [Dispatchers -> Seq(Records)]
    BY <1>4 DEF StartClaim, ClaimUnanswered, Crash, Tick, vars, dispatcherVars
<1>6. /\ phase' \in [Dispatchers -> Phases] /\ timer' \in [Dispatchers -> Nat]
      /\ \A d \in Dispatchers : timer'[d] <= Deadline(d)'
      /\ \A d \in Dispatchers :
            \/ phase'[d] = phase[d] /\ batch'[d] = batch[d]
            \/ phase'[d] \in {"idle", "claiming"} /\ batch'[d] = <<>>
    <2>1. CASE \E d \in Dispatchers : StartClaim(d)
        <3>1. PICK d \in Dispatchers : StartClaim(d)
            BY <2>1
        <3>2. /\ phase' = [phase EXCEPT ![d] = "claiming"]
              /\ timer' = [timer EXCEPT ![d] = StoreTimeout]
              /\ batch' = batch /\ batch[d] = <<>>
            BY <3>1 DEF StartClaim, Call, BatchInHand
        <3> QED BY <3>2, Durations DEF Phases, BatchInHand, Deadline
    <2>2. CASE \E d \in Dispatchers : ClaimUnanswered(d)
        <3>1. PICK d \in Dispatchers : ClaimUnanswered(d)
            BY <2>2
        <3>2. /\ phase' = [phase EXCEPT ![d] = "idle"] /\ timer' = [timer EXCEPT ![d] = 0]
              /\ batch' = batch /\ batch[d] = <<>>
            BY <3>1 DEF ClaimUnanswered, Call, BatchInHand
        <3> QED BY <3>2, Durations DEF Phases, BatchInHand, Deadline
    <2>3. CASE \E d \in Dispatchers : Crash(d)
        <3>1. PICK d \in Dispatchers : Crash(d)
            BY <2>3
        <3>2. /\ phase' = [phase EXCEPT ![d] = "idle"] /\ timer' = [timer EXCEPT ![d] = 0]
              /\ batch' = [batch EXCEPT ![d] = <<>>]
            BY <3>1 DEF Crash, Call
        <3> QED BY <3>2, Durations DEF Phases, BatchInHand, Deadline
    <2>4. CASE Tick
        BY <2>4, Durations DEF Tick, BatchInHand, Deadline
    <2>5. CASE UNCHANGED vars
        BY <2>5 DEF vars, dispatcherVars, BatchInHand, Deadline
    <2> QED BY <2>1, <2>2, <2>3, <2>4, <2>5
<1>7. TypeOK'
    BY <1>1, <1>2, <1>5, <1>6
<1>8. BatchInHand'
    BY <1>1, <1>4, <1>6 DEF BatchInHand
<1>9. CountsOnlyGrow' /\ RowsAreEarned'
    BY <1>1, <1>3, <1>4 DEF CountsOnlyGrow, RowsAreEarned
<1> QED BY <1>7, <1>8, <1>9

LEMMA NextKeepsBasics ==
    ASSUME Basics, [Next]_vars
    PROVE  Basics'
BY ClaimKeepsBasics, PublishKeepsBasics, MarkKeepsBasics, OtherStepsKeepBasics
   DEF Next, Dispatch

-----------------------------------------------------------------------------
(* The exclusion of claims.                                                *)

LEMMA RemainingTime ==
    ASSUME Basics, NEW v \in Dispatchers, batch[v] # <<>>
    PROVE  Remaining(v) \in Nat
<1>1. PICK n \in Nat : n = Len(batch[v]) - 1
    BY FrontOfBatch DEF Basics
<1>2. timer[v] \in Nat /\ Slots(n) \in Nat
    BY SlotsAddUp DEF Basics, TypeOK
<1>3. \/ Remaining(v) = timer[v] + Slots(n) + StoreTimeout
      \/ Remaining(v) = timer[v] + Slots(n) + 0
    BY <1>1 DEF Remaining
<1> QED BY <1>2, <1>3, Durations

(* A record of a batch lies ahead of every reading of the clock that a     *)
(* claim still under way may use: it is not due.                           *)
LEMMA WorkIsNotDue ==
    ASSUME Basics, ClaimLasts, NEW v \in Dispatchers, NEW d \in Dispatchers,
           phase[d] = "claiming"
    PROVE  Working(v) \cap Due(d) = {}
<1>1. timer[d] \in Nat /\ timer[d] <= StoreTimeout
    BY DEF Basics, TypeOK, BatchInHand, Deadline
<1>2. ASSUME NEW e \in Working(v), e \in Due(d) PROVE FALSE
    <2>1. PICK i \in DOMAIN batch[v] : e = batch[v][i].event
        BY <1>2 DEF Working
    <2>2. batch[v] # <<>>
        BY <2>1, EmptySeq
    <2>3. wait[e] \in Int /\ wait[e] > 0
        BY <2>1, <2>2, RemainingTime DEF ClaimLasts
    <2>4. wait[e] <= -(StoreTimeout - timer[d])
        BY <1>2 DEF Due, Age
    <2> QED BY <1>1, <2>3, <2>4, Durations
<1> QED BY <1>2

(* A step under which batches only shrink, and leave the rows of what      *)
(* remains alone, keeps the claims apart.                                  *)
LEMMA ShrinkingKeepsClaims ==
    ASSUME Basics, ClaimLasts,
           \A v \in Dispatchers : batch'[v] # <<>> =>
              Remaining(v)' \in Int /\ Remaining(v)' <= Remaining(v),
           \A v \in Dispatchers : \A i \in DOMAIN batch'[v] : \E k \in DOMAIN batch[v] :
              /\ batch'[v][i] = batch[v][k]
              /\ wait'[batch[v][k].event] = wait[batch[v][k].event]
              /\ count'[batch[v][k].event] = count[batch[v][k].event],
           \A e \in Events : count'[e] >= MaxAttempts => e \in dead'
    PROVE  ClaimLasts'
<1>1. ASSUME NEW v \in Dispatchers, NEW i \in DOMAIN batch'[v]
      PROVE  /\ batch'[v][i].event \in Working(v)
             /\ wait'[batch'[v][i].event] \in Int
             /\ wait'[batch'[v][i].event] > Remaining(v)'
             /\ count'[batch'[v][i].event] = batch'[v][i].count
    <2>1. PICK k \in DOMAIN batch[v] :
              /\ batch'[v][i] = batch[v][k]
              /\ wait'[batch[v][k].event] = wait[batch[v][k].event]
              /\ count'[batch[v][k].event] = count[batch[v][k].event]
        OBVIOUS
    <2>2. batch'[v] # <<>> /\ batch[v] # <<>>
        BY EmptySeq
    <2>3. Remaining(v) \in Nat
        BY <2>2, RemainingTime
    <2>4. /\ wait[batch[v][k].event] \in Int
          /\ wait[batch[v][k].event] > Remaining(v)
          /\ count[batch[v][k].event] = batch[v][k].count
        BY DEF ClaimLasts
    <2>5. Remaining(v)' \in Int /\ Remaining(v)' <= Remaining(v)
        BY <2>2
    <2> QED BY <2>1, <2>3, <2>4, <2>5 DEF Working
<1>2. \A v \in Dispatchers : Working(v)' \subseteq Working(v)
    BY <1>1 DEF Working
<1> QED BY <1>1, <1>2 DEF ClaimLasts

(* A claim takes only rows that are due, which no batch holds, and leases  *)
(* them for longer than its own batch can take.                            *)
LEMMA ClaimKeepsClaims ==
    ASSUME Basics, Covering, ClaimLasts, NEW d \in Dispatchers, ClaimEvents(d)
    PROVE  ClaimLasts'
<1>1. PICK b \in Batches(Due(d)) :
         /\ Lease(d, {b[i] : i \in DOMAIN b})
         /\ batch' = [batch EXCEPT ![d] =
                [i \in DOMAIN b |-> [event |-> b[i], count |-> count[b[i]]]]]
         /\ IF b = <<>> THEN Call(d, "idle", 0) ELSE Call(d, "publishing", PublishTimeout)
    BY DEF ClaimEvents
<1>2. /\ Len(b) \in 0..BatchSize /\ DOMAIN b = 1..Len(b)
      /\ b = <<>> <=> Len(b) = 0
      /\ \A i \in DOMAIN b : b[i] \in Due(d)
    BY ClaimedRows
<1>3. UNCHANGED <<dead, count>> /\ phase[d] = "claiming"
    BY DEF ClaimEvents
<1>4. /\ Due(d) \subseteq Events /\ Len(b) \in Nat
      /\ timer[d] \in Nat /\ timer[d] <= StoreTimeout /\ claimDuration \in Nat
    <2>1. timer[d] \in Nat /\ timer[d] <= StoreTimeout
        BY <1>3 DEF Basics, TypeOK, BatchInHand, Deadline
    <2>2. claimDuration \in Nat
        BY ConfigAssumption DEF Basics, TypeOK
    <2>3. Len(b) \in Nat
        BY <1>2, Durations
    <2> QED BY <2>1, <2>2, <2>3 DEF Due
<1>5. /\ batch'[d] = [i \in 1..Len(b) |-> [event |-> b[i], count |-> count[b[i]]]]
      /\ Len(batch'[d]) = Len(b) /\ DOMAIN batch'[d] = 1..Len(b)
      /\ \A v \in Dispatchers \ {d} : batch'[v] = batch[v]
    BY <1>1, <1>2, <1>4 DEF Basics, TypeOK
<1>6. \A v \in Dispatchers \ {d} : phase'[v] = phase[v] /\ timer'[v] = timer[v]
    BY <1>1 DEF Call, Basics, TypeOK
<1>7. \A v \in Dispatchers \ {d} : Remaining(v)' = Remaining(v) /\ Working(v)' = Working(v)
    BY <1>5, <1>6 DEF Remaining, Working
<1>8. Working(d)' \subseteq Due(d)
    BY <1>2, <1>5 DEF Working
<1>9. ASSUME NEW i \in DOMAIN batch'[d]
      PROVE  /\ wait'[batch'[d][i].event] \in Int
             /\ wait'[batch'[d][i].event] > Remaining(d)'
             /\ count'[batch'[d][i].event] = batch'[d][i].count
    <2>1. /\ batch'[d][i].event = b[i] /\ b[i] \in Events
          /\ count'[batch'[d][i].event] = batch'[d][i].count
        BY <1>2, <1>3, <1>4, <1>5, <1>9
    <2>2. wait'[b[i]] = claimDuration - (StoreTimeout - timer[d])
        BY <1>1, <1>2, <1>5, <1>9, <2>1 DEF Lease, Age
    <2>3. Len(b) - 1 \in Nat /\ b # <<>>
        BY <1>2, <1>4, <1>5, <1>9
    <2>4. phase'[d] = "publishing" /\ timer'[d] = PublishTimeout
        <3>1. Call(d, "publishing", PublishTimeout)
            BY <1>1, <2>3
        <3> QED BY <3>1 DEF Call, Basics, TypeOK
    <2>5. PICK n \in Nat : n = Len(b) - 1
        BY <2>3
    <2>6. Remaining(d)' = PublishTimeout + Slots(n) + StoreTimeout
        <3>1. Len(batch'[d]) - 1 = n
            BY <1>5, <2>5
        <3> QED BY <2>4, <3>1 DEF Remaining, Slots, Slot
    <2>7. Len(b) = n + 1
        BY <1>4, <2>5
    <2>8. Slots(n + 1) = Slots(n) + Slot /\ Slots(n) \in Nat /\ Slots(n + 1) <= Slots(BatchSize)
        <3>1. Len(b) \in 0..BatchSize
            BY <1>2
        <3>2. n + 1 \in 0..BatchSize
            BY <2>7, <3>1
        <3> QED BY <3>2, SlotsAddUp
    <2>9. claimDuration > StoreTimeout + Slots(BatchSize) /\ Slots(BatchSize) \in Nat
        BY SlotsAddUp, Durations DEF Covering
    <2>10. PICK m \in Nat : m = Slots(n)
        BY <2>8
    <2>11. PICK k \in Nat : k = Slots(BatchSize)
        BY <2>9
    <2>12. m + PublishTimeout + StoreTimeout <= k
        BY <2>8, <2>10, <2>11, Durations DEF Slot
    <2>13. claimDuration - (StoreTimeout - timer[d]) > PublishTimeout + m + StoreTimeout
        BY <1>4, <2>9, <2>11, <2>12, Durations
    <2>14. claimDuration - (StoreTimeout - timer[d]) \in Int
        BY <1>4, Durations
    <2>15. wait'[batch'[d][i].event] = claimDuration - (StoreTimeout - timer[d])
        BY <2>1, <2>2, Zenon
    <2>16. Remaining(d)' = PublishTimeout + m + StoreTimeout
        BY <2>6, <2>10
    <2> QED BY <2>1, <2>13, <2>14, <2>15, <2>16
<1>10. ASSUME NEW v \in Dispatchers \ {d}, NEW i \in DOMAIN batch'[v]
       PROVE  /\ wait'[batch'[v][i].event] \in Int
              /\ wait'[batch'[v][i].event] > Remaining(v)'
              /\ count'[batch'[v][i].event] = batch'[v][i].count
    <2> DEFINE e == batch[v][i].event
    <2>1. batch'[v][i].event = e /\ i \in DOMAIN batch[v] /\ e \in Working(v)
        BY <1>5, <1>10 DEF Working
    <2>2. e \notin Due(d) /\ e \in Events
        BY <1>3, <2>1, WorkIsNotDue, RecordsOfBatch DEF Basics
    <2>3. wait'[e] = wait[e]
        BY <1>1, <1>2, <2>2 DEF Lease, Basics, TypeOK
    <2>4. wait[e] \in Int /\ wait[e] > Remaining(v) /\ count[e] = batch[v][i].count
        BY <2>1 DEF ClaimLasts
    <2> QED BY <1>3, <1>5, <1>7, <2>1, <2>3, <2>4
<1>11. \A v \in Dispatchers \ {d} : Working(v)' \cap Working(d)' = {}
    BY <1>3, <1>7, <1>8, WorkIsNotDue
<1>12. \A v, u \in Dispatchers : u # v => Working(u)' \cap Working(v)' = {}
    BY <1>7, <1>11 DEF ClaimLasts
<1> QED BY <1>3, <1>9, <1>10, <1>12 DEF ClaimLasts

(* Time passes for the leases and for the calls alike.                     *)
LEMMA TickKeepsClaims ==
    ASSUME Basics, ClaimLasts, Tick
    PROVE  ClaimLasts'
<1>1. UNCHANGED <<batch, phase, count, dead>>
    BY DEF Tick
<1>2. ASSUME NEW v \in Dispatchers, NEW i \in DOMAIN batch[v]
      PROVE  /\ wait'[batch[v][i].event] \in Int
             /\ wait'[batch[v][i].event] > Remaining(v)'
             /\ count[batch[v][i].event] = batch[v][i].count
    <2> DEFINE e == batch[v][i].event
    <2>1. batch[v] # <<>> /\ e \in Events
        BY EmptySeq, RecordsOfBatch DEF Basics
    <2>2. phase[v] # "idle" /\ timer'[v] = timer[v] - 1 /\ timer[v] \in Nat
        BY <2>1 DEF Basics, BatchInHand, Tick, TypeOK
    <2>3. /\ wait[e] \in Int /\ wait[e] > Remaining(v) /\ Remaining(v) \in Nat
          /\ count[e] = batch[v][i].count
        BY <2>1, RemainingTime DEF ClaimLasts
    <2>4. wait[e] > -StoreTimeout
        BY <2>3, Durations
    <2>5. wait'[e] = wait[e] - 1
        BY <2>1, <2>4 DEF Tick
    <2>6. PICK n \in Nat : n = Len(batch[v]) - 1
        BY <2>1, FrontOfBatch DEF Basics
    <2>7. Slots(n) \in Nat
        BY SlotsAddUp
    <2>8. \/ /\ Remaining(v) = timer[v] + Slots(n) + StoreTimeout
            /\ Remaining(v)' = (timer[v] - 1) + Slots(n) + StoreTimeout
          \/ /\ Remaining(v) = timer[v] + Slots(n) + 0
            /\ Remaining(v)' = (timer[v] - 1) + Slots(n) + 0
        BY <1>1, <2>2, <2>6 DEF Remaining, Slots, Slot
    <2>9. Remaining(v)' = Remaining(v) - 1
        BY <2>2, <2>7, <2>8, Durations
    <2> QED BY <2>3, <2>5, <2>9
<1>3. \A v \in Dispatchers : Working(v)' = Working(v)
    BY <1>1 DEF Working
<1> QED BY <1>1, <1>2, <1>3 DEF ClaimLasts

(* Marks: only the dispatcher that works on a row records a failure of it, *)
(* on the count it has read, and then lets go of it.                       *)
LEMMA MarkKeepsClaims ==
    ASSUME Basics, ClaimLasts, NEW d \in Dispatchers,
           MarkPublished(d) \/ MarkFailed(d) \/ MarkUnanswered(d)
    PROVE  ClaimLasts'
<1> DEFINE e == Head(batch[d]).event
<1>1. Dispatching(d) /\ NextRecord(d) /\ UNCHANGED delivered
    BY DEF Dispatching, MarkPublished, MarkFailed, MarkUnanswered
<1>2. batch[d] # <<>>
    BY <1>1 DEF Basics, BatchInHand, Dispatching
<1>3. /\ e = batch[d][1].event /\ e \in Events /\ 1 \in DOMAIN batch[d]
      /\ Head(batch[d]).count = count[e] /\ count[e] \in Nat
    BY <1>2, FrontOfBatch DEF ClaimLasts, Basics, TypeOK
<1>4. /\ batch'[d] # <<>> => Remaining(d)' \in Int /\ Remaining(d)' <= Remaining(d)
      /\ \A v \in Dispatchers \ {d} : UNCHANGED <<batch[v], phase[v], timer[v]>>
      /\ \A i \in DOMAIN batch'[d] :
            i + 1 \in DOMAIN batch[d] \ {1} /\ batch'[d][i] = batch[d][i + 1]
    BY <1>1, NextRecordKeeps DEF Basics
<1> HIDE DEF e
<1>5. /\ \A x \in Events \ {e} : wait'[x] = wait[x] /\ count'[x] = count[x]
      /\ dead \subseteq dead'
      /\ count'[e] = count[e] \/ (count'[e] = count[e] + 1 /\ (count[e] + 1 >= MaxAttempts => e \in dead'))
    <2>1. CASE MarkPublished(d)
        BY <2>1 DEF MarkPublished
    <2>2. CASE MarkFailed(d)
        <3>1. CASE ~ Open(e)
            BY <2>2, <3>1 DEF MarkFailed, SetFailed, e
        <3>2. CASE Open(e)
            BY <1>3, <2>2, <3>2 DEF MarkFailed, SetFailed, e, Basics, TypeOK
        <3> QED BY <3>1, <3>2
    <2>3. CASE MarkUnanswered(d)
        BY <2>3 DEF MarkUnanswered, rowVars
    <2> QED BY <2>1, <2>2, <2>3
<1>6. ASSUME NEW v \in Dispatchers, batch'[v] # <<>>
      PROVE  Remaining(v)' \in Int /\ Remaining(v)' <= Remaining(v)
    <2>1. CASE v = d
        BY <1>4, <1>6, <2>1
    <2>2. CASE v # d
        <3>1. Remaining(v)' = Remaining(v) /\ batch[v] # <<>>
            BY <1>4, <1>6, <2>2 DEF Remaining
        <3> QED BY <3>1, RemainingTime
    <2> QED BY <2>1, <2>2
<1>7. ASSUME NEW v \in Dispatchers, NEW i \in DOMAIN batch'[v]
      PROVE  \E k \in DOMAIN batch[v] :
                /\ batch'[v][i] = batch[v][k]
                /\ batch[v][k].event \in Events \ {e}
    <2>1. CASE v = d
        <3>1. i + 1 \in DOMAIN batch[d] \ {1} /\ batch'[d][i] = batch[d][i + 1]
            BY <1>4, <1>7, <2>1
        <3>2. batch[d][i + 1].event \in Events
            BY <3>1, RecordsOfBatch DEF Basics
        <3>3. batch[d][i + 1].event # e
            BY <1>3, <3>1 DEF Basics, BatchInHand
        <3> QED BY <2>1, <3>1, <3>2, <3>3
    <2>2. CASE v # d
        <3>1. i \in DOMAIN batch[v] /\ batch'[v] = batch[v]
            BY <1>4, <1>7, <2>2
        <3>2. batch[v][i].event \in Events
            BY <3>1, RecordsOfBatch DEF Basics
        <3>3. e \in Working(d) /\ batch[v][i].event \in Working(v)
            BY <1>3, <3>1 DEF Working
        <3>4. batch[v][i].event # e
            BY <2>2, <3>3 DEF ClaimLasts
        <3> QED BY <3>1, <3>2, <3>4
    <2> QED BY <2>1, <2>2
<1>8. \A x \in Events : count'[x] >= MaxAttempts => x \in dead'
    BY <1>3, <1>5 DEF ClaimLasts
<1> QED BY <1>5, <1>6, <1>7, <1>8, ShrinkingKeepsClaims

(* Steps that leave rows and claims alone.                                 *)
LEMMA QuietStepsKeepClaims ==
    ASSUME Basics, ClaimLasts,
           \/ \E d \in Dispatchers : StartClaim(d) \/ PublishSucceeds(d) \/ PublishFails(d) \/ Crash(d)
           \/ UNCHANGED vars
    PROVE  ClaimLasts'
<1>1. UNCHANGED <<count, wait, dead>>
    BY DEF StartClaim, PublishSucceeds, PublishFails, Crash, vars, rowVars
<1>2. ASSUME NEW v \in Dispatchers, NEW i \in DOMAIN batch'[v]
      PROVE  i \in DOMAIN batch[v] /\ batch'[v][i] = batch[v][i]
    <2>1. batch'[v] = batch[v] \/ batch'[v] = <<>>
        BY DEF StartClaim, PublishSucceeds, PublishFails, Crash, vars, dispatcherVars,
           Basics, TypeOK
    <2>2. DOMAIN <<>> = {}
        BY EmptySeq
    <2> QED BY <1>2, <2>1, <2>2
<1>3. ASSUME NEW v \in Dispatchers, batch'[v] # <<>>
      PROVE  Remaining(v)' \in Int /\ Remaining(v)' <= Remaining(v)
    <2>1. batch'[v] = batch[v]
        BY <1>3 DEF StartClaim, PublishSucceeds, PublishFails, Crash, vars, dispatcherVars,
           Basics, TypeOK
    <2>2. Remaining(v) \in Nat
        BY <1>3, <2>1, RemainingTime
    <2>3. PICK n \in Nat : n = Len(batch[v]) - 1
        <3>1. batch[v] # <<>>
            BY <1>3, <2>1
        <3>2. Len(batch[v]) - 1 \in Nat
            BY <3>1, FrontOfBatch DEF Basics
        <3> QED BY <3>2
    <2>4. Slots(n) \in Nat /\ timer[v] \in Nat
        BY SlotsAddUp DEF Basics, TypeOK
    <2>5. CASE phase'[v] = phase[v] /\ timer'[v] = timer[v]
        BY <2>1, <2>2, <2>5 DEF Remaining
    <2>6. CASE PublishSucceeds(v) \/ PublishFails(v)
        <3>1. /\ phase[v] = "publishing" /\ phase'[v] \in {"published", "failed"}
              /\ timer'[v] = StoreTimeout
            BY <2>6 DEF PublishSucceeds, PublishFails, Call, Basics, TypeOK
        <3>2. Remaining(v)' = StoreTimeout + Slots(n) + 0
            BY <2>1, <2>3, <3>1 DEF Remaining, Slots, Slot
        <3>3. Remaining(v) = timer[v] + Slots(n) + StoreTimeout
            BY <2>3, <3>1 DEF Remaining
        <3> QED BY <2>4, <3>2, <3>3, Durations
    <2>7. batch[v] # <<>> => phase[v] # "idle"
        BY DEF Basics, BatchInHand
    <2> QED BY <1>3, <2>1, <2>5, <2>6, <2>7 DEF StartClaim, PublishSucceeds, PublishFails, Crash,
            Call, vars, dispatcherVars, Basics, TypeOK
<1>4. \A e \in Events : count'[e] >= MaxAttempts => e \in dead'
    BY <1>1 DEF ClaimLasts
<1> QED BY <1>1, <1>2, <1>3, <1>4, ShrinkingKeepsClaims

(* A claim whose answer is lost leases rows that are due, so none that a   *)
(* batch holds.                                                            *)
LEMMA LostClaimKeepsClaims ==
    ASSUME Basics, ClaimLasts, NEW d \in Dispatchers, ClaimUnanswered(d)
    PROVE  ClaimLasts'
<1>1. /\ UNCHANGED <<count, dead, batch>> /\ phase[d] = "claiming"
      /\ phase' = [phase EXCEPT ![d] = "idle"] /\ timer' = [timer EXCEPT ![d] = 0]
    BY DEF ClaimUnanswered, Call
<1>2. batch[d] = <<>>
    BY <1>1 DEF Basics, BatchInHand
<1>3. \A e \in Events \ Due(d) : wait'[e] = wait[e]
    <2>1. CASE UNCHANGED wait
        BY <2>1
    <2>2. CASE \E b \in Batches(Due(d)) : Lease(d, {b[i] : i \in DOMAIN b})
        BY <2>2, ClaimedRows DEF Lease
    <2> QED BY <2>1, <2>2 DEF ClaimUnanswered
<1>4. ASSUME NEW v \in Dispatchers, NEW i \in DOMAIN batch[v]
      PROVE  wait'[batch[v][i].event] = wait[batch[v][i].event]
    <2>1. batch[v][i].event \in Events /\ batch[v][i].event \in Working(v)
        BY RecordsOfBatch DEF Basics, Working
    <2> QED BY <1>1, <1>3, <2>1, WorkIsNotDue
<1>5. ASSUME NEW v \in Dispatchers, batch'[v] # <<>>
      PROVE  Remaining(v)' \in Int /\ Remaining(v)' <= Remaining(v)
    <2>1. v # d /\ batch[v] # <<>>
        BY <1>1, <1>2, <1>5
    <2>2. Remaining(v)' = Remaining(v)
        BY <1>1, <2>1 DEF Remaining, Basics, TypeOK
    <2> QED BY <2>1, <2>2, RemainingTime
<1>6. \A e \in Events : count'[e] >= MaxAttempts => e \in dead'
    BY <1>1 DEF ClaimLasts
<1> QED BY <1>1, <1>4, <1>5, <1>6, ShrinkingKeepsClaims

-----------------------------------------------------------------------------

LEMMA Inductive == Spec => [](TypeOK /\ IInv)
<1>1. Init => TypeOK /\ IInv
    <2> SUFFICES ASSUME Init PROVE TypeOK /\ IInv
        OBVIOUS
    <2>1. ClaimLasts
        BY EmptySeq, Durations DEF Init, ClaimLasts, Working
    <2> QED BY <2>1, InitBasics DEF Basics, IInv
<1>2. TypeOK /\ IInv /\ [Next]_vars => TypeOK' /\ IInv'
    <2> SUFFICES ASSUME Basics, Covering => ClaimLasts, [Next]_vars
                 PROVE  Basics' /\ (Covering => ClaimLasts)'
        BY DEF Basics, IInv
    <2>1. claimDuration' = claimDuration
        BY DEF Next, Dispatch, StartClaim, ClaimEvents, ClaimUnanswered, PublishSucceeds,
           PublishFails, MarkPublished, MarkFailed, MarkUnanswered, Crash, Tick, vars
    <2>2. Covering' <=> Covering
        BY <2>1 DEF Covering
    <2>3. ASSUME Covering PROVE ClaimLasts'
        BY <2>3, ClaimKeepsClaims, TickKeepsClaims, MarkKeepsClaims, QuietStepsKeepClaims,
           LostClaimKeepsClaims DEF Next, Dispatch
    <2> QED BY <2>2, <2>3, NextKeepsBasics
<1> QED BY <1>1, <1>2, PTL DEF Spec

(* Every variable keeps to its set; next_attempt_at stays a column with    *)
(* one value per row.                                                      *)
THEOREM TypeCorrect == Spec => []TypeOK
BY Inductive, PTL

(* An event counts as published only if the broker accepted it, and as     *)
(* dead only after MaxAttempts recorded failures, for every claim duration *)
(* that Validate accepts; under a covering claim, exactly then.            *)
THEOREM MarksAreEarned == Spec => []FinalRowsAreEarned
<1>1. TypeOK /\ IInv => FinalRowsAreEarned
    BY DEF IInv, RowsAreEarned, ClaimLasts, FinalRowsAreEarned
<1> QED BY <1>1, Inductive, PTL

(* Two dispatchers never work on the same event if claims cover the claim  *)
(* call as well as the batch, however many replicas there are, and         *)
(* whichever of them crash or get no answer.                               *)
THEOREM ClaimsExclude == Spec => []ExclusiveClaim
<1>1. TypeOK /\ IInv => ExclusiveClaim
    BY DEF IInv, ClaimLasts, ExclusiveClaim
<1> QED BY <1>1, Inductive, PTL

(* No step takes a final state away from a row, or touches its count.      *)
THEOREM FinalRowsStay == Spec => FinalIsFinal
<1> DEFINE Step ==
        /\ published \subseteq published' /\ dead \subseteq dead'
        /\ (published' \cap dead') = {}
        /\ \A e \in published \cup dead : count'[e] = count[e]
<1>1. TypeOK /\ IInv /\ TypeOK' /\ IInv' /\ [Next]_vars => Step
    <2> SUFFICES ASSUME TypeOK, IInv, IInv', [Next]_vars PROVE Step
        OBVIOUS
    <2>1. published' \cap dead' = {}
        BY DEF IInv, RowsAreEarned
    <2>2. ASSUME NEW d \in Dispatchers, MarkPublished(d) PROVE Step
        BY <2>1, <2>2 DEF MarkPublished, SetPublished
    <2>3. ASSUME NEW d \in Dispatchers, MarkFailed(d) PROVE Step
        BY <2>1, <2>3 DEF MarkFailed, SetFailed, Open, TypeOK
    <2>4. ASSUME UNCHANGED <<published, dead, count>> PROVE Step
        BY <2>1, <2>4
    <2> QED BY <2>2, <2>3, <2>4 DEF Next, Dispatch, StartClaim, ClaimEvents, ClaimUnanswered,
            PublishSucceeds, PublishFails, MarkUnanswered, Crash, Tick, vars, rowVars
<1>2. Spec => [][Step]_vars
    BY <1>1, Inductive, PTL DEF Spec
<1> QED BY <1>2 DEF FinalIsFinal
=============================================================================
