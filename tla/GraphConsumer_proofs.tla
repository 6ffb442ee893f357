------------------------ MODULE GraphConsumer_proofs -------------------------
(***************************************************************************)
(* Theorems about GraphConsumer, for all sets of rows, events, processes,  *)
(* snapshots, releases and keys, all quotas and any number of faults.      *)
(***************************************************************************)
EXTENDS GraphConsumer, FiniteSetTheorems, TLAPS

(* What a caller may ask for.                                              *)
Requested == [key : Keys, build : Builds]

(* The types of the tables of the admission.                               *)
StoreTypeOK ==
    /\ job \in [Builds -> {"absent", "open", "ended"}]
    /\ jobKey \in [Builds -> Keys \cup {None}]
    /\ boundTo \in [Keys -> Builds \cup {None}]

(* The store transaction keeps the types of its tables.                    *)
LEMMA StoreTyping ==
    ASSUME StoreTypeOK, NEW r \in Requested, Store(r)
    PROVE  StoreTypeOK'
<1>1. r.key \in Keys /\ r.build \in Builds
    BY DEF Requested
<1> QED BY <1>1 DEF StoreTypeOK, Store

(* Faults stay in their budget.                                            *)
LEMMA FaultTyping ==
    ASSUME faults \in 0..MaxFaults, Fault
    PROVE  faults' \in 0..MaxFaults
BY FaultAssumption DEF Fault

(* A consumer asks about the message it handles, until it has decided.     *)
Busy == \A c \in Consumers :
    /\ message[c] = None \/ verdict[c] # "none" => asked[c] = None
    /\ message[c] = None => verdict[c] = "none"
    /\ asked[c] = None => answer[c] = "none"

(* A caller asks for a build under a key.                                  *)
LEMMA AskTyping ==
    ASSUME asked \in [Callers -> Requested \cup {None}], answer \in [Callers -> Answers],
           NEW c \in Callers, NEW k \in Keys, NEW s \in Snapshots, Ask(c, k, s)
    PROVE  /\ asked' \in [Callers -> Requested \cup {None}]
           /\ answer' \in [Callers -> Answers]
<1>1. PICK v \in Versions : asked' = [asked EXCEPT ![c] = [key |-> k, build |-> <<s, v>>]]
    BY DEF Ask
<1>2. [key |-> k, build |-> <<s, v>>] \in Requested
    BY DEF Requested, Builds
<1> QED BY <1>1, <1>2 DEF Ask, Answer, Answers

(* No step leaves the types.                                               *)
LEMMA TypeStep ==
    ASSUME TypeOK, Busy, [Next]_vars
    PROVE  TypeOK'
<1> USE DEF TypeOK, OutboxTypeOK, AdmissionTypeOK
<1>1. CASE OutboxNext /\ OutboxAlone
    <2> SUFFICES OutboxTypeOK' /\ faults' \in 0..MaxFaults
        BY <1>1 DEF OutboxAlone, admissionVars, storeVars, callVars, handlerVars
    <2> USE DEF outboxVars, rowVars, Records, Marks
    <2>1. ASSUME NEW d \in Dispatchers, Read(d)
          PROVE  OutboxTypeOK' /\ faults' \in 0..MaxFaults
        BY <2>1 DEF Read, PendingRows
    <2>2. ASSUME NEW d \in Dispatchers, Publish(d)
          PROVE  OutboxTypeOK' /\ faults' \in 0..MaxFaults
        BY <2>2, OutboxAssumption DEF Publish, Deliver, Stored
    <2>3. ASSUME NEW d \in Dispatchers, Mark(d)
          PROVE  OutboxTypeOK' /\ faults' \in 0..MaxFaults
        BY <2>3 DEF Mark, Markable, SetPublished, SetFailed
    <2>4. ASSUME NEW d \in Dispatchers, MarkUnanswered(d) \/ CrashDispatcher(d)
          PROVE  OutboxTypeOK' /\ faults' \in 0..MaxFaults
        BY <2>4, FaultTyping DEF MarkUnanswered, CrashDispatcher
    <2>5. ASSUME NEW e \in Rows, BecomeDue(e) \/ Expire(e)
          PROVE  OutboxTypeOK' /\ faults' \in 0..MaxFaults
        BY <2>5 DEF BecomeDue, Expire
    <2> QED BY <1>1, <2>1, <2>2, <2>3, <2>4, <2>5 DEF OutboxNext, Dispatch
<1>2. CASE AdmissionNext /\ AdmissionAlone
    <2> SUFFICES AdmissionTypeOK' /\ faults' \in 0..MaxFaults
        BY <1>2 DEF AdmissionAlone, outboxVars, rowVars, handlerVars
    <2> USE DEF admissionVars, storeVars, callVars, Answers
    <2>1. ASSUME NEW c \in Callers, Enqueue(c)
          PROVE  AdmissionTypeOK' /\ faults' \in 0..MaxFaults
        <3>1. asked[c] \in Requested /\ StoreTypeOK
            BY <2>1 DEF Enqueue, Asks, Requested, StoreTypeOK
        <3>2. StoreTypeOK'
            BY <2>1, <3>1, StoreTyping DEF Enqueue, StoreTypeOK
        <3>3. answer' \in [Callers -> Answers] /\ UNCHANGED <<asked, faults>>
            BY <2>1 DEF Enqueue, Answer
        <3> QED BY <3>2, <3>3 DEF StoreTypeOK
    <2>2. ASSUME NEW c \in Callers, EnqueueFails(c)
          PROVE  AdmissionTypeOK' /\ faults' \in 0..MaxFaults
        <3>1. asked[c] \in Requested /\ StoreTypeOK
            BY <2>2 DEF EnqueueFails, Asks, Requested, StoreTypeOK
        <3>2. StoreTypeOK'
            BY <2>2, <3>1, StoreTyping DEF EnqueueFails, StoreTypeOK
        <3>3. answer' \in [Callers -> Answers] /\ UNCHANGED asked
            BY <2>2 DEF EnqueueFails, Answer
        <3>4. faults' \in 0..MaxFaults
            BY <2>2, FaultTyping DEF EnqueueFails
        <3> QED BY <3>2, <3>3, <3>4 DEF StoreTypeOK
    <2>3. ASSUME NEW c \in Callers, Recover(c)
          PROVE  AdmissionTypeOK' /\ faults' \in 0..MaxFaults
        BY <2>3 DEF Recover, Answer
    <2>4. ASSUME NEW c \in Clients, Submit(c)
          PROVE  AdmissionTypeOK' /\ faults' \in 0..MaxFaults
        <3>1. PICK r \in Requests : Ask(c, r.key, r.snapshot)
            BY <2>4 DEF Submit
        <3>2. r.key \in Keys /\ r.snapshot \in Snapshots
            BY AdmissionAssumption
        <3>3. /\ asked' \in [Callers -> Requested \cup {None}]
              /\ answer' \in [Callers -> Answers]
            BY <3>1, <3>2, AskTyping DEF Callers, Requested
        <3> QED BY <2>4, <3>3 DEF Submit, Requested
    <2>5. ASSUME NEW c \in Clients, Return(c)
          PROVE  AdmissionTypeOK' /\ faults' \in 0..MaxFaults
        BY <2>5 DEF Return, Forget, Answer, Callers
    <2>6. ASSUME NEW b \in Builds, EndJob(b)
          PROVE  AdmissionTypeOK' /\ faults' \in 0..MaxFaults
        BY <2>6 DEF EndJob
    <2> QED BY <1>2, <2>1, <2>2, <2>3, <2>4, <2>5, <2>6 DEF AdmissionNext, EnqueueStep
<1>3. ASSUME NEW c \in Consumers, Consume(c) \/ RejectFails(c) \/ StopConsumer(c)
      PROVE  TypeOK'
    <2> USE DEF outboxVars, rowVars, admissionVars, storeVars, callVars, handlerVars, Decide
    <2>1. ASSUME Fetch(c) PROVE TypeOK'
        <3>1. UNCHANGED <<outboxVars, storeVars, failedParses, rejected, faults>>
            BY <2>1 DEF Fetch
        <3>2. /\ message' \in [Consumers -> Events \cup {None}]
              /\ verdict' \in [Consumers -> {"none", "ack", "nak", "reject"}]
            BY <2>1 DEF Fetch
        <3>3. UNCHANGED callVars \/ \E e \in Events : Ask(c, e, SnapshotOf[e])
            BY <2>1 DEF Fetch
        <3>4. /\ asked' \in [Callers -> Requested \cup {None}]
              /\ answer' \in [Callers -> Answers]
            BY <3>3, AskTyping, ConsumerAssumption DEF Callers, Requested
        <3> QED BY <3>1, <3>2, <3>4 DEF Requested
    <2>2. ASSUME FinishHandle(c) PROVE TypeOK'
        BY <2>2 DEF FinishHandle, Forget, Answer, Answers, Callers
    <2>3. ASSUME Reject(c) PROVE TypeOK'
        BY <2>3 DEF Reject, Busy
    <2>4. ASSUME RejectFails(c) PROVE TypeOK'
        BY <2>4, FaultTyping DEF RejectFails, Busy
    <2>5. ASSUME Ack(c) \/ Nak(c) PROVE TypeOK'
        BY <2>5 DEF Ack, Nak, Leave
    <2>6. ASSUME StopConsumer(c) PROVE TypeOK'
        BY <2>6, FaultTyping DEF StopConsumer, Leave, Forget, Answer, Answers, Callers
    <2> QED BY <1>3, <2>1, <2>2, <2>3, <2>4, <2>5, <2>6 DEF Consume
<1>4. CASE UNCHANGED vars
    BY <1>4 DEF vars, outboxVars, rowVars, admissionVars, storeVars, callVars, handlerVars
<1> QED BY <1>1, <1>2, <1>3, <1>4 DEF Next

(* A step leaves a consumer and its call alone.                            *)
Same(c) ==
    /\ message'[c] = message[c] /\ verdict'[c] = verdict[c]
    /\ asked'[c] = asked[c] /\ answer'[c] = answer[c]

(* What a step does to a consumer: nothing, or a step of its own.          *)
LEMMA ConsumerSteps ==
    ASSUME TypeOK, [Next]_vars, NEW c \in Consumers
    PROVE  \/ Same(c)
           \/ (EnqueueStep(c) \/ EnqueueFails(c)) /\ UNCHANGED handlerVars
           \/ Consume(c) \/ RejectFails(c) \/ StopConsumer(c)
<1> USE DEF TypeOK, AdmissionTypeOK, Same, Callers
<1>1. CASE OutboxNext /\ OutboxAlone
    BY <1>1 DEF OutboxAlone, admissionVars, callVars, handlerVars
<1>2. CASE AdmissionNext /\ AdmissionAlone
    <2>1. UNCHANGED handlerVars
        BY <1>2 DEF AdmissionAlone
    <2>2. ASSUME NEW u \in Callers, EnqueueStep(u) \/ EnqueueFails(u), u # c
          PROVE  Same(c)
        BY <2>1, <2>2 DEF EnqueueStep, Enqueue, Recover, EnqueueFails, Answer, handlerVars
    <2>3. ASSUME NEW u \in Clients, Submit(u) \/ Return(u)
          PROVE  Same(c)
        BY <2>1, <2>3, ConsumerAssumption
        DEF Submit, Return, Ask, Forget, Answer, handlerVars
    <2>4. ASSUME NEW b \in Builds, EndJob(b)
          PROVE  Same(c)
        BY <2>1, <2>4 DEF EndJob, callVars, handlerVars
    <2> QED BY <1>2, <2>1, <2>2, <2>3, <2>4 DEF AdmissionNext
<1>3. ASSUME NEW d \in Consumers, Consume(d) \/ RejectFails(d) \/ StopConsumer(d), d # c
      PROVE  Same(c)
    <2> USE DEF admissionVars, callVars, Decide
    <2>1. CASE Fetch(d)
        BY <1>3, <2>1 DEF Fetch, Ask, Answer
    <2>2. CASE FinishHandle(d)
        BY <1>3, <2>2 DEF FinishHandle, Forget, Answer
    <2>3. CASE Reject(d) \/ RejectFails(d)
        BY <1>3, <2>3 DEF Reject, RejectFails
    <2>4. CASE Ack(d) \/ Nak(d)
        BY <1>3, <2>4 DEF Ack, Nak, Leave
    <2>5. CASE StopConsumer(d)
        BY <1>3, <2>5 DEF StopConsumer, Leave, Forget, Answer
    <2> QED BY <1>3, <2>1, <2>2, <2>3, <2>4, <2>5 DEF Consume
<1>4. CASE UNCHANGED vars
    BY <1>4 DEF vars, admissionVars, callVars, handlerVars
<1> QED BY <1>1, <1>2, <1>3, <1>4 DEF Next

(* A verdict is reached only after the call, and an answer needs a call.   *)
LEMMA BusyStep ==
    ASSUME TypeOK, Busy, [Next]_vars
    PROVE  Busy'
<1> SUFFICES ASSUME NEW c \in Consumers
             PROVE  /\ message'[c] = None \/ verdict'[c] # "none" => asked'[c] = None
                    /\ message'[c] = None => verdict'[c] = "none"
                    /\ asked'[c] = None => answer'[c] = "none"
    BY DEF Busy
<1> USE DEF TypeOK, AdmissionTypeOK, Busy, Callers
<1>1. CASE Same(c)
    BY <1>1 DEF Same
<1>2. CASE (EnqueueStep(c) \/ EnqueueFails(c)) /\ UNCHANGED handlerVars
    BY <1>2 DEF EnqueueStep, Enqueue, Recover, EnqueueFails, Asks, handlerVars
<1>3. CASE Fetch(c)
    <2>1. message'[c] # None
        BY <1>3, ConsumerAssumption DEF Fetch, OutboxTypeOK
    <2>2. verdict'[c] = "none" \/ UNCHANGED callVars
        BY <1>3 DEF Fetch
    <2>3. UNCHANGED callVars \/ answer'[c] = "none"
        BY <1>3 DEF Fetch, Ask, Answer
    <2>4. asked[c] = None
        BY <1>3 DEF Fetch
    <2> QED BY <2>1, <2>2, <2>3, <2>4 DEF callVars
<1>4. CASE FinishHandle(c)
    <2>1. asked'[c] = None /\ answer'[c] = "none"
        BY <1>4 DEF FinishHandle, Forget, Answer
    <2>2. message'[c] = message[c] /\ message[c] # None
        BY <1>4 DEF FinishHandle
    <2> QED BY <2>1, <2>2
<1>5. CASE Reject(c) \/ RejectFails(c)
    BY <1>5 DEF Reject, RejectFails, Decide, admissionVars, callVars
<1>6. CASE Ack(c) \/ Nak(c)
    <2>1. UNCHANGED callVars /\ asked[c] = None
        BY <1>6 DEF Ack, Nak, admissionVars
    <2> QED BY <1>6, <2>1 DEF Ack, Nak, Leave, Decide, callVars
<1>7. CASE StopConsumer(c)
    BY <1>7 DEF StopConsumer, Leave, Decide, Forget, Answer
<1> QED BY <1>1, <1>2, <1>3, <1>4, <1>5, <1>6, <1>7, ConsumerSteps DEF Consume

(* Types and Busy need each other.                                         *)
LEMMA Typing == Spec => [](TypeOK /\ Busy)
<1>1. Init => TypeOK /\ Busy
    <2> SUFFICES ASSUME Init PROVE TypeOK /\ Busy
        OBVIOUS
    <2>1. OutboxTypeOK
        BY OutboxAssumption DEF Init, OutboxInit, OutboxTypeOK
    <2>2. AdmissionTypeOK
        BY DEF Init, AdmissionInit, AdmissionTypeOK, Answers
    <2>3. Busy
        BY DEF Init, AdmissionInit, Busy, Callers
    <2> QED BY <2>1, <2>2, <2>3, FaultAssumption DEF Init, TypeOK
<1>2. TypeOK /\ Busy /\ [Next]_vars => TypeOK' /\ Busy'
    BY TypeStep, BusyStep
<1> QED BY <1>1, <1>2, PTL DEF Spec

(* Every variable stays in its set.                                        *)
THEOREM TypeCorrect == Spec => []TypeOK
BY Typing, PTL

-----------------------------------------------------------------------------

(* How the tables of the admission change: not at all, by one call that    *)
(* found room and no conflict, or by the end of a build.                   *)
LEMMA StoreSteps ==
    ASSUME [Next]_vars
    PROVE  \/ UNCHANGED storeVars
           \/ \E c \in Callers :
                 Asks(c) /\ ~ Conflicts(asked[c]) /\ HasRoom(asked[c]) /\ Store(asked[c])
           \/ \E b \in Builds : EndJob(b)
<1>1. CASE OutboxNext /\ OutboxAlone
    BY <1>1 DEF OutboxAlone, admissionVars
<1>2. CASE AdmissionNext /\ AdmissionAlone
    BY <1>2 DEF AdmissionNext, EnqueueStep, Enqueue, EnqueueFails, Recover, Submit, Return
<1>3. ASSUME NEW c \in Consumers, Consume(c) \/ RejectFails(c) \/ StopConsumer(c)
      PROVE  UNCHANGED storeVars
    BY <1>3 DEF Consume, Fetch, FinishHandle, Reject, RejectFails, Ack, Nak, StopConsumer,
            admissionVars
<1>4. CASE UNCHANGED vars
    BY <1>4 DEF vars, admissionVars
<1> QED BY <1>1, <1>2, <1>3, <1>4 DEF Next

(* The key of a job is bound to it, and a key is bound to a job that       *)
(* exists: what makes OneBuildPerKey inductive.                            *)
Keyed ==
    /\ \A b \in Builds : jobKey[b] # None => boundTo[jobKey[b]] = b
    /\ \A k \in Keys : boundTo[k] # None => Exists(boundTo[k])

(* Jobs and bindings stay.                                                 *)
Kept ==
    /\ \A b \in Builds : Exists(b) => job'[b] # "absent"
    /\ \A k \in Keys : boundTo[k] # None => boundTo'[k] = boundTo[k]

(* Store keeps Keyed: the key was free or bound to the same build.         *)
LEMMA Storing ==
    ASSUME TypeOK, Keyed, NEW c \in Callers,
           Asks(c), ~ Conflicts(asked[c]), Store(asked[c])
    PROVE  /\ Keyed' /\ Kept
           /\ job'[asked[c].build] # "absent"
           /\ boundTo' = [boundTo EXCEPT ![asked[c].key] = asked[c].build]
<1> DEFINE k == asked[c].key
           b == asked[c].build
<1>1. k \in Keys /\ b \in Builds
    BY DEF Asks, TypeOK, AdmissionTypeOK
<1>2. boundTo[k] \in {None, b}
    BY DEF Conflicts
<1>3. /\ job' = [job EXCEPT ![b] = IF @ = "absent" THEN "open" ELSE @]
      /\ jobKey' = [jobKey EXCEPT ![b] = IF @ = None THEN k ELSE @]
      /\ boundTo' = [boundTo EXCEPT ![k] = b]
    BY DEF Store
<1>4. b # None /\ k # None
    BY <1>1, AdmissionAssumption
<1> HIDE DEF k, b
<1>5. Kept /\ job'[b] # "absent"
    BY <1>1, <1>2, <1>3 DEF Kept, Exists, TypeOK, AdmissionTypeOK
<1>6. ASSUME NEW d \in Builds, jobKey'[d] # None
      PROVE  boundTo'[jobKey'[d]] = d
    <2>1. CASE d = b /\ jobKey[b] = None
        BY <1>1, <1>3, <2>1 DEF TypeOK, AdmissionTypeOK
    <2>2. CASE d # b \/ jobKey[b] # None
        <3>1. jobKey'[d] = jobKey[d]
            BY <1>1, <1>3, <2>2 DEF TypeOK, AdmissionTypeOK
        <3>2. boundTo[jobKey[d]] = d /\ jobKey[d] \in Keys
            BY <1>6, <3>1 DEF Keyed, TypeOK, AdmissionTypeOK
        <3>3. d # None
            BY AdmissionAssumption
        <3> QED BY <3>1, <3>2, <3>3, <1>5 DEF Kept
    <2> QED BY <2>1, <2>2
<1>7. ASSUME NEW i \in Keys, boundTo'[i] # None
      PROVE  job'[boundTo'[i]] # "absent"
    <2>1. CASE i = k
        BY <1>1, <1>3, <1>5, <2>1 DEF TypeOK, AdmissionTypeOK
    <2>2. CASE i # k
        <3>1. boundTo'[i] = boundTo[i]
            BY <1>3, <2>2 DEF TypeOK, AdmissionTypeOK
        <3>2. Exists(boundTo[i]) /\ boundTo[i] \in Builds
            BY <1>7, <3>1 DEF Keyed, TypeOK, AdmissionTypeOK
        <3> QED BY <1>5, <3>1, <3>2 DEF Kept
    <2> QED BY <2>1, <2>2
<1>8. Keyed'
    BY <1>6, <1>7 DEF Keyed, Exists
<1> QED BY <1>3, <1>5, <1>8 DEF k, b

(* So does every step.                                                     *)
LEMMA KeyedStep ==
    ASSUME TypeOK, Keyed, [Next]_vars
    PROVE  Keyed' /\ Kept
<1>1. CASE UNCHANGED storeVars
    BY <1>1 DEF Keyed, Kept, Exists, storeVars
<1>2. ASSUME NEW b \in Builds, EndJob(b)
      PROVE  Keyed' /\ Kept
    BY <1>2 DEF EndJob, Keyed, Kept, Exists, TypeOK, AdmissionTypeOK
<1> QED BY <1>1, <1>2, Storing, StoreSteps

(* A key starts at most one build.                                         *)
THEOREM KeysStartOneBuild == Spec => []OneBuildPerKey
<1>1. Init => Keyed
    BY DEF Init, AdmissionInit, Keyed
<1>2. TypeOK /\ Keyed /\ [Next]_vars => Keyed'
    BY KeyedStep
<1>3. Keyed => OneBuildPerKey
    BY DEF Keyed, OneBuildPerKey
<1> QED BY <1>1, <1>2, <1>3, Typing, PTL DEF Spec

-----------------------------------------------------------------------------

(* The quotas need the pending jobs to be finitely many: there are none at *)
(* the start, and a step adds at most one.                                 *)
Quotas == IsFiniteSet(PendingJobs(Snapshots)) /\ PendingWithinQuota

(* A set that loses elements keeps its bound.                              *)
LEMMA Shrinking ==
    ASSUME NEW S, IsFiniteSet(S), NEW T, T \subseteq S, NEW n \in Nat, Cardinality(S) <= n
    PROVE  IsFiniteSet(T) /\ Cardinality(T) <= n
<1>1. IsFiniteSet(T) /\ Cardinality(T) <= Cardinality(S)
    BY FS_Subset
<1>2. Cardinality(S) \in Nat /\ Cardinality(T) \in Nat
    BY <1>1, FS_CardinalityType
<1> QED BY <1>1, <1>2

(* A set that gains an element stays within a bound it has not reached.    *)
LEMMA Growing ==
    ASSUME NEW S, IsFiniteSet(S), NEW x, NEW T, T \subseteq S \cup {x},
           NEW n \in Nat, Cardinality(S) < n
    PROVE  IsFiniteSet(T) /\ Cardinality(T) <= n
<1>1. /\ IsFiniteSet(S \cup {x})
      /\ Cardinality(S \cup {x}) = IF x \in S THEN Cardinality(S) ELSE Cardinality(S) + 1
    BY FS_AddElement
<1>2. Cardinality(S) \in Nat
    BY FS_CardinalityType
<1>3. Cardinality(S \cup {x}) <= n
    BY <1>1, <1>2
<1> QED BY <1>1, <1>3, Shrinking

(* Each step keeps the quotas.                                             *)
LEMMA QuotaStep ==
    ASSUME TypeOK, Quotas, [Next]_vars
    PROVE  Quotas'
<1> DEFINE all == PendingJobs(Snapshots)
           mates(t) == {s \in Snapshots : TenantOf[s] = t}
           of(t) == PendingJobs(mates(t))
<1> USE AdmissionAssumption DEF TypeOK, AdmissionTypeOK
<1>1. /\ IsFiniteSet(all) /\ Cardinality(all) <= MaxPendingGlobal
      /\ \A t \in Tenants : Cardinality(of(t)) <= MaxPendingPerTenant
    BY DEF Quotas, PendingWithinQuota
<1>2. \A t \in Tenants : of(t) \subseteq all
    BY DEF PendingJobs
<1>3. \A t \in Tenants : IsFiniteSet(of(t))
    BY <1>1, <1>2, FS_Subset
<1>4. MaxPendingGlobal \in Nat /\ MaxPendingPerTenant \in Nat
    OBVIOUS
<1>5. SUFFICES /\ IsFiniteSet(all') /\ Cardinality(all') <= MaxPendingGlobal
               /\ \A t \in Tenants : Cardinality(of(t)') <= MaxPendingPerTenant
    BY DEF Quotas, PendingWithinQuota
<1>6. CASE all' \subseteq all /\ \A t \in Tenants : of(t)' \subseteq of(t)
    <2> HIDE DEF all, of
    <2> QED BY <1>1, <1>3, <1>4, <1>6, Shrinking
<1>7. CASE \E c \in Callers : Asks(c) /\ HasRoom(asked[c]) /\ Store(asked[c])
    <2> PICK c \in Callers : Asks(c) /\ HasRoom(asked[c]) /\ Store(asked[c])
        BY <1>7
    <2> DEFINE b == asked[c].build
               home == TenantOf[b[1]]
    <2>1. b \in Builds /\ b[1] \in Snapshots /\ home \in Tenants
        BY DEF Asks, Builds
    <2>2. job' = [job EXCEPT ![b] = IF @ = "absent" THEN "open" ELSE @]
        BY DEF Store
    <2>3. all' \subseteq all \cup {b}
        BY <2>2 DEF PendingJobs
    <2>4. \A t \in Tenants : of(t)' \subseteq of(t) \cup (IF t = home THEN {b} ELSE {})
        BY <2>1, <2>2 DEF PendingJobs
    <2>5. CASE Exists(b)
        <3>1. job' = job
            BY <2>1, <2>2, <2>5 DEF Exists
        <3> QED BY <1>6, <3>1 DEF PendingJobs
    <2>6. CASE ~ Exists(b)
        <3>1. Cardinality(all) < MaxPendingGlobal
            BY <2>6 DEF HasRoom
        <3>2. Cardinality(of(home)) < MaxPendingPerTenant
            BY <2>6 DEF HasRoom
        <3> HIDE DEF all, of, home, b
        <3>3. IsFiniteSet(all') /\ Cardinality(all') <= MaxPendingGlobal
            BY <1>1, <1>4, <2>3, <3>1, Growing
        <3>4. ASSUME NEW t \in Tenants PROVE Cardinality(of(t)') <= MaxPendingPerTenant
            <4>1. CASE t = home
                BY <1>3, <1>4, <2>4, <3>2, <4>1, Growing
            <4>2. CASE t # home
                BY <1>1, <1>3, <1>4, <2>4, <4>2, Shrinking
            <4> QED BY <4>1, <4>2
        <3> QED BY <3>3, <3>4
    <2> QED BY <2>5, <2>6
<1>8. CASE UNCHANGED storeVars
    BY <1>6, <1>8 DEF storeVars, PendingJobs
<1>9. CASE \E b \in Builds : EndJob(b)
    BY <1>6, <1>9 DEF EndJob, PendingJobs
<1> QED BY <1>7, <1>8, <1>9, StoreSteps

(* The quotas hold for any number of callers and releases.                 *)
THEOREM QuotasHold == Spec => []PendingWithinQuota
<1>1. Init => Quotas
    <2> SUFFICES ASSUME Init PROVE Quotas
        OBVIOUS
    <2>1. \A S \in SUBSET Snapshots : PendingJobs(S) = {}
        BY DEF Init, AdmissionInit, PendingJobs
    <2>2. PendingJobs(Snapshots) = {}
        BY <2>1
    <2>3. \A t \in Tenants : PendingJobs({s \in Snapshots : TenantOf[s] = t}) = {}
        BY <2>1
    <2> QED BY <2>2, <2>3, FS_EmptySet, AdmissionAssumption DEF Quotas, PendingWithinQuota
<1>2. TypeOK /\ Quotas /\ [Next]_vars => Quotas'
    BY QuotaStep
<1>3. Quotas => PendingWithinQuota
    BY DEF Quotas
<1> QED BY <1>1, <1>2, <1>3, Typing, PTL DEF Spec

-----------------------------------------------------------------------------

(* A call has an answer only while its caller has asked, and it is told    *)
(* that a build is accepted only if its job exists.                        *)
Called == \A c \in Callers :
    /\ answer[c] # "none" => asked[c] # None
    /\ answer[c] = "accepted" => Exists(asked[c].build)

(* What a step does to a call: nothing, a step of its own, or it begins or *)
(* is over.                                                                *)
LEMMA CallSteps ==
    ASSUME TypeOK, [Next]_vars, NEW c \in Callers
    PROVE  \/ asked'[c] = asked[c] /\ answer'[c] = answer[c]
           \/ EnqueueStep(c) \/ EnqueueFails(c)
           \/ answer'[c] = "none"
<1> USE DEF TypeOK, AdmissionTypeOK
<1>1. CASE OutboxNext /\ OutboxAlone
    BY <1>1 DEF OutboxAlone, admissionVars, callVars
<1>2. CASE AdmissionNext /\ AdmissionAlone
    <2>1. ASSUME NEW u \in Callers, EnqueueStep(u) \/ EnqueueFails(u), u # c
          PROVE  asked'[c] = asked[c] /\ answer'[c] = answer[c]
        BY <2>1 DEF EnqueueStep, Enqueue, Recover, EnqueueFails, Answer
    <2>2. ASSUME NEW u \in Clients, Submit(u) \/ Return(u)
          PROVE  (asked'[c] = asked[c] /\ answer'[c] = answer[c]) \/ answer'[c] = "none"
        BY <2>2 DEF Submit, Return, Ask, Forget, Answer
    <2>3. ASSUME NEW b \in Builds, EndJob(b)
          PROVE  asked'[c] = asked[c] /\ answer'[c] = answer[c]
        BY <2>3 DEF EndJob, callVars
    <2> QED BY <1>2, <2>1, <2>2, <2>3 DEF AdmissionNext
<1>3. ASSUME NEW d \in Consumers, Consume(d) \/ RejectFails(d) \/ StopConsumer(d)
      PROVE  (asked'[c] = asked[c] /\ answer'[c] = answer[c]) \/ answer'[c] = "none"
    <2> USE DEF admissionVars, callVars
    <2>1. CASE Fetch(d)
        BY <1>3, <2>1 DEF Fetch, Ask, Answer
    <2>2. CASE FinishHandle(d) \/ StopConsumer(d)
        BY <1>3, <2>2 DEF FinishHandle, StopConsumer, Forget, Answer
    <2>3. CASE Reject(d) \/ RejectFails(d) \/ Ack(d) \/ Nak(d)
        BY <1>3, <2>3 DEF Reject, RejectFails, Ack, Nak
    <2> QED BY <1>3, <2>1, <2>2, <2>3 DEF Consume
<1>4. CASE UNCHANGED vars
    BY <1>4 DEF vars, admissionVars, callVars
<1> QED BY <1>1, <1>2, <1>3, <1>4 DEF Next

(* Each step keeps Called; jobs stay, so an acceptance stays true.         *)
LEMMA CalledStep ==
    ASSUME TypeOK, Keyed, Called, [Next]_vars
    PROVE  Called'
<1> SUFFICES ASSUME NEW c \in Callers
             PROVE  /\ answer'[c] # "none" => asked'[c] # None
                    /\ answer'[c] = "accepted" => job'[asked'[c].build] # "absent"
    BY DEF Called, Exists
<1> USE DEF TypeOK, AdmissionTypeOK, Called
<1>1. Kept
    BY KeyedStep
<1>2. asked[c] # None => asked[c].build \in Builds
    OBVIOUS
<1>3. CASE asked'[c] = asked[c] /\ answer'[c] = answer[c]
    BY <1>1, <1>2, <1>3 DEF Kept
<1>4. CASE Enqueue(c)
    <2>1. asked'[c] = asked[c] /\ asked[c] # None
        BY <1>4 DEF Enqueue, Asks
    <2>2. answer'[c] = "accepted" => Asks(c) /\ ~ Conflicts(asked[c]) /\ Store(asked[c])
        BY <1>4 DEF Enqueue, Answer
    <2> QED BY <2>1, <2>2, Storing
<1>5. CASE EnqueueFails(c)
    BY <1>5 DEF EnqueueFails, Asks, Answer
<1>6. CASE Recover(c)
    BY <1>6 DEF Recover, Answer, Exists, storeVars
<1>7. CASE answer'[c] = "none"
    BY <1>7
<1> QED BY <1>3, <1>4, <1>5, <1>6, <1>7, CallSteps DEF EnqueueStep

(* Whoever is told that a build is accepted finds its job.                 *)
THEOREM AcceptedFindTheirJob == Spec => []AcceptedIsStored
<1>1. Init => Keyed /\ Called
    BY DEF Init, AdmissionInit, Keyed, Called
<1>2. TypeOK /\ Keyed /\ Called /\ [Next]_vars => Keyed' /\ Called'
    BY KeyedStep, CalledStep
<1>3. Called => AcceptedIsStored
    BY DEF Called, AcceptedIsStored
<1> QED BY <1>1, <1>2, <1>3, Typing, PTL DEF Spec

-----------------------------------------------------------------------------

(* A consumer asks for what its message says, clients never use the key of *)
(* an event, hence the key of an event is bound to a build of its snapshot *)
(* even if it was another consumer that bound it.                          *)
AskedFor(k, b, e) == k = e /\ b[1] = SnapshotOf[e] /\ NamesParserResult(e) /\ e \notin failedParses

Bound ==
    /\ \A u \in Clients : asked[u] # None => asked[u].key \notin Events
    /\ \A c \in Consumers :
          asked[c] # None => AskedFor(asked[c].key, asked[c].build, message[c])
    /\ \A e \in Events : boundTo[e] # None => boundTo[e][1] = SnapshotOf[e]

(* What a consumer is about to acknowledge is settled, what it is about to *)
(* reject is a completed parse, whose key is bound if it names its result. *)
Refusable(e) == e \notin failedParses /\ (NamesParserResult(e) => boundTo[e] # None)

Decided == \A c \in Consumers :
    /\ answer[c] = "conflict" => boundTo[message[c]] # None
    /\ verdict[c] = "ack" => Settled(message[c])
    /\ verdict[c] = "reject" => Refusable(message[c])

(* Which parses failed does not change, and records of rejections stay.    *)
LEMMA RejectionsStay ==
    ASSUME [Next]_vars
    PROVE  failedParses' = failedParses /\ rejected \subseteq rejected'
<1>1. CASE OutboxNext /\ OutboxAlone
    BY <1>1 DEF OutboxAlone
<1>2. CASE AdmissionNext /\ AdmissionAlone
    BY <1>2 DEF AdmissionAlone
<1>3. ASSUME NEW c \in Consumers, Consume(c) \/ RejectFails(c) \/ StopConsumer(c)
      PROVE  failedParses' = failedParses /\ rejected \subseteq rejected'
    BY <1>3 DEF Consume, Fetch, FinishHandle, Reject, RejectFails, Ack, Nak, StopConsumer
<1>4. CASE UNCHANGED vars
    BY <1>4 DEF vars
<1> QED BY <1>1, <1>2, <1>3, <1>4 DEF Next

(* So a settled event stays settled.                                       *)
LEMMA SettledForGood ==
    ASSUME TypeOK, Keyed, [Next]_vars, NEW e \in Events, Settled(e)
    PROVE  Settled(e)'
<1>1. ASSUME NEW v \in Versions, Exists(<<SnapshotOf[e], v>>)
      PROVE  Exists(<<SnapshotOf[e], v>>)'
    <2>1. <<SnapshotOf[e], v>> \in Builds
        BY ConsumerAssumption DEF Builds
    <2> QED BY <1>1, <2>1, KeyedStep DEF Kept, Exists
<1> QED BY <1>1, RejectionsStay DEF Settled, NamesParserResult

(* An event leaves the stream by an acknowledgement only.                  *)
LEMMA StreamSteps ==
    ASSUME TypeOK, [Next]_vars, NEW e \in sent' \ stream', ~ (e \in sent \ stream)
    PROVE  \E c \in Consumers : Ack(c) /\ e = message[c]
<1> USE DEF outboxVars
<1>1. CASE OutboxNext /\ OutboxAlone
    BY <1>1 DEF OutboxNext, Dispatch, Read, Publish, Deliver, Stored, Mark, MarkUnanswered,
                CrashDispatcher, BecomeDue, Expire
<1>2. CASE AdmissionNext /\ AdmissionAlone
    BY <1>2 DEF AdmissionAlone
<1>3. ASSUME NEW c \in Consumers, Consume(c) \/ RejectFails(c) \/ StopConsumer(c)
      PROVE  Ack(c) /\ e = message[c]
    BY <1>3 DEF Consume, Fetch, FinishHandle, Reject, RejectFails, Ack, Nak, StopConsumer
<1>4. CASE UNCHANGED vars
    BY <1>4 DEF vars
<1> QED BY <1>1, <1>2, <1>3, <1>4 DEF Next

(* Clients ask in Submit and stop asking in Return.                        *)
LEMMA ClientKeys ==
    ASSUME TypeOK, Bound, [Next]_vars, NEW u \in Clients, asked'[u] # None
    PROVE  asked'[u].key \notin Events
<1> USE DEF TypeOK, AdmissionTypeOK, Callers
<1>1. CASE asked'[u] = asked[u]
    BY <1>1 DEF Bound
<1>2. CASE Submit(u)
    <2>1. PICK r \in Requests, v \in Versions :
             asked' = [asked EXCEPT ![u] = [key |-> r.key, build |-> <<r.snapshot, v>>]]
        BY <1>2 DEF Submit, Ask
    <2> QED BY <2>1, ConsumerAssumption
<1>3. CASE OutboxNext /\ OutboxAlone
    BY <1>1, <1>3 DEF OutboxAlone, admissionVars, callVars
<1>4. CASE AdmissionNext /\ AdmissionAlone
    <2>1. ASSUME NEW c \in Callers, EnqueueStep(c) \/ EnqueueFails(c)
          PROVE  asked' = asked
        BY <2>1 DEF EnqueueStep, Enqueue, Recover, EnqueueFails
    <2>2. ASSUME NEW c \in Clients, Submit(c), c # u
          PROVE  asked'[u] = asked[u]
        BY <2>2 DEF Submit, Ask
    <2>3. ASSUME NEW c \in Clients, Return(c)
          PROVE  asked'[u] = asked[u]
        BY <2>3 DEF Return, Forget
    <2>4. ASSUME NEW b \in Builds, EndJob(b)
          PROVE  asked' = asked
        BY <2>4 DEF EndJob, callVars
    <2> QED BY <1>1, <1>2, <1>4, <2>1, <2>2, <2>3, <2>4 DEF AdmissionNext
<1>5. ASSUME NEW c \in Consumers, Consume(c) \/ RejectFails(c) \/ StopConsumer(c)
      PROVE  asked'[u] = asked[u]
    <2>1. c # u
        BY ConsumerAssumption
    <2> QED BY <1>5, <2>1 DEF Consume, Fetch, FinishHandle, Reject, RejectFails, Ack, Nak,
            StopConsumer, Ask, Forget, admissionVars, callVars
<1>6. CASE UNCHANGED vars
    BY <1>1, <1>6 DEF vars, admissionVars, callVars
<1> QED BY <1>1, <1>3, <1>4, <1>5, <1>6 DEF Next

(* What a consumer asks for follows from its message.                      *)
LEMMA ConsumerKeys ==
    ASSUME TypeOK, Busy, Bound, [Next]_vars, NEW c \in Consumers, asked'[c] # None
    PROVE  AskedFor(asked'[c].key, asked'[c].build, message'[c])
<1> USE DEF TypeOK, AdmissionTypeOK, Callers
<1>2. CASE asked'[c] = asked[c] /\ message'[c] = message[c]
    BY <1>2 DEF Bound
<1>3. CASE Fetch(c)
    <2>1. asked[c] = None
        BY <1>3 DEF Fetch, Busy
    <2>2. PICK e \in stream :
             /\ message' = [message EXCEPT ![c] = e]
             /\ UNCHANGED callVars \/ (e \notin failedParses /\ NamesParserResult(e)
                                       /\ Ask(c, e, SnapshotOf[e]))
        BY <1>3 DEF Fetch
    <2>3. e \notin failedParses /\ NamesParserResult(e) /\ Ask(c, e, SnapshotOf[e])
        BY <2>1, <2>2 DEF callVars
    <2>4. PICK v \in Versions :
             asked' = [asked EXCEPT ![c] = [key |-> e, build |-> <<SnapshotOf[e], v>>]]
        BY <2>3 DEF Ask
    <2>5. message'[c] = e /\ asked'[c] = [key |-> e, build |-> <<SnapshotOf[e], v>>]
        BY <2>2, <2>4
    <2> QED BY <2>3, <2>5 DEF AskedFor
<1>4. CASE (EnqueueStep(c) \/ EnqueueFails(c)) /\ UNCHANGED handlerVars
    BY <1>2, <1>4 DEF EnqueueStep, Enqueue, Recover, EnqueueFails, handlerVars
<1>5. CASE FinishHandle(c) \/ StopConsumer(c)
    BY <1>5 DEF FinishHandle, StopConsumer, Forget
<1>6. CASE Reject(c) \/ RejectFails(c)
    BY <1>2, <1>6 DEF Reject, RejectFails, admissionVars, callVars
<1>7. CASE Ack(c) \/ Nak(c)
    <2>1. asked[c] = None
        BY <1>7 DEF Ack, Nak, Busy
    <2> QED BY <1>7, <2>1 DEF Ack, Nak, admissionVars, callVars
<1> QED BY <1>2, <1>3, <1>4, <1>5, <1>6, <1>7, ConsumerSteps DEF Consume, Same

(* Each step keeps Bound.                                                  *)
LEMMA BoundStep ==
    ASSUME TypeOK, Busy, Bound, [Next]_vars
    PROVE  Bound'
<1>1. \A c \in Consumers :
         asked'[c] # None => AskedFor(asked'[c].key, asked'[c].build, message'[c])
    BY ConsumerKeys
<1>2. ASSUME NEW e \in Events, boundTo'[e] # None
      PROVE  boundTo'[e][1] = SnapshotOf[e]
    <2>1. CASE boundTo'[e] = boundTo[e]
        BY <1>2, <2>1 DEF Bound
    <2>2. CASE boundTo'[e] # boundTo[e]
        <3>1. PICK c \in Callers : Asks(c) /\ Store(asked[c])
            BY <2>2, StoreSteps DEF storeVars, EndJob
        <3>2. boundTo' = [boundTo EXCEPT ![asked[c].key] = asked[c].build]
            BY <3>1 DEF Store
        <3>3. asked[c].key = e /\ boundTo'[e] = asked[c].build
            BY <2>2, <3>2, ConsumerAssumption DEF TypeOK, AdmissionTypeOK
        <3>4. c \in Consumers /\ asked[c] # None
            BY <3>1, <3>3 DEF Asks, Bound, Callers
        <3> QED BY <3>3, <3>4 DEF Bound, AskedFor
    <2> QED BY <2>1, <2>2
<1>3. \A u \in Clients : asked'[u] # None => asked'[u].key \notin Events
    BY ClientKeys
<1>4. failedParses' = failedParses
    BY RejectionsStay
<1> QED BY <1>1, <1>2, <1>3, <1>4 DEF Bound, AskedFor, NamesParserResult

(* An answer that a build is accepted settles the message.                 *)
LEMMA AcceptanceSettles ==
    ASSUME TypeOK, Called, Bound, NEW c \in Consumers, answer[c] = "accepted"
    PROVE  Settled(message[c])
<1>1. asked[c] # None /\ Exists(asked[c].build) /\ asked[c].build \in Builds
    BY DEF Called, Callers, TypeOK, AdmissionTypeOK
<1>2. NamesParserResult(message[c]) /\ asked[c].build[1] = SnapshotOf[message[c]]
    BY <1>1 DEF Bound, AskedFor
<1>3. PICK v \in Versions : asked[c].build = <<SnapshotOf[message[c]], v>>
    BY <1>1, <1>2 DEF Builds
<1> QED BY <1>1, <1>2, <1>3 DEF Settled

(* So does a rejection.                                                    *)
LEMMA RejectionSettles ==
    ASSUME TypeOK, Keyed, Bound, NEW e \in Events, Refusable(e), e \in rejected'
    PROVE  \/ NamesParserResult(e) /\ \E v \in Versions : Exists(<<SnapshotOf[e], v>>)
           \/ ~ NamesParserResult(e) /\ e \in rejected'
<1> SUFFICES ASSUME boundTo[e] # None
             PROVE  \E v \in Versions : Exists(<<SnapshotOf[e], v>>)
    BY DEF Refusable
<1>1. /\ Exists(boundTo[e]) /\ boundTo[e] \in Builds
      /\ boundTo[e][1] = SnapshotOf[e]
    BY ConsumerAssumption DEF Keyed, Bound, TypeOK, AdmissionTypeOK
<1>2. PICK v \in Versions : boundTo[e] = <<SnapshotOf[e], v>>
    BY <1>1 DEF Builds
<1> QED BY <1>1, <1>2

(* Each step keeps Decided: what settles an event stays.                   *)
LEMMA DecidedStep ==
    ASSUME TypeOK, Busy, Keyed, Called, Bound, Decided, [Next]_vars
    PROVE  Decided'
<1> SUFFICES ASSUME NEW c \in Consumers, NEW e \in Events, message'[c] = e
             PROVE  /\ answer'[c] = "conflict" => boundTo'[e] # None
                    /\ verdict'[c] = "ack" => Settled(e)'
                    /\ verdict'[c] = "reject" => Refusable(e)'
    <2>1. \A c \in Consumers : message'[c] \notin Events =>
             answer'[c] = "none" /\ verdict'[c] = "none"
        BY BusyStep, TypeStep DEF Busy, TypeOK
    <2> QED BY <2>1 DEF Decided, Settled, Refusable
<1> USE DEF TypeOK, AdmissionTypeOK, Callers
<1>1. e \in Keys
    BY ConsumerAssumption
<1>2. /\ boundTo[e] # None => boundTo'[e] # None
      /\ Settled(e) => Settled(e)'
      /\ Refusable(e) => Refusable(e)'
    BY <1>1, KeyedStep, SettledForGood, RejectionsStay
    DEF Kept, Refusable, NamesParserResult
<1>3. CASE Same(c)
    BY <1>2, <1>3 DEF Same, Decided
<1>4. CASE (EnqueueStep(c) \/ EnqueueFails(c)) /\ UNCHANGED handlerVars
    <2>1. message[c] = e /\ verdict'[c] = verdict[c] /\ asked[c] # None
        BY <1>4 DEF EnqueueStep, Enqueue, EnqueueFails, Recover, Asks, Busy, handlerVars
    <2>2. answer'[c] = "conflict" => Conflicts(asked[c])
        BY <1>4 DEF EnqueueStep, Enqueue, EnqueueFails, Recover, Asks, Answer
    <2>3. asked[c].key = e
        BY <2>1 DEF Bound, AskedFor
    <2> QED BY <1>2, <2>1, <2>2, <2>3 DEF Conflicts, Decided
<1>5. CASE Fetch(c)
    <2>1. asked[c] = None /\ verdict[c] = "none" /\ answer[c] = "none"
        BY <1>5 DEF Fetch, Busy
    <2>2. answer'[c] = "none"
        BY <1>5, <2>1 DEF Fetch, Ask, Answer, callVars
    <2>3. /\ verdict'[c] = "ack" => e \in failedParses
          /\ verdict'[c] = "reject" => e \notin failedParses /\ ~ NamesParserResult(e)
        BY <1>5, <2>1 DEF Fetch, Decide
    <2> QED BY <1>2, <2>2, <2>3 DEF Settled, Refusable
<1>6. CASE FinishHandle(c)
    <2>1. message[c] = e /\ answer'[c] = "none" /\ asked[c] # None
        BY <1>6 DEF FinishHandle, Forget, Answer, Busy
    <2>2. /\ verdict'[c] = "ack" => answer[c] = "accepted"
          /\ verdict'[c] = "reject" => answer[c] = "conflict"
        BY <1>6 DEF FinishHandle, Decide
    <2>3. answer[c] = "conflict" => Refusable(e)
        BY <2>1 DEF Decided, Bound, AskedFor, Refusable
    <2> QED BY <1>2, <2>1, <2>2, <2>3, AcceptanceSettles
<1>7. CASE Reject(c)
    <2>1. message[c] = e /\ answer'[c] = answer[c] /\ verdict'[c] = "ack"
        BY <1>7 DEF Reject, Decide, admissionVars, callVars
    <2>2. Refusable(e) /\ e \in rejected'
        BY <1>7, <2>1 DEF Reject, Decided
    <2>3. Settled(e)'
        <3>1. ASSUME NEW v \in Versions, Exists(<<SnapshotOf[e], v>>)
              PROVE  Exists(<<SnapshotOf[e], v>>)'
            BY <1>7, <3>1 DEF Reject, Exists, admissionVars, storeVars
        <3> QED BY <2>2, <3>1, RejectionSettles DEF Settled, NamesParserResult
    <2> QED BY <1>2, <2>1, <2>3 DEF Decided
<1>8. CASE RejectFails(c)
    BY <1>2, <1>8 DEF RejectFails, Decide, Decided, admissionVars, callVars
<1>9. CASE Ack(c) \/ Nak(c) \/ StopConsumer(c)
    BY <1>9, ConsumerAssumption DEF Ack, Nak, StopConsumer, Leave
<1> QED BY <1>3, <1>4, <1>5, <1>6, <1>7, <1>8, <1>9, ConsumerSteps DEF Consume

(* No event is lost between the stream and the jobs.                       *)
THEOREM NothingGetsLost == Spec => []NothingIsLost
<1> DEFINE IInv == Keyed /\ Called /\ Bound /\ Decided /\ NothingIsLost
<1>1. Init => IInv
    BY ConsumerAssumption
    DEF Init, OutboxInit, AdmissionInit, Keyed, Called, Bound, Decided, NothingIsLost, Callers
<1>2. TypeOK /\ Busy /\ IInv /\ [Next]_vars => IInv'
    <2> SUFFICES ASSUME TypeOK, Busy, IInv, [Next]_vars PROVE NothingIsLost'
        BY KeyedStep, CalledStep, BoundStep, DecidedStep
    <2> SUFFICES ASSUME NEW e \in sent' \ stream' PROVE Settled(e)'
        BY DEF NothingIsLost
    <2>1. CASE e \in sent \ stream
        BY <2>1, SettledForGood DEF NothingIsLost, TypeOK, OutboxTypeOK
    <2>2. ASSUME NEW c \in Consumers, Ack(c), e = message[c]
          PROVE  Settled(e)'
        <3>1. e \in Events /\ Settled(e)
            BY <2>2, ConsumerAssumption DEF Ack, Decided, Busy, TypeOK
        <3> QED BY <3>1, SettledForGood
    <2> QED BY <2>1, <2>2, StreamSteps
<1> QED BY <1>1, <1>2, Typing, PTL DEF Spec

-----------------------------------------------------------------------------

(* A success that is about to be marked was sent.                          *)
Sent == \A d \in Dispatchers : mark[d] # None /\ mark[d].ok => mark[d].event \in sent

(* The counts that dispatchers have read are not ahead of the rows.        *)
Counted == \A d \in Dispatchers :
    /\ \A r \in batch[d] : r.count <= count[r.event]
    /\ mark[d] # None => mark[d].count <= count[mark[d].event]

(* The invariant of the dispatchers.                                       *)
OutboxInv == Sent /\ Counted /\ FinalRowsAreEarned

(* Admission and consumers leave rows and dispatchers alone.               *)
LEMMA OutboxSteps ==
    ASSUME [Next]_vars
    PROVE  OutboxNext \/ UNCHANGED <<rowVars, batch, mark, sent>>
<1> USE DEF outboxVars
<1>1. CASE AdmissionNext /\ AdmissionAlone
    BY <1>1 DEF AdmissionAlone
<1>2. ASSUME NEW c \in Consumers, Consume(c) \/ RejectFails(c) \/ StopConsumer(c)
      PROVE  UNCHANGED <<rowVars, batch, mark, sent>>
    BY <1>2 DEF Consume, Fetch, FinishHandle, Reject, RejectFails, Ack, Nak, StopConsumer
<1>3. CASE UNCHANGED vars
    BY <1>3 DEF vars
<1> QED BY <1>1, <1>2, <1>3 DEF Next

(* Each step of a dispatcher keeps their invariant.                        *)
LEMMA OutboxInvStep ==
    ASSUME TypeOK, OutboxInv, [Next]_vars
    PROVE  OutboxInv'
<1> USE OutboxAssumption DEF TypeOK, OutboxTypeOK, OutboxInv, rowVars, Records, Marks,
        Sent, Counted, FinalRowsAreEarned
<1>1. ASSUME NEW d \in Dispatchers, Read(d) PROVE OutboxInv'
    <2>1. UNCHANGED <<rowVars, mark, sent>>
        BY <1>1 DEF Read
    <2>2. PICK S \in SUBSET PendingRows :
             batch' = [batch EXCEPT ![d] = {[event |-> e, count |-> count[e]] : e \in S}]
        BY <1>1 DEF Read
    <2>3. \A r \in batch'[d] : r.count <= count[r.event]
        BY <2>2 DEF PendingRows
    <2> QED BY <2>1, <2>2, <2>3
<1>2. ASSUME NEW d \in Dispatchers, Publish(d) PROVE OutboxInv'
    <2>1. PICK r \in batch[d], ok \in BOOLEAN :
             /\ Deliver(r.event, ok)
             /\ batch' = [batch EXCEPT ![d] = @ \ {r}]
             /\ mark' = [mark EXCEPT ![d] = [event |-> r.event, count |-> r.count, ok |-> ok]]
        BY <1>2 DEF Publish
    <2>2. UNCHANGED rowVars /\ sent \subseteq sent' /\ (ok => r.event \in sent')
        BY <1>2, <2>1 DEF Publish, Deliver, Stored
    <2>3. Sent' /\ (published \subseteq sent)'
        BY <2>1, <2>2
    <2>4. Counted' /\ (\A e \in dead : count[e] >= MaxAttempts)'
        BY <2>1, <2>2
    <2> QED BY <2>3, <2>4
<1>3. ASSUME NEW d \in Dispatchers, Mark(d) PROVE OutboxInv'
    <2>1. /\ UNCHANGED <<batch, sent>> /\ mark[d] \in Marks
          /\ mark' = [mark EXCEPT ![d] = None]
        BY <1>3 DEF Mark
    <2>2. CASE UNCHANGED rowVars
        BY <2>1, <2>2
    <2>3. CASE mark[d].ok /\ SetPublished(mark[d].event)
        BY <1>3, <2>1, <2>3 DEF Mark, SetPublished
    <2>4. CASE SetFailed(mark[d])
        BY <1>3, <2>1, <2>4 DEF Mark, SetFailed
    <2> QED BY <1>3, <2>2, <2>3, <2>4 DEF Mark
<1>4. ASSUME NEW d \in Dispatchers, MarkUnanswered(d) \/ CrashDispatcher(d) PROVE OutboxInv'
    BY <1>4 DEF MarkUnanswered, CrashDispatcher
<1>5. ASSUME NEW e \in Rows, BecomeDue(e) \/ Expire(e) PROVE OutboxInv'
    BY <1>5 DEF BecomeDue, Expire
<1>6. CASE UNCHANGED <<rowVars, batch, mark, sent>>
    BY <1>6
<1> QED BY <1>1, <1>2, <1>3, <1>4, <1>5, <1>6, OutboxSteps DEF OutboxNext, Dispatch

(* It holds in every reachable state.                                      *)
LEMMA OutboxInvariant == Spec => []OutboxInv
<1>1. Init => OutboxInv
    BY DEF Init, OutboxInit, OutboxInv, Sent, Counted, FinalRowsAreEarned
<1>2. TypeOK /\ OutboxInv /\ [Next]_vars => OutboxInv'
    BY OutboxInvStep
<1> QED BY <1>1, <1>2, Typing, PTL DEF Spec

(* A row is marked published only after JetStream took the event, and is   *)
(* given up only after MaxAttempts failures, whatever counts the           *)
(* dispatchers have read.                                                  *)
THEOREM MarksAreTrue == Spec => []FinalRowsAreEarned
<1>1. OutboxInv => FinalRowsAreEarned
    BY DEF OutboxInv
<1> QED BY <1>1, OutboxInvariant, PTL
=============================================================================
