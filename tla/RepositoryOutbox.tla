-------------------------- MODULE RepositoryOutbox --------------------------
(***************************************************************************)
(* The delivery of parse.completed and parse.failed: every worker process  *)
(* of the repository pipeline dispatches the rows of outbox_events to      *)
(* JetStream. Unlike the graph's dispatchers these claim nothing: all of   *)
(* them may work on the same rows, on counts they read some time ago.      *)
(*                                                                         *)
(* The rows are there from the start; one that is written later is one     *)
(* that becomes due later.                                                 *)
(***************************************************************************)
EXTENDS Faults, FiniteSets

CONSTANTS
    Rows,            \* event_id of the rows of outbox_events
    Events,          \* messages of the stream; other producers send some
    Dispatchers,     \* processes that call DispatchOnce
    BatchSize, MaxAttempts

ASSUME OutboxAssumption ==
    /\ Rows \subseteq Events
    /\ {BatchSize, MaxAttempts} \subseteq Nat \ {0}

VARIABLES
    rows,        \* rows that have not been deleted
    published,   \* rows with published_at
    dead,        \* rows with dead_lettered_at
    count,       \* delivery_count
    due,         \* rows whose next_attempt_at has come
    batch,       \* records each dispatcher has read and not yet published
    mark,        \* the record it has published, or failed to, but not marked
    sent,        \* events JetStream has ever stored
    stream       \* messages the graph's durable consumer has not acknowledged

rowVars == <<rows, published, dead, count, due>>
outboxVars == <<rowVars, batch, mark, sent, stream>>

Records == [event : Rows, count : Nat]
Marks == [event : Rows, count : Nat, ok : BOOLEAN]

OutboxTypeOK ==
    /\ rows \subseteq Rows
    /\ published \subseteq rows
    /\ dead \subseteq rows
    /\ count \in [Rows -> Nat]
    /\ due \subseteq rows
    /\ batch \in [Dispatchers -> SUBSET Records]
    /\ mark \in [Dispatchers -> Marks \cup {None}]
    /\ stream \subseteq sent
    /\ sent \subseteq Events

OutboxInit ==
    /\ rows = Rows
    /\ published = {}
    /\ dead = {}
    /\ count = [e \in Rows |-> 0]
    /\ due = {}
    /\ batch = [d \in Dispatchers |-> {}]
    /\ mark = [d \in Dispatchers |-> None]
    /\ sent = Events \ Rows
    /\ stream = Events \ Rows

-----------------------------------------------------------------------------

(* PendingOutbox.                                                          *)
PendingRows == due \ (published \cup dead)

Read(d) ==
    /\ batch[d] = {} /\ mark[d] = None
    /\ \E S \in SUBSET PendingRows \ {{}} :
          /\ S = PendingRows \/ Cardinality(S) = BatchSize
          /\ batch' = [batch EXCEPT ![d] = {[event |-> e, count |-> count[e]] : e \in S}]
    /\ UNCHANGED <<rowVars, mark, sent, stream, faults>>

(* JetStream stores the message, or knows its MsgID and drops it.          *)
Stored(e) ==
    /\ sent' = sent \cup {e}
    /\ \/ stream' = stream \cup {e}
       \/ e \in sent /\ UNCHANGED stream

(* An error may hide that the message was stored.                          *)
Deliver(e, ok) ==
    \/ Stored(e)
    \/ ~ ok /\ UNCHANGED <<sent, stream>>

Publish(d) ==
    /\ mark[d] = None
    /\ \E r \in batch[d], ok \in BOOLEAN :
          /\ Deliver(r.event, ok)
          /\ batch' = [batch EXCEPT ![d] = @ \ {r}]
          /\ mark' = [mark EXCEPT ![d] = [event |-> r.event, count |-> r.count, ok |-> ok]]
    /\ UNCHANGED <<rowVars, faults>>

(* MarkOutboxPublished and MarkOutboxFailed leave a published or deleted   *)
(* row alone, but neither looks at dead_lettered_at: a dead letter may be  *)
(* published after all, and a failure counted from an older reading makes  *)
(* it pending again.                                                       *)
Markable(e) == e \in rows \ published

SetPublished(e) ==
    /\ published' = published \cup {e}
    /\ count' = [count EXCEPT ![e] = @ + 1]
    /\ UNCHANGED <<rows, dead, due>>

SetFailedEarly(r) ==   \* mutant: one attempt too few
    /\ count' = [count EXCEPT ![r.event] = @ + 1]
    /\ due' = due \ {r.event}
    /\ dead' = IF r.count + 2 >= MaxAttempts THEN dead \cup {r.event} ELSE dead \ {r.event}
    /\ UNCHANGED <<rows, published>>

SetFailedForever(r) ==   \* mutant: it is never given up
    /\ count' = [count EXCEPT ![r.event] = IF @ < MaxAttempts THEN @ + 1 ELSE @]
    /\ due' = due \ {r.event}
    /\ UNCHANGED <<rows, published, dead>>

SetFailed(r) ==
    /\ count' = [count EXCEPT ![r.event] = @ + 1]
    /\ due' = due \ {r.event}
    /\ dead' = IF r.count + 1 >= MaxAttempts THEN dead \cup {r.event} ELSE dead \ {r.event}
    /\ UNCHANGED <<rows, published>>

Mark(d) ==
    /\ mark[d] # None
    /\ IF ~ Markable(mark[d].event) THEN UNCHANGED rowVars
       ELSE IF mark[d].ok THEN SetPublished(mark[d].event) ELSE SetFailed(mark[d])
    /\ mark' = [mark EXCEPT ![d] = None]
    /\ UNCHANGED <<batch, sent, stream, faults>>

(* The mark is not stored: on to the next record.                          *)
MarkUnanswered(d) ==
    /\ mark[d] # None
    /\ Fault
    /\ mark' = [mark EXCEPT ![d] = None]
    /\ UNCHANGED <<rowVars, batch, sent, stream>>

(* The process stops.                                                      *)
CrashDispatcher(d) ==
    /\ batch[d] # {} \/ mark[d] # None
    /\ Fault
    /\ batch' = [batch EXCEPT ![d] = {}]
    /\ mark' = [mark EXCEPT ![d] = None]
    /\ UNCHANGED <<rowVars, sent, stream>>

(* next_attempt_at comes.                                                  *)
BecomeDue(e) ==
    /\ e \in rows \ due
    /\ due' = due \cup {e}
    /\ UNCHANGED <<rows, published, dead, count, batch, mark, sent, stream, faults>>

(* CleanupExpired of final rows.                                           *)
Expire(e) ==
    /\ e \in published \cup dead
    /\ rows' = rows \ {e}
    /\ published' = published \ {e}
    /\ dead' = dead \ {e}
    /\ due' = due \ {e}
    /\ UNCHANGED <<count, batch, mark, sent, stream, faults>>

Dispatch(d) == Read(d) \/ Publish(d) \/ Mark(d)

OutboxNext ==
    \/ \E d \in Dispatchers : Dispatch(d) \/ MarkUnanswered(d) \/ CrashDispatcher(d)
    \/ \E e \in Rows : BecomeDue(e) \/ Expire(e)

-----------------------------------------------------------------------------

(* A final row has earned its state: it is marked published only after     *)
(* JetStream took the event, and a dead letter has failed MaxAttempts      *)
(* times, although each dispatcher decides on the count it read before     *)
(* publishing.                                                             *)
FinalRowsAreEarned ==
    /\ published \subseteq sent
    /\ \A e \in dead : count[e] >= MaxAttempts
=============================================================================
