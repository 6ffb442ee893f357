---------------------------- MODULE GraphConsumer ---------------------------
(***************************************************************************)
(* The consumers of the graph-consumer role between the outbox of the      *)
(* repository pipeline and the admission of graph builds: a message is     *)
(* handled, then acknowledged or sent back. JetStream delivers a message   *)
(* again, to whichever consumer, until one acknowledges it; a consumer may *)
(* get it while another still handles it.                                  *)
(***************************************************************************)
EXTENDS RepositoryOutbox, GraphAdmission

CONSTANT SnapshotOf        \* [Events -> Snapshots]

ASSUME ConsumerAssumption ==
    /\ SnapshotOf \in [Events -> Snapshots]
    /\ Events \subseteq Keys      \* the key of an event is "parse-event:" and its identity
    /\ \A r \in Requests : r.key \notin Events
    /\ Clients \cap Consumers = {}
    /\ None \notin Events

VARIABLES
    failedParses,  \* rows that are parse.failed; the others are parse.completed
    message,       \* what each consumer handles
    verdict,       \* what it does with it after Handle
    rejected       \* graph_rejected_events

handlerVars == <<message, verdict>>
vars == <<outboxVars, admissionVars, handlerVars, failedParses, rejected, faults>>

TypeOK ==
    /\ OutboxTypeOK
    /\ AdmissionTypeOK
    /\ failedParses \subseteq Rows
    /\ message \in [Consumers -> Events \cup {None}]
    /\ verdict \in [Consumers -> {"none", "ack", "nak", "reject"}]
    /\ rejected \subseteq Events
    /\ faults \in 0..MaxFaults

Init ==
    /\ OutboxInit
    /\ AdmissionInit
    /\ failedParses \in SUBSET Rows
    /\ message = [c \in Consumers |-> None]
    /\ verdict = [c \in Consumers |-> "none"]
    /\ rejected = {}
    /\ faults = 0

-----------------------------------------------------------------------------

(* decodeParseCompleted asks for parser_result_version; the events of      *)
(* NewParseCompletedEvent lack it, other producers may send it.            *)
NamesParserResult(e) == e \notin Rows

Decide(c, v) == verdict' = [verdict EXCEPT ![c] = v]

(* Handle up to the store call.                                            *)
Fetch(c) ==
    /\ message[c] = None
    /\ \E e \in stream :
          /\ message' = [message EXCEPT ![c] = e]
          /\ \/ e \in failedParses /\ Decide(c, "ack") /\ UNCHANGED callVars
             \/ /\ e \notin failedParses /\ ~ NamesParserResult(e)
                /\ Decide(c, "reject") /\ UNCHANGED callVars
             \/ /\ e \notin failedParses /\ NamesParserResult(e)
                /\ Ask(c, e, SnapshotOf[e]) /\ UNCHANGED verdict
    /\ UNCHANGED <<outboxVars, storeVars, failedParses, rejected, faults>>

RejectUnstored(c) ==   \* mutant: every error is final
    /\ answer[c] \notin {"none", "rolled back"}
    /\ Decide(c, IF answer[c] = "accepted" THEN "ack" ELSE "reject")
    /\ Forget(c)
    /\ UNCHANGED <<outboxVars, storeVars, message, failedParses, rejected, faults>>

(* Handle after the store call: retryable errors send the message back.    *)
FinishHandle(c) ==
    /\ \/ answer[c] = "accepted" /\ Decide(c, "ack")
       \/ answer[c] \in {"full", "failed"} /\ Decide(c, "nak")
       \/ answer[c] = "conflict" /\ Decide(c, "reject")
    /\ Forget(c)
    /\ UNCHANGED <<outboxVars, storeVars, message, failedParses, rejected, faults>>

Reject(c) ==
    /\ verdict[c] = "reject"
    /\ rejected' = rejected \cup {message[c]}
    /\ Decide(c, "ack")
    /\ UNCHANGED <<outboxVars, admissionVars, message, failedParses, faults>>

RejectFails(c) ==
    /\ verdict[c] = "reject"
    /\ Fault
    /\ \/ rejected' = rejected \cup {message[c]}
       \/ UNCHANGED rejected
    /\ Decide(c, "nak")
    /\ UNCHANGED <<outboxVars, admissionVars, message, failedParses>>

Leave(c) ==
    /\ message' = [message EXCEPT ![c] = None]
    /\ Decide(c, "none")

Ack(c) ==
    /\ verdict[c] = "ack"
    /\ stream' = stream \ {message[c]}
    /\ Leave(c)
    /\ UNCHANGED <<rowVars, batch, mark, sent, admissionVars, failedParses, rejected, faults>>

Nak(c) ==
    /\ verdict[c] = "nak"
    /\ Leave(c)
    /\ UNCHANGED <<outboxVars, admissionVars, failedParses, rejected, faults>>

(* The process stops before the acknowledgement, or that is lost.          *)
StopConsumer(c) ==
    /\ message[c] # None
    /\ Fault
    /\ Leave(c)
    /\ Forget(c)
    /\ UNCHANGED <<outboxVars, storeVars, failedParses, rejected>>

Consume(c) == Fetch(c) \/ FinishHandle(c) \/ Reject(c) \/ Ack(c) \/ Nak(c)

(* What the steps of the parts leave alone.                                *)
OutboxAlone == UNCHANGED <<admissionVars, handlerVars, failedParses, rejected>>
AdmissionAlone == UNCHANGED <<outboxVars, handlerVars, failedParses, rejected>>

Next ==
    \/ OutboxNext /\ OutboxAlone
    \/ AdmissionNext /\ AdmissionAlone
    \/ \E c \in Consumers : Consume(c) \/ RejectFails(c) \/ StopConsumer(c)

Spec == Init /\ [][Next]_vars

(* Dispatchers tick and consumers fetch for ever, their calls have         *)
(* deadlines, and builds end.                                              *)
FairSpec ==
    /\ Spec
    /\ \A d \in Dispatchers : WF_vars(Dispatch(d) /\ OutboxAlone)
    /\ \A e \in Rows : WF_vars(BecomeDue(e) /\ OutboxAlone)
    /\ \A c \in Consumers : WF_vars(Consume(c) \/ (EnqueueStep(c) /\ AdmissionAlone))
    /\ \A b \in Builds : WF_vars(EndJob(b) /\ AdmissionAlone)

-----------------------------------------------------------------------------

(* No event is lost between two durable stores: one that left the stream   *)
(* has a job for its snapshot, or, if it names no parser result, a record  *)
(* of its rejection. Failed parses ask for nothing.                        *)
Settled(e) ==
    \/ e \in failedParses
    \/ NamesParserResult(e) /\ \E v \in Versions : Exists(<<SnapshotOf[e], v>>)
    \/ ~ NamesParserResult(e) /\ e \in rejected

NothingIsLost == \A e \in sent \ stream : Settled(e)

(* In the end every row is published or dead, and every message has been   *)
(* acknowledged, whatever fails on the way.                                *)
EverythingSettles == <>[](rows \subseteq published \cup dead /\ stream = {})

(* What the repository pipeline announces follows the schema of            *)
(* parse.completed, so it is not rejected.                                 *)
OwnEventsAreAccepted == rejected \cap Rows = {}
=============================================================================
