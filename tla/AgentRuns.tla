------------------------------- MODULE AgentRuns -------------------------------
(***************************************************************************)
(* The runs of the question agent. Ask stores a run and starts a goroutine *)
(* that plans, retrieves evidence in bounded rounds, keeps the citations   *)
(* of one commit, lets a generator choose among them, stores the answer    *)
(* and announces it, telling its caller every stage through a buffered     *)
(* channel. The context of the run is its caller's and may end anywhere.   *)
(*                                                                         *)
(*   question   [conversation, snapshot, valid, rounds : Seq(request)]     *)
(*   reference  [at : place in the repository, in its order, commit]       *)
(***************************************************************************)
EXTENDS WikiPublication

CONSTANTS
    Runs,                 \* runs, each named by the call that asks
    Questions,
    MaxRetrievalRounds, MaxCitations, AgentGraphLimit,
    Commits,              \* the commits, in alphabetic order
    Selections            \* what the generator may return: None for nil, or a sequence of indexes

ASSUME AgentAssumption ==
    /\ {MaxRetrievalRounds, MaxCitations, AgentGraphLimit} \subseteq Nat \ {0}
    /\ \A q \in Questions :
          /\ Len(q.rounds) = MaxRetrievalRounds /\ \A i \in 1..MaxRetrievalRounds : q.rounds[i].topK \in Nat
          /\ q.snapshot \in Snapshots
    /\ \A selection \in Selections : selection = None \/ selection \in Seq(Int)
    /\ Commits \in Seq(ToSet(Commits)) /\ \A s \in Snapshots : Parsed[s].commit \in ToSet(Commits)
    /\ \A input \in Inputs : \A a \in ToSet(input) : a.commit \in ToSet(Commits)

VARIABLES
    runs,           \* AgentRepository.runs: run -> [status, answer], or None
    conversations,  \* AgentRepository.conversations: conversation -> the snapshot it is pinned to, or None
    execution,      \* run -> local variables of execute
    stream,         \* run -> events sent to the channel, in order
    live            \* run -> its context has not ended

agentVars == <<runs, conversations, execution, stream>>

NoExecution == [pc |-> "idle", question |-> None, round |-> 1, sources |-> <<>>, graph |-> <<>>,
                available |-> FALSE, citations |-> <<>>, answer |-> None, code |-> "none", detached |-> FALSE]
AgentInit ==
    /\ runs = [r \in Runs |-> None]
    /\ conversations = [c \in {q.conversation : q \in Questions} |-> None]
    /\ execution = [r \in Runs |-> NoExecution]
    /\ stream = [r \in Runs |-> <<>>]
    /\ live = [r \in Runs |-> TRUE]

(* Ask, once its caller is known. CreateRun pins a conversation to the     *)
(* snapshot of its first run.                                              *)
AskAccepted(r, q) == q.valid /\ live[r] /\ conversations[q.conversation] \in {None, q.snapshot}
CreateRun(r, q) ==
    /\ runs' = [runs EXCEPT ![r] = [status |-> "RUNNING", answer |-> None]]
    /\ conversations' = [conversations EXCEPT ![q.conversation] = q.snapshot]
Message(kind, payload) == [type |-> kind, payload |-> payload]
Emit(r, kind, payload) == stream' = [stream EXCEPT ![r] = Append(@, Message(kind, payload))]
Ask(r, q) ==
    /\ CreateRun(r, q)
    /\ execution' = [execution EXCEPT ![r] = [NoExecution EXCEPT !.pc = "plan", !.question = q]]
    /\ Emit(r, "RUN_STARTED", None)

Enter(r, pc) == execution' = [execution EXCEPT ![r].pc = pc]
GiveUp(r, code) == execution' = [execution EXCEPT ![r].pc = "fail", ![r].code = code]

(* The planner of the repository refuses only an ended context.            *)
Plan(r) ==
    /\ execution[r].pc = "plan"
    /\ \/ live[r] /\ Enter(r, "retrieve") /\ Emit(r, "PLANNED", None)
       \/ GiveUp(r, "GENERATION_FAILURE") /\ UNCHANGED stream
    /\ UNCHANGED <<runs, conversations, live, announced>>

(* What the two sources hold for a snapshot; graphSources lists the nodes  *)
(* of an answer, then its edges.                                           *)
References(hits) ==
    [i \in DOMAIN hits |-> [at |-> hits[i].document.artifact, commit |-> hits[i].document.commit]]
Found(s, request) == References(Retrieve(request, Stored(current[s]).documents, GraphAt(s), "identity").hits)
Places(answer) ==
    LET edges == Ordered(answer.facts, LAMBDA a, b : a.id < b.id)
    IN answer.nodes \o [i \in DOMAIN edges |-> MaxArtifacts + edges[i].id]
GraphSources(s) ==
    LET everything == [roots |-> {}, depth |-> 1, direction |-> "BOTH", types |-> {}, kinds |-> {}, limit |-> AgentGraphLimit]
        places == Places(MemoryQuery(GraphAt(s), everything))
    IN [i \in DOMAIN places |-> [at |-> places[i], commit |-> Parsed[s].commit]]

(* One round: a search, in the first round a query of the graph too; each  *)
(* may be unavailable. A round that found a source is the last. A context  *)
(* that ends in a round ends the run.                                      *)
AfterRound(x, sources, fromGraph, available) ==
    LET last == sources \o fromGraph # <<>> \/ x.round = MaxRetrievalRounds
    IN [x EXCEPT !.sources = sources, !.graph = fromGraph, !.available = available, !.round = @ + 1,
           !.pc = IF ~last THEN "retrieve" ELSE IF available THEN "evaluate" ELSE "fail",
           !.code = IF last /\ ~available THEN "KNOWLEDGE_UNAVAILABLE" ELSE @]
RetrieveRound(r, searched, queried) ==
    LET x == execution[r]
        s == x.question.snapshot
        searches == searched /\ current[s] # None
        queries == queried /\ x.round = 1 /\ RevisionAt(s) # None
    IN /\ x.pc = "retrieve" /\ live[r]
       /\ execution' = [execution EXCEPT ![r] =
              AfterRound(x, IF searches THEN Found(s, x.question.rounds[x.round]) ELSE <<>>,
                         IF queries THEN GraphSources(s) ELSE <<>>, x.available \/ searches \/ queries)]
       /\ Emit(r, "RETRIEVED", None)
       /\ UNCHANGED <<runs, conversations, live, announced>>

RetrievalCancelled(r) ==
    /\ execution[r].pc = "retrieve" /\ ~live[r]
    /\ GiveUp(r, "RUN_CANCELLED")
    /\ UNCHANGED <<runs, conversations, stream, live, announced>>

(* canonicalCommit: the commit most references name, the first in the      *)
(* alphabet of several.                                                    *)
Naming(refs, commit) == Cardinality({i \in DOMAIN refs : refs[i].commit = commit})
CanonicalCommit(refs) ==
    IF refs = <<>> THEN None
    ELSE Commits[CHOOSE i \in DOMAIN Commits : \A k \in DOMAIN Commits :
                    \/ Naming(refs, Commits[k]) < Naming(refs, Commits[i])
                    \/ Naming(refs, Commits[k]) = Naming(refs, Commits[i]) /\ i <= k]
ExpectedByMost(sources, graph) == CanonicalCommit(sources \o graph)

ExpectedCommit(sources, graph) ==
    IF graph # <<>> THEN CanonicalCommit(graph) ELSE CanonicalCommit(sources)

NormalizeCitations(refs, commit) ==
    Take(Ordered({ref \in ToSet(refs) : ref.commit = commit}, LAMBDA a, b : a.at < b.at), MaxCitations)

Insufficient == [insufficient |-> TRUE, citations |-> <<>>]
Evaluate(r) ==
    LET x == execution[r]
        citations == NormalizeCitations(x.sources \o x.graph, ExpectedCommit(x.sources, x.graph))
    IN /\ x.pc = "evaluate"
       /\ execution' = [execution EXCEPT ![r] =
              IF citations = <<>> THEN [x EXCEPT !.pc = "save", !.answer = Insufficient]
              ELSE [x EXCEPT !.pc = "generate", !.citations = citations]]
       /\ Emit(r, "EVALUATED", None)
       /\ UNCHANGED <<runs, conversations, live, announced>>

(* selectCitations: nil takes all of them; an empty choice or an index out *)
(* of range is refused, a repeated index counts once.                      *)
SelectionAccepted(citations, selection) ==
    selection # None => selection # <<>> /\ ToSet(selection) \subseteq 0..Len(citations) - 1
SelectCitations(citations, selection) ==
    IF selection = None THEN citations
    ELSE LET first == Ordered({i \in DOMAIN selection : \A k \in 1..i - 1 : selection[k] # selection[i]}, <)
         IN [i \in DOMAIN first |-> citations[selection[first[i]] + 1]]

Generate(r, selection) ==
    LET x == execution[r]
    IN /\ x.pc = "generate" /\ live[r]
       /\ IF ~SelectionAccepted(x.citations, selection) THEN GiveUp(r, "GENERATION_FAILURE")
          ELSE execution' = [execution EXCEPT ![r].pc = "save",
                   ![r].answer = [insufficient |-> FALSE, citations |-> SelectCitations(x.citations, selection)]]
       /\ UNCHANGED <<runs, conversations, stream, live, announced>>

GenerationFails(r) ==
    /\ execution[r].pc = "generate"
    /\ GiveUp(r, IF live[r] THEN "GENERATION_FAILURE" ELSE "RUN_CANCELLED")
    /\ UNCHANGED <<runs, conversations, stream, live, announced>>

(* UpdateRun: a terminal run keeps its status.                             *)
Terminal(status) == status \in {"COMPLETED", "FAILED"}
UpdateUnguarded(r, status, bound) == bound

UpdateAccepted(r, status, bound) == bound /\ (Terminal(runs[r].status) => runs[r].status = status)

SaveRun(r) ==
    /\ execution[r].pc = "save"
    /\ IF UpdateAccepted(r, "COMPLETED", live[r])
       THEN /\ runs' = [runs EXCEPT ![r] = [status |-> "COMPLETED", answer |-> execution[r].answer]]
            /\ Enter(r, "publish")
       ELSE GiveUp(r, "PERSISTENCE") /\ UNCHANGED runs
    /\ UNCHANGED <<conversations, stream, live, announced>>

RunEvent(r) == [type |-> "run", id |-> r, snapshot |-> execution[r].question.snapshot, content |-> execution[r].answer]
PublishErrorIgnored(r) ==
    /\ execution[r].pc = "publish"
    /\ Enter(r, "done") /\ Emit(r, "COMPLETED", execution[r].answer)
    /\ announced' \in {announced, announced \cup {RunEvent(r)}}
    /\ UNCHANGED <<runs, conversations, live>>

PublishRun(r) ==
    /\ execution[r].pc = "publish"
    /\ \/ /\ announced' = announced \cup {RunEvent(r)}
          /\ Enter(r, "done") /\ Emit(r, "COMPLETED", execution[r].answer)
       \/ GiveUp(r, "PERSISTENCE") /\ UNCHANGED <<announced, stream>>
    /\ UNCHANGED <<runs, conversations, live>>

(* fail: leaves the ended context behind, if it has ended when it looks,   *)
(* writes FAILED and tells the caller, whether the write worked or not.    *)
ChooseContext(r) ==
    /\ execution[r].pc = "fail"
    /\ execution' = [execution EXCEPT ![r].pc = "record", ![r].detached = ~live[r]]
    /\ UNCHANGED <<runs, conversations, stream, live, announced>>

RecordFailure(r) ==
    LET x == execution[r]
        stored == UpdateAccepted(r, "FAILED", live[r] \/ x.detached)
    IN /\ x.pc = "record"
       /\ runs' = IF stored THEN [runs EXCEPT ![r] = [status |-> "FAILED", answer |-> x.answer]] ELSE runs
       /\ Enter(r, "done")
       /\ Emit(r, "FAILED", IF stored THEN x.code ELSE "PERSISTENCE")
       /\ UNCHANGED <<conversations, live, announced>>

AgentNext ==
    \E r \in Runs :
        \/ Plan(r) \/ RetrievalCancelled(r) \/ Evaluate(r) \/ GenerationFails(r) \/ SaveRun(r) \/ PublishRun(r)
        \/ ChooseContext(r) \/ RecordFailure(r)
        \/ \E searched, queried \in BOOLEAN : RetrieveRound(r, searched, queried)
        \/ \E selection \in Selections : Generate(r, selection)
=============================================================================
