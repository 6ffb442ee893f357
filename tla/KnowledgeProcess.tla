--------------------------- MODULE KnowledgeProcess ---------------------------
(***************************************************************************)
(* The services that live in one process: graph builds, the index, the     *)
(* wiki, the agent behind the tools, and the coding assistant. They share  *)
(* the knowledge of a snapshot and the bus their events go to.             *)
(***************************************************************************)
EXTENDS Proposals

Init ==
    /\ GraphInit /\ IndexInit /\ WikiInit /\ AgentInit /\ ToolInit /\ ProposalInit
    /\ announced = {}

answerVars == <<agentVars, toolVars>>
vars == <<graphVars, indexVars, wikiVars, answerVars, proposalVars, announced>>
GraphStep == GraphNext /\ UNCHANGED <<indexVars, wikiVars, answerVars, proposalVars>>
IndexStep == IndexNext /\ UNCHANGED <<graphVars, wikiVars, answerVars, proposalVars>>
WikiStep == WikiNext /\ UNCHANGED <<graphVars, indexVars, answerVars, proposalVars>>
ToolStep == ToolNext /\ UNCHANGED <<graphVars, indexVars, wikiVars, proposalVars>>
AssistantStep == AssistantNext /\ UNCHANGED <<graphVars, indexVars, wikiVars, answerVars>>
Next == GraphStep \/ IndexStep \/ WikiStep \/ ToolStep \/ AssistantStep
Spec == Init /\ [][Next]_vars
-----------------------------------------------------------------------------
(* A search that found a revision finds its documents, though it has been  *)
(* replaced, and answers with the best of them: at most top_k hits in the  *)
(* order of their scores, none left out that scores higher (the reranker   *)
(* of the repository keeps the scores), and a context that is their text   *)
(* up to the limit and says whether something is missing.                  *)
SearchAnswersTheRequest ==
    \A q \in Searches :
        /\ searcher[q].pc # "documents not found"
        /\ searcher[q].pc = "done" /\ searcher[q].answer.error = "none" =>
              LET r == searcher[q].request
                  hits == searcher[q].answer.hits
                  context == searcher[q].answer.context
                  shown == {hits[i].document : i \in DOMAIN hits}
                  matching == FilterDocuments(Stored(searcher[q].revision).documents, r)
                  text == FlattenSeq(TextOf(hits))
              IN /\ Len(hits) <= TopK(r) /\ Cardinality(shown) = Len(hits) /\ shown \subseteq matching
                 /\ \A i \in 1..Len(hits) - 1 : hits[i].score >= hits[i + 1].score
                 /\ searcher[q].rerank = "identity" =>
                       \E g \in {NoGraph, GraphAt(searcher[q].snapshot)} :
                          LET value(d) == Combined(r, Score(r, matching, g)[d])
                          IN /\ \A i \in DOMAIN hits : hits[i].score = value(hits[i].document) /\ hits[i].score > 0
                             /\ \A d \in matching \ shown :
                                   \/ value(d) = 0
                                   \/ Len(hits) = TopK(r) /\ \A e \in shown : value(e) >= value(d)
                 /\ FlattenSeq([i \in DOMAIN context.items |-> context.items[i].text]) = Take(text, MaxContextChars)
                 /\ context.truncated <=> Len(text) > MaxContextChars

(* An event names knowledge that can be read: the graph it says, an index  *)
(* of that content, a wiki made from that graph, the answer of a run, a    *)
(* proposal that is applied. The id of an index or of a wiki job may be    *)
(* one that was not stored, when its call lost a race.                     *)
AnnouncedIsStored ==
    \A e \in announced :
        CASE e.type = "graph" -> RevisionAt(e.snapshot) = e.id
          [] e.type = "index" -> \E r \in revisions : r.snapshot = e.snapshot /\ r.content = e.content
          [] e.type = "wiki" -> \E k \in Keys : wikiJobs[k] # None /\ wikiJobs[k].snapshot = e.snapshot
                                                  /\ wikiJobs[k].graphRevision = e.content
          [] e.type = "run" -> runs[e.id] = [status |-> "COMPLETED", answer |-> e.content]
          [] e.type = "proposal" -> proposals[e.id].status = "APPLIED" /\ proposals[e.id].base = e.content

(* Of racing generations of one page one wins: its revisions are numbered  *)
(* without a gap, each number once, and the latest is the last of them.    *)
RevisionsAreGapless ==
    \A locale \in Locales, slug \in Slugs :
        LET own == {p \in pages : p.locale = locale /\ p.slug = slug}
        IN /\ {p.number : p \in own} = 1..Latest(locale, slug)
           /\ Cardinality(own) = Latest(locale, slug)

(* A published wiki is whole, and rests on one graph: every page of a job  *)
(* is there, names the published graph of its snapshot, cites only the     *)
(* commit of that graph and hangs under a page that exists.                *)
WikiRestsOnItsGraph ==
    /\ \A k \in Keys : wikiJobs[k] # None =>
          \A slug \in wikiJobs[k].slugs : \E p \in pages : p.slug = slug /\ SameKnowledge(wikiJobs[k], p)
    /\ \A p \in pages :
          /\ RevisionAt(p.snapshot) = p.graphRevision
          /\ p.content.commits = {Parsed[p.snapshot].commit}
          /\ p.parent => Latest(p.locale, Overview) > 0

(* What readers of a snapshot see stays: a graph is never replaced, and a  *)
(* page of a snapshot keeps its content and its language for ever.         *)
ReadersKeepTheirPages ==
    [][/\ \A s \in Snapshots : graphs[s] # None => graphs'[s] = graphs[s]
       /\ \A k \in DOMAIN pinned : pinned[k] # None =>
             /\ pinned'[k] # None
             /\ pinned'[k][1] = pinned[k][1]
             /\ \E p \in pages, p2 \in pages' : /\ PageId(p) = pinned[k] /\ PageId(p2) = pinned'[k]
                                               /\ p.content = p2.content]_vars

(* Whoever reads the channel of a run learns how it ended, whatever ended  *)
(* in between: one terminal event, the last, and never more events than    *)
(* the channel holds, so a run whose caller has left ends as well.         *)
(* COMPLETED means stored and announced. FAILED may hide an answer that    *)
(* was stored but could not be announced, and a run stays RUNNING only     *)
(* when its context ended while its failure was written.                   *)
StreamsTellOutcome ==
    \A r \in Runs :
        /\ Len(stream[r]) <= MaxRetrievalRounds + 5
        /\ \A i \in DOMAIN stream[r] :
              stream[r][i].type \in {"COMPLETED", "FAILED"} <=> execution[r].pc = "done" /\ i = Len(stream[r])
        /\ execution[r].pc = "done" =>
              LET end == stream[r][Len(stream[r])]
                  published == RunEvent(r) \in announced
              IN CASE end.type = "COMPLETED" ->
                         runs[r] = [status |-> "COMPLETED", answer |-> end.payload] /\ published
                   [] end.type = "FAILED" ->
                         /\ ~published
                         /\ runs[r].status = "COMPLETED" => end.payload = "PERSISTENCE"
                         /\ runs[r].status = "RUNNING" => ~live[r] /\ end.payload = "PERSISTENCE"

(* An answer cites one commit: that of the snapshot's graph when the graph *)
(* was there to ask, even where the index holds another commit and more of *)
(* it; at most MaxCitations places, each once, all of them places a source *)
(* named; and one without citations says that the evidence is missing.     *)
AnswersCiteOneCommit ==
    \A r \in Runs : runs[r] # None /\ runs[r].status = "COMPLETED" =>
        LET cited == runs[r].answer.citations
            x == execution[r]
        IN /\ runs[r].answer.insufficient <=> cited = <<>>
           /\ cited = <<>> <=> x.sources \o x.graph = <<>>
           /\ Len(cited) <= MaxCitations /\ Cardinality(ToSet(cited)) = Len(cited)
           /\ ToSet(cited) \subseteq ToSet(x.sources \o x.graph)
           /\ Cardinality({ref.commit : ref \in ToSet(cited)}) <= 1
           /\ x.graph # <<>> => {ref.commit : ref \in ToSet(cited)} \subseteq CommitsOf(x.question.snapshot)

(* What the audit says is what the caller was told: every finished call    *)
(* has one record, or told its caller that it has none; a call is charged  *)
(* once, if it was authorised and admitted, whatever it did with it; and   *)
(* an answer it gave is the stored and announced one of its run.           *)
CallsAreAudited ==
    \A c \in Runs : calls[c].pc = "done" =>
        LET records == audit[c]
            charged == {x \in charges : x.call = c}
            told == calls[c].result
        IN /\ IF told = "AUDIT_FAILURE" THEN records = <<>>
              ELSE Len(records) = 1 /\ records[1] = [status |-> StatusOf(told), error |-> told]
           /\ Cardinality(charged) <= 1
           /\ told \in {"UNAUTHENTICATED", "PERMISSION_DENIED", "RATE_LIMITED"} => charged = {}
           /\ told \in {"OK", "UPSTREAM_FAILURE"} => charged # {}
           /\ calls[c].answer # None =>
                 /\ runs[c] = [status |-> "COMPLETED", answer |-> calls[c].answer]
                 /\ RunEvent(c) \in announced

(* The fixed windows of one client and tool: no window admits more than    *)
(* the limit, windows begin at least their length apart although readings  *)
(* of the clock wait for the mutex, and of the calls that did not wait no  *)
(* time of one window's length sees more than twice the limit.             *)
QuotaHolds ==
    LET units(S) == MapThenSumSet(LAMBDA x : x.cost, S)
    IN \A key \in DOMAIN buckets :
          LET own == {x \in charges : x.key = key}
          IN /\ \A x \in own : units({y \in own : y.start = x.start}) <= QuotaLimit
             /\ \A x, y \in own : x.start < y.start => y.start - x.start >= Window
             /\ \A t \in 0..now : units({x \in own : x.reading = x.at /\ x.at \in t..t + Window - 1}) <= 2 * QuotaLimit

(* The record of a proposal tells what is in the checkout: all of an       *)
(* applied one, nothing of one that waits, was rejected or failed. Only    *)
(* one that is being applied leaves it open. No two proposals ever change  *)
(* the same file.                                                          *)
TreeTellsOutcome ==
    \A p \in Proposers :
        LET written == {f \in Files : p \in tree[f]}
        IN /\ proposals[p] = None => written = {}
           /\ proposals[p] # None =>
                 /\ written \subseteq proposals[p].files
                 /\ proposals[p].status \in {"AWAITING_APPROVAL", "REJECTED", "FAILED"} => written = {}
                 /\ proposals[p].status = "APPLIED" => written = proposals[p].files
           /\ \A f \in written : tree[f] \cap Proposers = {p}

(* What has ended has ended: an answer or a failure of a run, and the      *)
(* outcome of a proposal, are never written over.                          *)
FinalStays ==
    [][/\ \A r \in Runs : runs[r] # None /\ Terminal(runs[r].status) => runs'[r] = runs[r]
       /\ \A p \in Proposers : proposals[p] # None /\ proposals[p].status \in {"APPLIED", "REJECTED", "FAILED"} =>
             proposals'[p] = proposals[p]]_vars
=============================================================================
