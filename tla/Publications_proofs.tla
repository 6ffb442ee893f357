------------------------- MODULE Publications_proofs -------------------------
(***************************************************************************)
(* Theorems about what KnowledgeProcess publishes and what it answers from *)
(* it: graphs, indexes and wikis, for all parse results, inputs, commands  *)
(* and drafts, the events that announce them, the citations of the agent's *)
(* answers, and the hits of a search.                                      *)
(***************************************************************************)
EXTENDS AgentRuns_proofs

-----------------------------------------------------------------------------
(* Graphs. A build saves under the snapshot its parse result is of.        *)
GraphTypeOK ==
    /\ DOMAIN graphs = Snapshots
    /\ \A s \in Snapshots : graphs[s] # None => graphs[s].id = RevisionAt(s)
    /\ \A c \in GraphCalls : builder[c].pc = "build" => builder[c].snapshot \in Snapshots
    /\ DOMAIN builder = GraphCalls
    /\ \A c \in GraphCalls : DOMAIN builder[c] = {"pc", "key", "snapshot"}

(* A published graph is never replaced.                                    *)
GraphsStand == \A s \in Snapshots : graphs[s] # None => graphs'[s] = graphs[s]

LEMMA GraphKept ==
    ASSUME GraphTypeOK, GraphStep
    PROVE  /\ GraphTypeOK' /\ GraphsStand
           /\ \/ announced' = announced
              \/ \E s \in Snapshots : /\ RevisionAt(s)' = graphs'[s].id /\ graphs'[s] # None
                                      /\ announced' = announced \cup {GraphEvent(s)}
<1>1. ASSUME NEW c \in GraphCalls, NEW key \in Keys, NEW s \in Snapshots, LoadParse(c, key, s)
      PROVE  /\ GraphTypeOK' /\ GraphsStand /\ announced' = announced
    BY <1>1 DEF LoadParse, GraphTypeOK, GraphsStand, RevisionAt
<1>2. ASSUME NEW c \in GraphCalls, BuildGraph(c)
      PROVE  /\ GraphTypeOK' /\ GraphsStand
             /\ \/ announced' = announced
                \/ \E s \in Snapshots : /\ RevisionAt(s)' = graphs'[s].id /\ graphs'[s] # None
                                        /\ announced' = announced \cup {GraphEvent(s)}
    <2>1. builder[c].pc = "build" /\ builder[c].snapshot \in Snapshots
        BY <1>2 DEF BuildGraph, GraphTypeOK
    <2> PICK s \in Snapshots : s = builder[c].snapshot
        BY <2>1
    <2> DEFINE record == [id |-> c, graph |-> GraphOfParse(Parsed[s])]
    <2>2. PICK pc \in {"done", "conflict", "failed", "unannounced"} : builder' = [builder EXCEPT ![c].pc = pc]
        BY <1>2 DEF BuildGraph
    <2>3. /\ DOMAIN builder' = GraphCalls
          /\ \A d \in GraphCalls : DOMAIN builder'[d] = {"pc", "key", "snapshot"}
          /\ \A d \in GraphCalls : builder'[d].pc = "build" => builder'[d] = builder[d]
        BY <2>2 DEF GraphTypeOK
    <2>4. CASE UNCHANGED <<graphs, announced>>
        BY <2>3, <2>4 DEF GraphTypeOK, GraphsStand, RevisionAt
    <2>5. CASE /\ graphs[s] = None /\ graphs' = [graphs EXCEPT ![s] = record]
               /\ announced' = announced \/ announced' = announced \cup {GraphEvent(s)}
        <3>1. record # None /\ record.id = c
            BY GraphAssumption
        <3> HIDE DEF record
        <3>2. graphs'[s] = record /\ DOMAIN graphs' = Snapshots /\ \A o \in Snapshots \ {s} : graphs'[o] = graphs[o]
            BY <2>5 DEF GraphTypeOK
        <3>3. RevisionAt(s)' = graphs'[s].id
            BY <3>1, <3>2 DEF RevisionAt
        <3>4. GraphsStand
            BY <2>5, <3>2 DEF GraphsStand
        <3>5. GraphTypeOK'
            BY <2>3, <3>2, <3>3 DEF GraphTypeOK, RevisionAt
        <3> QED BY <2>5, <3>1, <3>2, <3>3, <3>4, <3>5
    <2> QED BY <1>2, <2>4, <2>5 DEF BuildGraph, SaveGraph
<1> QED BY <1>1, <1>2 DEF GraphStep, GraphNext

-----------------------------------------------------------------------------
(* The index. A revision is named by the call that saves it, and the one a *)
(* snapshot serves is one of its own.                                      *)
IndexInv ==
    /\ DOMAIN indexer = IndexCalls /\ DOMAIN current = Snapshots
    /\ \A r \in revisions : r.id \in IndexCalls /\ indexer[r.id].pc \notin {"idle", "save"}
    /\ \A q, r \in revisions : q.id = r.id => q = r
    /\ \A s \in Snapshots : current[s] # None => \E r \in revisions : r.id = current[s] /\ r.snapshot = s
    /\ \A c \in IndexCalls : indexer[c].pc = "save" =>
          indexer[c].revision.id = c /\ indexer[c].revision.snapshot \in Snapshots
    /\ \A c \in IndexCalls : indexer[c].pc = "announce" =>
          \E r \in revisions : r.snapshot = indexer[c].revision.snapshot /\ r.content = indexer[c].revision.content

LEMMA StoredIsCurrent ==
    ASSUME IndexInv, NEW s \in Snapshots, current[s] # None
    PROVE  Stored(current[s]) \in revisions /\ Stored(current[s]).snapshot = s
BY DEF IndexInv, Stored

LEMMA IndexKept ==
    ASSUME IndexInv, IndexStep
    PROVE  /\ IndexInv' /\ revisions \subseteq revisions'
           /\ \/ announced' = announced
              \/ \E c \in IndexCalls : indexer[c].pc = "announce" /\ announced' = announced \cup {IndexEvent(indexer[c].revision)}
<1>1. ASSUME NEW c \in IndexCalls, NEW s \in Snapshots, NEW input \in Inputs, StartIndex(c, s, input)
      PROVE  IndexInv'
    <2>1. indexer[c].pc = "idle" /\ UNCHANGED <<revisions, current>>
        BY <1>1 DEF StartIndex
    <2>2. PICK pc \in {"refused", "announce", "save", "failed"}, r \in {indexer'[c].revision} :
             /\ indexer' = [indexer EXCEPT ![c] = [pc |-> pc, revision |-> r]]
             /\ pc = "announce" => current[s] # None /\ r = Stored(current[s])
             /\ pc = "save" => r.id = c /\ r.snapshot = s
        BY <1>1 DEF StartIndex
    <2>3. pc = "announce" => r \in revisions
        BY <2>2, StoredIsCurrent
    <2>4. \A o \in revisions : o.id # c
        BY <2>1 DEF IndexInv
    <2> QED BY <2>1, <2>2, <2>3, <2>4 DEF IndexInv
<1>2. ASSUME NEW c \in IndexCalls, SaveIndex(c)
      PROVE  IndexInv' /\ revisions \subseteq revisions'
    <2> DEFINE r == indexer[c].revision
               present == current[r.snapshot] # None /\ Stored(current[r.snapshot]).content = r.content
    <2>1. indexer[c].pc = "save" /\ r.id = c /\ r.snapshot \in Snapshots
        BY <1>2 DEF SaveIndex, IndexInv
    <2>2. /\ DOMAIN indexer' = IndexCalls
          /\ \A d \in IndexCalls \ {c} : indexer'[d] = indexer[d]
          /\ indexer'[c].pc \notin {"idle", "save"} /\ indexer'[c].revision = r
        BY <1>2 DEF SaveIndex, IndexInv
    <2>3. CASE present /\ UNCHANGED <<revisions, current>>
        <3>1. \E o \in revisions : o.snapshot = r.snapshot /\ o.content = r.content
            BY <2>1, <2>3, StoredIsCurrent
        <3> QED BY <2>1, <2>2, <2>3, <3>1 DEF IndexInv
    <2>4. CASE revisions' = revisions \cup {r} /\ current' = [current EXCEPT ![r.snapshot] = r.id]
        <3>1. \A o \in revisions : o.id # c
            BY <2>1 DEF IndexInv
        <3> QED BY <2>1, <2>2, <2>4, <3>1 DEF IndexInv
    <2> QED BY <1>2, <2>3, <2>4 DEF SaveIndex
<1>3. ASSUME NEW c \in IndexCalls, NEW pc \in {"done", "failed"}, indexer' = [indexer EXCEPT ![c].pc = pc],
             indexer[c].pc # "idle", UNCHANGED <<revisions, current>>
      PROVE  IndexInv'
    BY <1>3 DEF IndexInv
<1>4. ASSUME UNCHANGED <<revisions, current, indexer>>
      PROVE  IndexInv'
    BY <1>4 DEF IndexInv
<1>5. ASSUME NEW c \in IndexCalls, SaveFails(c)
      PROVE  IndexInv'
    BY <1>3, <1>5 DEF SaveFails
<1>6. ASSUME NEW c \in IndexCalls, AnnounceIndex(c)
      PROVE  IndexInv'
    BY <1>3, <1>6 DEF AnnounceIndex
<1>7. IndexInv' /\ revisions \subseteq revisions'
    BY <1>1, <1>2, <1>4, <1>5, <1>6
       DEF IndexStep, IndexNext, StartIndex, SaveFails, AnnounceIndex, StartSearch, Search
<1>8. \/ announced' = announced
      \/ \E c \in IndexCalls :
            indexer[c].pc = "announce" /\ announced' = announced \cup {IndexEvent(indexer[c].revision)}
    BY DEF IndexStep, IndexNext, StartIndex, SaveIndex, SaveFails, AnnounceIndex, StartSearch, Search
<1> QED BY <1>7, <1>8

-----------------------------------------------------------------------------
(* The wiki.                                                               *)
GenerationFields == {"pc", "command", "left", "parent", "draft", "pages", "job"}

WikiTypeOK ==
    /\ latestPage \in [Locales \X Slugs -> Nat]
    /\ DOMAIN pinned = Snapshots \X Slugs /\ DOMAIN wikiJobs = Keys
    /\ DOMAIN generator = WikiCalls /\ \A c \in WikiCalls : DOMAIN generator[c] = GenerationFields

(* The stored revisions of a page are those up to its latest, each once.   *)
PagesNumbered ==
    /\ \A p \in pages :
          p.locale \in Locales /\ p.slug \in Slugs /\ p.number \in 1..Latest(p.locale, p.slug)
    /\ \A p, q \in pages : p.locale = q.locale /\ p.slug = q.slug /\ p.number = q.number => p = q
    /\ \A locale \in Locales, slug \in Slugs : \A n \in 1..Latest(locale, slug) :
          \E p \in pages : p.locale = locale /\ p.slug = slug /\ p.number = n

(* They rest on the graph of their snapshot, which is never replaced.      *)
Grounded(snapshot, revision) == graphs[snapshot] # None /\ RevisionAt(snapshot) = revision
PagesGrounded ==
    \A p \in pages :
        /\ p.snapshot \in Snapshots /\ Grounded(p.snapshot, p.graphRevision)
        /\ p.content.commits = {Parsed[p.snapshot].commit}
        /\ p.parent => Latest(p.locale, Overview) > 0

PinnedStored == \A k \in Snapshots \X Slugs : pinned[k] # None => \E p \in pages : PageId(p) = pinned[k]

JobsWhole ==
    \A k \in Keys : wikiJobs[k] # None =>
        \A slug \in wikiJobs[k].slugs : \E p \in pages : p.slug = slug /\ SameKnowledge(wikiJobs[k], p)

(* The page a generation writes, and what it has written and left.         *)
PageOf(c, slug, n) ==
    [locale |-> generator[c].command.locale, slug |-> slug, number |-> n,
     snapshot |-> generator[c].command.snapshot, graphRevision |-> generator[c].command.graphRevision,
     content |-> generator[c].draft[slug], parent |-> generator[c].parent /\ slug # Overview]

Writing(c) ==
    LET w == generator[c].command
    IN /\ generator[c].left \in Seq(ToSet(w.slugs))
       /\ ToSet(w.slugs) = {p.slug : p \in generator[c].pages} \cup ToSet(generator[c].left)
       /\ Grounded(w.snapshot, w.graphRevision)
       /\ generator[c].parent => Overview \in ToSet(w.slugs) \/ Latest(w.locale, Overview) > 0
       /\ \A p \in generator[c].pages :
             /\ p = PageOf(c, p.slug, p.number) /\ p.number \in 1..Latest(w.locale, p.slug) + 1
             /\ p.content.commits = {Parsed[w.snapshot].commit}

Generating(c) ==
    /\ generator[c].pc \in {"read", "pages", "save", "announce"} => generator[c].command \in Commands
    /\ generator[c].pc \in {"read", "pages", "save"} => generator[c].job = Job(c, generator[c].command)
    /\ generator[c].pc = "read" => generator[c].left = generator[c].command.slugs /\ generator[c].pages = {}
    /\ generator[c].pc \in {"pages", "save"} => Writing(c)
    /\ generator[c].pc = "save" => generator[c].left = <<>>
    /\ generator[c].pc = "announce" => \E k \in Keys : wikiJobs[k] # None /\ SameKnowledge(wikiJobs[k], generator[c].job)

WikiInv ==
    /\ PagesNumbered /\ PagesGrounded /\ PinnedStored /\ JobsWhole
    /\ \A c \in WikiCalls : Generating(c)

-----------------------------------------------------------------------------
LEMMA Commanded ==
    ASSUME NEW w \in Commands
    PROVE  /\ w.snapshot \in Snapshots /\ w.key \in Keys /\ w.locale \in Locales
           /\ w.slugs \in Seq(ToSet(w.slugs)) /\ ToSet(w.slugs) \subseteq Slugs
BY WikiAssumption DEF Locales, Slugs

LEMMA OverviewIsASlug == Overview \in Slugs
BY DEF Slugs

(* What no step of the process undoes.                                     *)
JobsStand == \A k \in Keys : wikiJobs[k] # None => wikiJobs'[k] = wikiJobs[k]
NumbersGrow == \A locale \in Locales, slug \in Slugs : Latest(locale, slug) <= Latest(locale, slug)'

LEMMA GroundKept ==
    ASSUME GraphsStand, NEW s \in Snapshots, NEW revision, Grounded(s, revision)
    PROVE  Grounded(s, revision)'
BY DEF GraphsStand, Grounded, RevisionAt

LEMMA GenerationKept ==
    ASSUME WikiTypeOK, WikiTypeOK', NEW c \in WikiCalls, Generating(c), generator'[c] = generator[c],
           GraphsStand, JobsStand, NumbersGrow
    PROVE  Generating(c)'
<1>1. ASSUME Writing(c), generator[c].command \in Commands
      PROVE  Writing(c)'
    <2> DEFINE w == generator[c].command
    <2>1. w.snapshot \in Snapshots /\ w.locale \in Locales /\ ToSet(w.slugs) \subseteq Slugs
        BY <1>1, Commanded
    <2>2. Grounded(w.snapshot, w.graphRevision)'
        BY <1>1, <2>1, GroundKept DEF Writing
    <2>3. /\ \A p \in generator[c].pages : Latest(w.locale, p.slug) <= latestPage'[<<w.locale, p.slug>>]
          /\ Latest(w.locale, Overview) <= latestPage'[<<w.locale, Overview>>]
          /\ \A slug \in Slugs : Latest(w.locale, slug) \in Nat /\ latestPage'[<<w.locale, slug>>] \in Nat
        BY <1>1, <2>1, OverviewIsASlug DEF Writing, NumbersGrow, Latest, WikiTypeOK
    <2>4. \A p \in generator[c].pages :
             p.number \in 1..Latest(w.locale, p.slug) + 1 => p.number \in 1..latestPage'[<<w.locale, p.slug>>] + 1
        BY <1>1, <2>1, <2>3 DEF Writing
    <2>5. /\ generator'[c].command = w /\ generator'[c].left = generator[c].left
          /\ generator'[c].pages = generator[c].pages /\ generator'[c].parent = generator[c].parent
          /\ generator'[c].draft = generator[c].draft
        OBVIOUS
    <2>6. generator[c].parent => Overview \in ToSet(w.slugs) \/ latestPage'[<<w.locale, Overview>>] > 0
        BY <1>1, <2>1, <2>3, OverviewIsASlug DEF Writing
    <2>7. \A p \in generator[c].pages : p = PageOf(c, p.slug, p.number)'
        BY <1>1, <2>5 DEF Writing, PageOf
    <2> QED BY <1>1, <2>2, <2>4, <2>5, <2>6, <2>7 DEF Writing, Latest
<1>2. generator[c].pc = "announce" => \E k \in Keys : wikiJobs'[k] # None /\ SameKnowledge(wikiJobs'[k], generator[c].job)
    BY DEF Generating, JobsStand
<1> QED BY <1>1, <1>2 DEF Generating, SameKnowledge, Job

(* Other services leave the wiki as it is; the graphs may grow.            *)
LEMMA WikiKept ==
    ASSUME WikiTypeOK, WikiInv, GraphsStand, UNCHANGED wikiVars
    PROVE  WikiTypeOK' /\ WikiInv' /\ JobsStand
<1>1. UNCHANGED <<pages, latestPage, pinned, wikiJobs, generator>>
    BY DEF wikiVars
<1>2. WikiTypeOK' /\ JobsStand /\ NumbersGrow
    BY <1>1 DEF WikiTypeOK, JobsStand, NumbersGrow, Latest
<1>3. \A c \in WikiCalls : Generating(c)'
    BY <1>1, <1>2, GenerationKept DEF WikiInv
<1>4. PagesNumbered' /\ PinnedStored' /\ JobsWhole'
    BY <1>1 DEF WikiInv, PagesNumbered, PinnedStored, JobsWhole, Latest, PageId, SameKnowledge
<1>5. PagesGrounded'
    BY <1>1, GroundKept DEF WikiInv, PagesGrounded, Latest
<1> QED BY <1>2, <1>3, <1>4, <1>5 DEF WikiInv

(* A step of one generation that stores nothing.                           *)
LEMMA GenerationMoves ==
    ASSUME WikiTypeOK, WikiInv, NEW c \in WikiCalls, UNCHANGED <<graphs, pages, latestPage, pinned, wikiJobs>>,
           DOMAIN generator' = WikiCalls, DOMAIN generator'[c] = GenerationFields,
           \A d \in WikiCalls \ {c} : generator'[d] = generator[d], Generating(c)'
    PROVE  WikiTypeOK' /\ WikiInv' /\ JobsStand
<1>1. WikiTypeOK' /\ JobsStand /\ NumbersGrow /\ GraphsStand
    BY DEF WikiTypeOK, JobsStand, NumbersGrow, GraphsStand, Latest
<1>2. \A d \in WikiCalls : Generating(d)'
    BY <1>1, GenerationKept DEF WikiInv
<1>3. PagesNumbered' /\ PinnedStored' /\ JobsWhole' /\ PagesGrounded'
    BY DEF WikiInv, PagesNumbered, PinnedStored, JobsWhole, PagesGrounded, Grounded, RevisionAt, Latest, PageId,
       SameKnowledge
<1> QED BY <1>1, <1>2, <1>3 DEF WikiInv

LEMMA Leaving ==
    ASSUME WikiTypeOK, NEW c \in WikiCalls, NEW pc, Leave(c, pc)
    PROVE  /\ DOMAIN generator' = WikiCalls /\ DOMAIN generator'[c] = GenerationFields
           /\ \A d \in WikiCalls \ {c} : generator'[d] = generator[d]
           /\ generator'[c].pc = pc /\ generator'[c].job = generator[c].job
           /\ generator'[c].command = generator[c].command
BY DEF WikiTypeOK, Leave, GenerationFields

Over == {"failed", "conflict", "done", "graph not ready", "insufficient"}
LEMMA GenerationEnds ==
    ASSUME WikiTypeOK, WikiInv, NEW c \in WikiCalls, UNCHANGED <<graphs, pages, latestPage, pinned, wikiJobs>>,
           NEW pc \in Over, Leave(c, pc)
    PROVE  WikiTypeOK' /\ WikiInv' /\ JobsStand
<1>1. /\ DOMAIN generator' = WikiCalls /\ DOMAIN generator'[c] = GenerationFields
      /\ \A d \in WikiCalls \ {c} : generator'[d] = generator[d]
      /\ generator'[c].pc \in Over
    BY Leaving
<1>2. Generating(c)'
    BY <1>1 DEF Generating, Over
<1> QED BY <1>1, <1>2, GenerationMoves

LEMMA StartGenerationStep ==
    ASSUME WikiTypeOK, WikiInv, NEW c \in WikiCalls, NEW w \in Commands, StartGeneration(c, w), UNCHANGED graphs
    PROVE  WikiTypeOK' /\ WikiInv' /\ JobsStand
<1>1. PICK pc \in {"read", "announce", "conflict"}, job \in {Job(c, w), JobFor(w.key), None} :
         /\ generator' = [generator EXCEPT ![c] =
                [NoGeneration EXCEPT !.pc = pc, !.command = w, !.left = w.slugs, !.job = job]]
         /\ pc = "read" => job = Job(c, w)
         /\ pc = "announce" => JobFor(w.key) # None /\ job = JobFor(w.key)
    BY DEF StartGeneration
<1>2. /\ DOMAIN generator' = WikiCalls /\ DOMAIN generator'[c] = GenerationFields
      /\ \A d \in WikiCalls \ {c} : generator'[d] = generator[d]
      /\ generator'[c].pc = pc /\ generator'[c].command = w /\ generator'[c].left = w.slugs
      /\ generator'[c].job = job /\ generator'[c].pages = {}
    BY <1>1 DEF WikiTypeOK, NoGeneration, GenerationFields
<1>3. UNCHANGED <<graphs, pages, latestPage, pinned, wikiJobs>>
    BY DEF StartGeneration
<1>4. pc = "announce" => \E k \in Keys : wikiJobs[k] # None /\ SameKnowledge(wikiJobs[k], job)
    BY <1>1, Commanded DEF JobFor, SameKnowledge
<1>5. Generating(c)'
    BY <1>1, <1>2, <1>3, <1>4 DEF Generating, Job, SameKnowledge
<1> QED BY <1>2, <1>3, <1>5, GenerationMoves

LEMMA ReadKnowledgeStep ==
    ASSUME WikiTypeOK, WikiInv, NEW c \in WikiCalls, NEW draft \in Drafts, ReadKnowledge(c, draft), UNCHANGED graphs
    PROVE  WikiTypeOK' /\ WikiInv' /\ JobsStand
<1> DEFINE w == generator[c].command
           refusal == Refusal(w, GraphAt(w.snapshot).nodes)
           parent == Overview \in ToSet(w.slugs) \/ Latest(w.locale, Overview) > 0
<1>1. generator[c].pc = "read" /\ UNCHANGED <<graphs, pages, latestPage, pinned, wikiJobs>>
    BY DEF ReadKnowledge
<1>2. w \in Commands /\ generator[c].job = Job(c, w) /\ generator[c].left = w.slugs /\ generator[c].pages = {}
    BY <1>1 DEF WikiInv, Generating
<1>3. refusal \in {"graph not ready", "insufficient", "failed", "none"}
    BY DEF Refusal
<1>4. CASE refusal # "none"
    <2>1. Leave(c, refusal) /\ refusal \in Over
        BY <1>3, <1>4 DEF ReadKnowledge, StartPages, Over
    <2> HIDE DEF refusal
    <2> QED BY <1>1, <2>1, GenerationEnds
<1>5. CASE refusal = "none"
    <2>1. generator' = [generator EXCEPT ![c].pc = "pages", ![c].draft = draft, ![c].parent = parent]
        BY <1>5 DEF ReadKnowledge, StartPages
    <2>2. Grounded(w.snapshot, w.graphRevision)
        <3>1. ~GraphNotReady(w)
            BY <1>5 DEF Refusal
        <3> QED BY <3>1 DEF GraphNotReady, Grounded, RevisionAt
    <2> HIDE DEF refusal, parent
    <2>3. /\ DOMAIN generator' = WikiCalls /\ DOMAIN generator'[c] = GenerationFields
          /\ \A d \in WikiCalls \ {c} : generator'[d] = generator[d]
          /\ generator'[c].pc = "pages" /\ generator'[c].command = w /\ generator'[c].left = w.slugs
          /\ generator'[c].pages = {} /\ generator'[c].job = Job(c, w) /\ generator'[c].parent = parent
        BY <1>2, <2>1 DEF WikiTypeOK, GenerationFields
    <2>4. Writing(c)'
        BY <1>1, <1>2, <2>2, <2>3, Commanded DEF Writing, Grounded, RevisionAt, Latest, parent
    <2>5. Generating(c)'
        BY <1>2, <2>3, <2>4 DEF Generating, Job
    <2> QED BY <1>1, <2>3, <2>5, GenerationMoves
<1> QED BY <1>4, <1>5

(* A page cites the commit of the graph, and no other.                     *)
LEMMA PageCites ==
    ASSUME NEW c \in WikiCalls, NEW slug, ~PageRefused(c, slug)
    PROVE  generator[c].draft[slug].commits = {Parsed[generator[c].command.snapshot].commit}
BY DEF PageRefused, CommitsOf

LEMMA TailOfSlugs ==
    ASSUME NEW S, NEW s \in Seq(S), s # <<>>
    PROVE  /\ Tail(s) \in Seq(S) /\ ToSet(s) = {Head(s)} \cup ToSet(Tail(s)) /\ Head(s) \in S
           /\ Len(s) = 1 => Tail(s) = <<>>
<1>1. /\ Len(s) \in Nat \ {0} /\ DOMAIN s = 1..Len(s) /\ Head(s) = s[1] /\ Tail(s) \in Seq(S)
      /\ Len(Tail(s)) = Len(s) - 1 /\ DOMAIN Tail(s) = 1..Len(s) - 1
      /\ \A i \in 1..Len(s) - 1 : Tail(s)[i] = s[i + 1]
    OBVIOUS
<1>2. \A i \in 1..Len(s) : i # 1 => i - 1 \in 1..Len(s) - 1 /\ s[i] = Tail(s)[i - 1]
    BY <1>1
<1>3. \A i \in 1..Len(s) - 1 : i + 1 \in 1..Len(s)
    BY <1>1
<1>4. Head(s) \in S
    BY <1>1
<1>5. ToSet(s) = {Head(s)} \cup ToSet(Tail(s))
    <2>1. ToSet(s) = {s[i] : i \in 1..Len(s)} /\ ToSet(Tail(s)) = {Tail(s)[i] : i \in 1..Len(s) - 1}
        BY <1>1 DEF ToSet
    <2>2. ASSUME NEW x \in ToSet(s) PROVE x \in {Head(s)} \cup ToSet(Tail(s))
        <3>1. PICK i \in 1..Len(s) : x = s[i]
            BY <2>1, <2>2
        <3> QED BY <1>1, <1>2, <2>1, <3>1
    <2>3. ASSUME NEW x \in ToSet(Tail(s)) PROVE x \in ToSet(s)
        <3>1. PICK i \in 1..Len(s) - 1 : x = Tail(s)[i]
            BY <2>1, <2>3
        <3>2. x = s[i + 1] /\ i + 1 \in 1..Len(s)
            BY <1>1, <1>3, <3>1
        <3> QED BY <2>1, <3>2
    <2>4. Head(s) \in ToSet(s)
        BY <1>1, <2>1
    <2> QED BY <2>2, <2>3, <2>4
<1>6. Len(s) = 1 => Tail(s) = <<>>
    BY <1>1
<1> QED BY <1>1, <1>4, <1>5, <1>6

LEMMA BuildPageStep ==
    ASSUME WikiTypeOK, WikiInv, NEW c \in WikiCalls, BuildPage(c), UNCHANGED graphs
    PROVE  WikiTypeOK' /\ WikiInv' /\ JobsStand
<1> DEFINE w == generator[c].command
           slug == Head(generator[c].left)
           page == PageOf(c, slug, Latest(w.locale, slug) + 1)
<1>1. generator[c].pc = "pages" /\ generator[c].left # <<>> /\ UNCHANGED <<graphs, pages, latestPage, pinned, wikiJobs>>
    BY DEF BuildPage
<1>2. w \in Commands /\ generator[c].job = Job(c, w) /\ Writing(c)
    BY <1>1 DEF WikiInv, Generating
<1>3. CASE PageRefused(c, slug)
    BY <1>1, <1>3, GenerationEnds DEF BuildPage, Over
<1>4. CASE ~PageRefused(c, slug)
    <2>1. generator' = [generator EXCEPT ![c].pages = @ \cup {page}, ![c].left = Tail(@),
               ![c].pc = IF Len(generator[c].left) = 1 THEN "save" ELSE "pages"]
        BY <1>4 DEF BuildPage, PageOf
    <2>2. /\ Tail(generator[c].left) \in Seq(ToSet(w.slugs)) /\ slug \in ToSet(w.slugs)
          /\ ToSet(generator[c].left) = {slug} \cup ToSet(Tail(generator[c].left))
          /\ Len(generator[c].left) = 1 => Tail(generator[c].left) = <<>>
        BY <1>1, <1>2, TailOfSlugs DEF Writing
    <2>3. /\ page.slug = slug /\ page.number = Latest(w.locale, slug) + 1
          /\ page.content.commits = {Parsed[w.snapshot].commit}
          /\ page = PageOf(c, page.slug, page.number)
        BY <1>4, PageCites DEF PageOf
    <2>4. Latest(w.locale, slug) \in Nat
        BY <1>2, <2>2, Commanded DEF WikiTypeOK, Latest
    <2> HIDE DEF page, slug
    <2>5. PICK pc \in {"save", "pages"} :
             /\ pc = IF Len(generator[c].left) = 1 THEN "save" ELSE "pages"
             /\ generator' = [generator EXCEPT ![c].pages = @ \cup {page}, ![c].left = Tail(@), ![c].pc = pc]
        BY <2>1
    <2>6. /\ DOMAIN generator' = WikiCalls /\ DOMAIN generator'[c] = GenerationFields
          /\ \A d \in WikiCalls \ {c} : generator'[d] = generator[d]
          /\ generator'[c].pc = pc /\ generator'[c].command = w /\ generator'[c].job = generator[c].job
          /\ generator'[c].pages = generator[c].pages \cup {page} /\ generator'[c].left = Tail(generator[c].left)
          /\ generator'[c].parent = generator[c].parent /\ generator'[c].draft = generator[c].draft
        BY <2>5 DEF WikiTypeOK, GenerationFields
    <2>7. \A s, n : PageOf(c, s, n)' = PageOf(c, s, n)
        BY <2>6 DEF PageOf
    <2>8. \A p \in generator'[c].pages :
             /\ p = PageOf(c, p.slug, p.number) /\ p.number \in 1..Latest(w.locale, p.slug) + 1
             /\ p.content.commits = {Parsed[w.snapshot].commit}
        BY <1>2, <2>3, <2>4, <2>6 DEF Writing
    <2>9. ToSet(w.slugs) = {p.slug : p \in generator'[c].pages} \cup ToSet(Tail(generator[c].left))
        BY <1>2, <2>2, <2>3, <2>6 DEF Writing
    <2>10. Writing(c)'
        <3>1. Grounded(w.snapshot, w.graphRevision)'
            BY <1>1, <1>2, <2>6 DEF Writing, Grounded, RevisionAt
        <3>2. generator'[c].parent => Overview \in ToSet(w.slugs) \/ latestPage'[<<w.locale, Overview>>] > 0
            BY <1>1, <1>2, <2>6 DEF Writing, Latest
        <3>3. \A p \in generator'[c].pages :
                 /\ p = PageOf(c, p.slug, p.number)' /\ p.number \in 1..latestPage'[<<w.locale, p.slug>>] + 1
                 /\ p.content.commits = {Parsed[w.snapshot].commit}
            BY <1>1, <2>7, <2>8 DEF Latest
        <3>4. generator'[c].left \in Seq(ToSet(w.slugs)) /\ generator'[c].command = w
            BY <2>2, <2>6
        <3>5. ToSet(w.slugs) = {p.slug : p \in generator'[c].pages} \cup ToSet(generator'[c].left)
            BY <2>6, <2>9
        <3> QED BY <2>6, <3>1, <3>2, <3>3, <3>4, <3>5 DEF Writing, Latest
    <2>11. Generating(c)'
        BY <1>2, <2>2, <2>5, <2>6, <2>10 DEF Generating, Job
    <2> QED BY <1>1, <2>6, <2>11, GenerationMoves
<1> QED BY <1>3, <1>4

(* What readers of a page keep.                                            *)
PageStands(k) ==
    pinned[k] # None =>
        /\ pinned'[k] # None
        /\ pinned'[k][1] = pinned[k][1]
        /\ \E p \in pages, p2 \in pages' : /\ PageId(p) = pinned[k] /\ PageId(p2) = pinned'[k]
                                          /\ p.content = p2.content
PagesStand == \A k \in Snapshots \X Slugs : PageStands(k)

LEMMA PagesKept ==
    ASSUME WikiInv, UNCHANGED <<pages, pinned>>
    PROVE  PagesStand
<1> SUFFICES ASSUME NEW k \in Snapshots \X Slugs, pinned[k] # None PROVE PageStands(k)
    BY DEF PagesStand, PageStands
<1>1. PICK p \in pages : PageId(p) = pinned[k]
    BY DEF WikiInv, PinnedStored
<1> QED BY <1>1 DEF PageStands

(* A publication that is not refused: all of its pages are new, one for    *)
(* each slug, numbered after the latest.                                   *)
NewPage(c, slug) == PageOf(c, slug, Latest(generator[c].command.locale, slug) + 1)

LEMMA NewPages ==
    ASSUME WikiTypeOK, WikiInv, NEW c \in WikiCalls, generator[c].pc = "save",
           ~\E p \in generator[c].pages : Differs(p) \/ Stale(p)
    PROVE  LET w == generator[c].command
           IN  /\ generator[c].pages = {NewPage(c, slug) : slug \in ToSet(w.slugs)}
               /\ \A slug \in ToSet(w.slugs) :
                     /\ (CHOOSE p \in generator[c].pages : p.slug = slug) = NewPage(c, slug)
                     /\ ~Differs(NewPage(c, slug))
                     /\ NewPage(c, slug).content.commits = {Parsed[w.snapshot].commit}
<1> DEFINE w == generator[c].command
           new == generator[c].pages
<1>1. w \in Commands /\ Writing(c) /\ generator[c].left = <<>>
    BY DEF WikiInv, Generating
<1>2. \A slug \in ToSet(w.slugs) : Latest(w.locale, slug) \in Nat
    BY <1>1, Commanded DEF WikiTypeOK, Latest
<1>3. ToSet(w.slugs) = {p.slug : p \in new}
    <2>1. ToSet(<<>>) = {}
        BY DEF ToSet
    <2> QED BY <1>1, <2>1 DEF Writing
<1>4. \A p \in new : p = NewPage(c, p.slug)
    <2> SUFFICES ASSUME NEW p \in new PROVE p = NewPage(c, p.slug)
        OBVIOUS
    <2>1. p = PageOf(c, p.slug, p.number) /\ p.number \in 1..Latest(w.locale, p.slug) + 1 /\ p.slug \in ToSet(w.slugs)
        BY <1>1, <1>3 DEF Writing
    <2>2. p.locale = w.locale
        BY <2>1 DEF PageOf
    <2>3. ~(Latest(w.locale, p.slug) >= p.number)
        BY <2>2 DEF Stale
    <2>4. p.number = Latest(w.locale, p.slug) + 1
        BY <1>2, <2>1, <2>3
    <2> QED BY <2>1, <2>4 DEF NewPage
<1>5. \A slug \in ToSet(w.slugs) : NewPage(c, slug) \in new /\ NewPage(c, slug).slug = slug
    <2> SUFFICES ASSUME NEW slug \in ToSet(w.slugs) PROVE NewPage(c, slug) \in new /\ NewPage(c, slug).slug = slug
        OBVIOUS
    <2>1. PICK p \in new : p.slug = slug
        BY <1>3
    <2>2. p = NewPage(c, slug)
        BY <1>4, <2>1
    <2> QED BY <2>1, <2>2
<1>6. new = {NewPage(c, slug) : slug \in ToSet(w.slugs)}
    BY <1>3, <1>4, <1>5
<1>7. \A slug \in ToSet(w.slugs) : (CHOOSE p \in new : p.slug = slug) = NewPage(c, slug)
    BY <1>4, <1>5
<1>8. \A slug \in ToSet(w.slugs) :
         ~Differs(NewPage(c, slug)) /\ NewPage(c, slug).content.commits = {Parsed[w.snapshot].commit}
    BY <1>1, <1>5 DEF Writing
<1> QED BY <1>6, <1>7, <1>8

LEMMA PublishStep ==
    ASSUME WikiTypeOK, WikiInv, NEW c \in WikiCalls, SavePublication(c), UNCHANGED graphs,
           JobFor(generator[c].command.key) = None, ~\E p \in generator[c].pages : Differs(p) \/ Stale(p)
    PROVE  WikiTypeOK' /\ WikiInv' /\ JobsStand /\ PagesStand
<1> PICK w \in Commands : w = generator[c].command
    BY DEF SavePublication, WikiInv, Generating
<1> PICK slugs : slugs = ToSet(w.slugs)
    OBVIOUS
<1>1. /\ w.snapshot \in Snapshots /\ w.key \in Keys /\ w.locale \in Locales /\ slugs \subseteq Slugs
      /\ generator[c].pc = "save" /\ generator[c].job = Job(c, w) /\ Writing(c)
    BY Commanded DEF SavePublication, WikiInv, Generating
<1>2. /\ generator[c].pages = {NewPage(c, slug) : slug \in slugs}
      /\ \A slug \in slugs :
            /\ (CHOOSE p \in generator[c].pages : p.slug = slug) = NewPage(c, slug)
            /\ ~Differs(NewPage(c, slug)) /\ NewPage(c, slug).content.commits = {Parsed[w.snapshot].commit}
    BY <1>1, NewPages
<1>3. /\ pages' = pages \cup generator[c].pages
      /\ latestPage' = [k \in DOMAIN latestPage |->
             IF k[1] = w.locale /\ k[2] \in slugs THEN (CHOOSE p \in generator[c].pages : p.slug = k[2]).number
             ELSE latestPage[k]]
      /\ pinned' = [k \in DOMAIN pinned |->
             IF k[1] = w.snapshot /\ k[2] \in slugs THEN PageId(CHOOSE p \in generator[c].pages : p.slug = k[2])
             ELSE pinned[k]]
      /\ wikiJobs' = [wikiJobs EXCEPT ![w.key] = Job(c, w)]
      /\ Leave(c, "announce") /\ wikiJobs[w.key] = None
    BY <1>1 DEF SavePublication, JobFor
<1>4. PICK new : new = [slug \in slugs |-> NewPage(c, slug)]
    OBVIOUS
<1>5. \A slug \in slugs :
         /\ new[slug].locale = w.locale /\ new[slug].slug = slug /\ new[slug].number = Latest(w.locale, slug) + 1
         /\ new[slug].snapshot = w.snapshot /\ new[slug].graphRevision = w.graphRevision
         /\ new[slug].content.commits = {Parsed[w.snapshot].commit} /\ ~Differs(new[slug])
         /\ new[slug].parent => Overview \in slugs \/ Latest(w.locale, Overview) > 0
    BY <1>1, <1>2, <1>4 DEF NewPage, PageOf, Writing
<1>6. pages' = pages \cup {new[slug] : slug \in slugs}
    BY <1>2, <1>3, <1>4
<1>7. ASSUME NEW locale \in Locales, NEW slug \in Slugs
      PROVE  /\ Latest(locale, slug) \in Nat
             /\ Latest(locale, slug)' =
                   IF locale = w.locale /\ slug \in slugs THEN Latest(locale, slug) + 1 ELSE Latest(locale, slug)
    <2>1. <<locale, slug>> \in DOMAIN latestPage /\ Latest(locale, slug) \in Nat
        BY DEF WikiTypeOK, Latest
    <2>2. latestPage'[<<locale, slug>>] =
             IF locale = w.locale /\ slug \in slugs THEN (CHOOSE p \in generator[c].pages : p.slug = slug).number
             ELSE latestPage[<<locale, slug>>]
        BY <1>3, <2>1
    <2>3. CASE locale = w.locale /\ slug \in slugs
        <3>1. (CHOOSE p \in generator[c].pages : p.slug = slug) = new[slug]
            BY <1>2, <1>4, <2>3
        <3>2. latestPage'[<<locale, slug>>] = new[slug].number
            BY <2>2, <2>3, <3>1
        <3> QED BY <1>5, <2>1, <2>3, <3>2 DEF Latest
    <2> QED BY <2>1, <2>2, <2>3 DEF Latest
<1>8. ASSUME NEW s \in Snapshots, NEW slug \in Slugs
      PROVE  pinned'[<<s, slug>>] =
                IF s = w.snapshot /\ slug \in slugs THEN PageId(new[slug]) ELSE pinned[<<s, slug>>]
    <2>1. <<s, slug>> \in DOMAIN pinned
        BY DEF WikiTypeOK
    <2>2. pinned'[<<s, slug>>] =
             IF s = w.snapshot /\ slug \in slugs THEN PageId(CHOOSE p \in generator[c].pages : p.slug = slug)
             ELSE pinned[<<s, slug>>]
        BY <1>3, <2>1
    <2> QED BY <1>2, <1>4, <2>2
<1>9. NumbersGrow
    BY <1>7 DEF NumbersGrow
<1>10. WikiTypeOK'
    <2>1. DOMAIN latestPage' = Locales \X Slugs /\ DOMAIN pinned' = Snapshots \X Slugs /\ DOMAIN wikiJobs' = Keys
        BY <1>3 DEF WikiTypeOK
    <2>2. \A k \in Locales \X Slugs : latestPage'[k] \in Nat
        <3> SUFFICES ASSUME NEW locale \in Locales, NEW slug \in Slugs PROVE latestPage'[<<locale, slug>>] \in Nat
            OBVIOUS
        <3> QED BY <1>7 DEF Latest
    <2>3. latestPage' = [k \in DOMAIN latestPage' |-> latestPage'[k]]
        BY <1>3
    <2>4. latestPage' \in [Locales \X Slugs -> Nat]
        BY <2>1, <2>2, <2>3
    <2>5. DOMAIN generator' = WikiCalls /\ \A d \in WikiCalls : DOMAIN generator'[d] = GenerationFields
        BY <1>3, Leaving DEF WikiTypeOK
    <2> QED BY <2>1, <2>4, <2>5 DEF WikiTypeOK
<1>11. Job(c, w) # None /\ JobsStand
    BY <1>3, WikiAssumption DEF JobsStand, WikiTypeOK
<1>12. wikiJobs'[w.key] = Job(c, w) /\ \A k \in Keys \ {w.key} : wikiJobs'[k] = wikiJobs[k]
    BY <1>1, <1>3 DEF WikiTypeOK
<1> HIDE DEF Latest
<1>13. PagesNumbered'
    <2>1. ASSUME NEW p \in pages'
          PROVE  p.locale \in Locales /\ p.slug \in Slugs /\ p.number \in 1..latestPage'[<<p.locale, p.slug>>]
        <3>1. CASE p \in pages
            BY <1>7, <3>1 DEF WikiInv, PagesNumbered, Latest
        <3>2. CASE p \notin pages
            <4>1. PICK slug \in slugs : p = new[slug]
                BY <1>6, <3>2
            <4>2. p.locale = w.locale /\ p.slug = slug /\ p.number = Latest(w.locale, slug) + 1
                BY <1>5, <4>1
            <4>3. /\ Latest(w.locale, slug) \in Nat
                  /\ latestPage'[<<w.locale, slug>>] = Latest(w.locale, slug) + 1
                BY <1>1, <1>7 DEF Latest
            <4> QED BY <1>1, <4>2, <4>3
        <3> QED BY <3>1, <3>2
    <2>2. ASSUME NEW p \in pages', NEW q \in pages', p.locale = q.locale, p.slug = q.slug, p.number = q.number
          PROVE  p = q
        <3>1. \A o \in pages : o.slug \in slugs => ~(o.locale = w.locale /\ o.number = Latest(w.locale, o.slug) + 1)
            BY <1>1, <1>7 DEF WikiInv, PagesNumbered
        <3> QED BY <1>5, <1>6, <2>2, <3>1 DEF WikiInv, PagesNumbered
    <2>3. ASSUME NEW locale \in Locales, NEW slug \in Slugs, NEW n \in 1..latestPage'[<<locale, slug>>]
          PROVE  \E p \in pages' : p.locale = locale /\ p.slug = slug /\ p.number = n
        <3>1. CASE n \in 1..Latest(locale, slug)
            BY <1>6, <3>1 DEF WikiInv, PagesNumbered
        <3>2. CASE n \notin 1..Latest(locale, slug)
            <4>1. locale = w.locale /\ slug \in slugs /\ n = Latest(locale, slug) + 1
                BY <1>7, <3>2 DEF Latest
            <4> QED BY <1>5, <1>6, <4>1
        <3> QED BY <3>1, <3>2
    <2> QED BY <2>1, <2>2, <2>3 DEF PagesNumbered, Latest
<1>14. PagesGrounded'
    <2>1. GraphsStand
        BY DEF GraphsStand
    <2>2. ASSUME NEW p \in pages
          PROVE  /\ p.snapshot \in Snapshots /\ Grounded(p.snapshot, p.graphRevision)'
                 /\ p.content.commits = {Parsed[p.snapshot].commit}
                 /\ p.parent => latestPage'[<<p.locale, Overview>>] > 0
        <3>1. /\ p.snapshot \in Snapshots /\ Grounded(p.snapshot, p.graphRevision)
              /\ p.content.commits = {Parsed[p.snapshot].commit}
              /\ p.parent => Latest(p.locale, Overview) > 0
              /\ p.locale \in Locales
            BY DEF WikiInv, PagesGrounded, PagesNumbered
        <3>2. Latest(p.locale, Overview) \in Nat /\ Latest(p.locale, Overview) <= latestPage'[<<p.locale, Overview>>]
            BY <1>7, <3>1, OverviewIsASlug DEF Latest
        <3>3. latestPage'[<<p.locale, Overview>>] \in Nat
            BY <1>7, <3>1, OverviewIsASlug DEF Latest
        <3>4. Grounded(p.snapshot, p.graphRevision)'
            BY <3>1 DEF Grounded, RevisionAt
        <3> QED BY <3>1, <3>2, <3>3, <3>4
    <2>3. ASSUME NEW slug \in slugs
          PROVE  /\ new[slug].snapshot \in Snapshots /\ Grounded(new[slug].snapshot, new[slug].graphRevision)'
                 /\ new[slug].content.commits = {Parsed[new[slug].snapshot].commit}
                 /\ new[slug].parent => latestPage'[<<new[slug].locale, Overview>>] > 0
        <3>1. Grounded(w.snapshot, w.graphRevision)'
            BY <1>1 DEF Writing, Grounded, RevisionAt
        <3>2. new[slug].parent => latestPage'[<<w.locale, Overview>>] > 0
            <4>1. /\ Latest(w.locale, Overview) \in Nat
                  /\ latestPage'[<<w.locale, Overview>>] =
                        IF Overview \in slugs THEN Latest(w.locale, Overview) + 1 ELSE Latest(w.locale, Overview)
                BY <1>1, <1>7, OverviewIsASlug DEF Latest
            <4> QED BY <1>5, <4>1
        <3> QED BY <1>1, <1>5, <3>1, <3>2 DEF Grounded, RevisionAt
    <2> QED BY <1>6, <2>2, <2>3 DEF PagesGrounded, Latest
<1>15. PagesStand /\ PinnedStored'
    <2>1. ASSUME NEW s \in Snapshots, NEW slug \in Slugs
          PROVE  /\ PageStands(<<s, slug>>)
                 /\ pinned'[<<s, slug>>] # None => \E p \in pages' : PageId(p) = pinned'[<<s, slug>>]
        <3>1. CASE s = w.snapshot /\ slug \in slugs
            <4>1. pinned'[<<s, slug>>] = PageId(new[slug]) /\ new[slug] \in pages'
                BY <1>6, <1>8, <3>1
            <4>2. PageId(new[slug]) # None
                <5>1. PageId(new[slug]) \in Locales \X Slugs \X Nat
                    BY <1>1, <1>5, <1>7, <3>1 DEF PageId
                <5> QED BY <5>1, WikiAssumption
            <4>3. ASSUME pinned[<<s, slug>>] # None
                  PROVE  \E p \in pages : PageId(p) = pinned[<<s, slug>>] /\ p.content = new[slug].content /\ p.locale = w.locale
                <5>1. StoredPage(pinned[<<s, slug>>]) \in pages /\ PageId(StoredPage(pinned[<<s, slug>>])) = pinned[<<s, slug>>]
                    BY <4>3 DEF StoredPage, WikiInv, PinnedStored
                <5>2. /\ StoredPage(pinned[<<s, slug>>]).content = new[slug].content
                      /\ StoredPage(pinned[<<s, slug>>]).locale = w.locale
                    <6>1. ~Differs(new[slug]) /\ new[slug].snapshot = s /\ new[slug].slug = slug /\ new[slug].locale = w.locale
                        BY <1>5, <3>1
                    <6> QED BY <4>3, <6>1 DEF Differs
                <5> QED BY <5>1, <5>2
            <4>4. PageId(new[slug])[1] = w.locale /\ \A p : PageId(p)[1] = p.locale
                BY <1>5, <3>1 DEF PageId
            <4> QED BY <4>1, <4>2, <4>3, <4>4 DEF PageStands
        <3>2. CASE ~(s = w.snapshot /\ slug \in slugs)
            <4>1. pinned'[<<s, slug>>] = pinned[<<s, slug>>]
                BY <1>8, <3>2
            <4>2. pinned[<<s, slug>>] # None => \E p \in pages : PageId(p) = pinned[<<s, slug>>]
                BY DEF WikiInv, PinnedStored
            <4> QED BY <1>6, <4>1, <4>2 DEF PageStands
        <3> QED BY <3>1, <3>2
    <2> QED BY <2>1 DEF PagesStand, PinnedStored, PageId
<1>16. JobsWhole'
    <2>1. ASSUME NEW k \in Keys \ {w.key}, wikiJobs[k] # None, NEW slug \in wikiJobs[k].slugs
          PROVE  \E p \in pages' : p.slug = slug /\ SameKnowledge(wikiJobs[k], p)
        BY <1>6, <2>1 DEF WikiInv, JobsWhole
    <2>2. ASSUME NEW slug \in slugs
          PROVE  \E p \in pages' : p.slug = slug /\ SameKnowledge(Job(c, w), p)
        BY <1>5, <1>6 DEF Job, SameKnowledge
    <2> QED BY <1>12, <2>1, <2>2 DEF JobsWhole, SameKnowledge, Job
<1>17. \A d \in WikiCalls : Generating(d)'
    <2>1. /\ \A d \in WikiCalls \ {c} : generator'[d] = generator[d]
          /\ generator'[c].pc = "announce" /\ generator'[c].job = Job(c, w) /\ generator'[c].command = w
        BY <1>1, <1>3, Leaving
    <2>2. GraphsStand
        BY DEF GraphsStand
    <2>3. \A d \in WikiCalls \ {c} : Generating(d)'
        BY <1>9, <1>10, <1>11, <2>1, <2>2, GenerationKept DEF WikiInv
    <2>4. Generating(c)'
        BY <1>1, <1>11, <1>12, <2>1 DEF Generating, SameKnowledge
    <2> QED BY <2>3, <2>4
<1> QED BY <1>10, <1>11, <1>13, <1>14, <1>15, <1>16, <1>17 DEF WikiInv

LEMMA SavePublicationStep ==
    ASSUME WikiTypeOK, WikiInv, NEW c \in WikiCalls, SavePublication(c), UNCHANGED graphs
    PROVE  WikiTypeOK' /\ WikiInv' /\ JobsStand /\ PagesStand
<1> DEFINE w == generator[c].command
           was == JobFor(w.key)
<1>1. generator[c].pc = "save" /\ w \in Commands /\ w.key \in Keys /\ generator[c].job = Job(c, w)
    BY Commanded DEF SavePublication, WikiInv, Generating
<1>2. CASE /\ Leave(c, "conflict") /\ UNCHANGED <<pages, latestPage, pinned, wikiJobs>>
    BY <1>2, GenerationEnds, PagesKept DEF Over
<1>3. CASE /\ was # None /\ SameKnowledge(was, w)
           /\ Leave(c, "announce") /\ UNCHANGED <<pages, latestPage, pinned, wikiJobs>>
    <2>1. /\ DOMAIN generator' = WikiCalls /\ DOMAIN generator'[c] = GenerationFields
          /\ \A d \in WikiCalls \ {c} : generator'[d] = generator[d]
          /\ generator'[c].pc = "announce" /\ generator'[c].job = generator[c].job /\ generator'[c].command = w
        BY <1>3, Leaving
    <2>2. SameKnowledge(was, generator[c].job)
        BY <1>1, <1>3 DEF SameKnowledge, Job
    <2>3. Generating(c)'
        BY <1>1, <1>3, <2>1, <2>2 DEF Generating, SameKnowledge, JobFor
    <2> QED BY <1>3, <2>1, <2>3, GenerationMoves, PagesKept
<1>4. CASE was = None /\ ~\E p \in generator[c].pages : Differs(p) \/ Stale(p)
    BY <1>4, PublishStep
<1> QED BY <1>2, <1>3, <1>4 DEF SavePublication

LEMMA WikiMoves ==
    ASSUME WikiTypeOK, WikiInv, WikiStep
    PROVE  /\ WikiTypeOK' /\ WikiInv' /\ JobsStand /\ PagesStand
           /\ \/ announced' = announced
              \/ \E c \in WikiCalls :
                    generator[c].pc = "announce" /\ announced' = announced \cup {WikiEvent(generator[c].job)}
<1>1. WikiNext /\ UNCHANGED graphs
    BY DEF WikiStep, graphVars
<1>2. ASSUME NEW c \in WikiCalls, AnnounceWiki(c) \/ CancelGeneration(c)
      PROVE  WikiTypeOK' /\ WikiInv' /\ JobsStand /\ PagesStand
    <2>1. PICK pc \in Over : Leave(c, pc)
        BY <1>2 DEF AnnounceWiki, CancelGeneration, Over
    <2> QED BY <1>1, <1>2, <2>1, GenerationEnds, PagesKept DEF AnnounceWiki, CancelGeneration
<1>3. ASSUME NEW c \in WikiCalls,
             \/ \E w \in Commands : StartGeneration(c, w)
             \/ \E draft \in Drafts : ReadKnowledge(c, draft)
             \/ BuildPage(c)
      PROVE  WikiTypeOK' /\ WikiInv' /\ JobsStand /\ PagesStand
    <2>1. PagesStand
        BY <1>3, PagesKept DEF StartGeneration, ReadKnowledge, BuildPage
    <2> QED BY <1>1, <1>3, <2>1, StartGenerationStep, ReadKnowledgeStep, BuildPageStep
<1>4. WikiTypeOK' /\ WikiInv' /\ JobsStand /\ PagesStand
    BY <1>1, <1>2, <1>3, SavePublicationStep DEF WikiNext
<1>5. \/ announced' = announced
      \/ \E c \in WikiCalls :
            generator[c].pc = "announce" /\ announced' = announced \cup {WikiEvent(generator[c].job)}
    BY <1>1 DEF WikiNext, StartGeneration, ReadKnowledge, BuildPage, SavePublication, AnnounceWiki, CancelGeneration
<1> QED BY <1>4, <1>5

-----------------------------------------------------------------------------
(* What an event says, while it lies on the bus.                           *)
EventTold(e) ==
    \/ e.type = "graph" /\ e.snapshot \in Snapshots /\ graphs[e.snapshot] # None /\ RevisionAt(e.snapshot) = e.id
    \/ e.type = "index" /\ \E r \in revisions : r.snapshot = e.snapshot /\ r.content = e.content
    \/ e.type = "wiki" /\ \E k \in Keys : wikiJobs[k] # None /\ wikiJobs[k].snapshot = e.snapshot
                                            /\ wikiJobs[k].graphRevision = e.content
    \/ e.type = "run" /\ e.id \in Runs
    \/ /\ e.type = "proposal" /\ e.id \in Proposers /\ proposals[e.id] # None
       /\ proposals[e.id].status = "APPLIED" /\ proposals[e.id].base = e.content
EventsTold == \A e \in announced : EventTold(e)

LEMMA EventKept ==
    ASSUME NEW e, EventTold(e), GraphsStand, revisions \subseteq revisions', JobsStand, ProposalsStand
    PROVE  EventTold(e)'
<1>1. CASE e.type = "graph" /\ e.snapshot \in Snapshots /\ graphs[e.snapshot] # None /\ RevisionAt(e.snapshot) = e.id
    BY <1>1 DEF EventTold, GraphsStand, RevisionAt
<1>2. CASE e.type = "index" /\ \E r \in revisions : r.snapshot = e.snapshot /\ r.content = e.content
    BY <1>2 DEF EventTold
<1>3. CASE e.type = "wiki" /\ \E k \in Keys : wikiJobs[k] # None /\ wikiJobs[k].snapshot = e.snapshot
                                                /\ wikiJobs[k].graphRevision = e.content
    BY <1>3 DEF EventTold, JobsStand
<1>4. CASE e.type = "run" /\ e.id \in Runs
    BY <1>4 DEF EventTold
<1>5. CASE /\ e.type = "proposal" /\ e.id \in Proposers /\ proposals[e.id] # None
           /\ proposals[e.id].status = "APPLIED" /\ proposals[e.id].base = e.content
    BY <1>5 DEF EventTold, ProposalsStand
<1> QED BY <1>1, <1>2, <1>3, <1>4, <1>5 DEF EventTold

PublicationInv ==
    /\ AgentTypeOK /\ AgentInv /\ CallTypeOK /\ CallsInv
    /\ AssistantTypeOK /\ AssistantInv
    /\ GraphTypeOK /\ IndexInv /\ WikiTypeOK /\ WikiInv
    /\ EventsTold

(* The tools and the assistant announce runs and applied proposals.        *)
LEMMA ToolsAnnounce ==
    ASSUME ToolStep
    PROVE  announced \subseteq announced' /\ \A e \in announced' \ announced : e.type = "run" /\ e.id \in Runs
<1>1. ASSUME NEW r \in Runs, RunActions(r)
      PROVE  announced' = announced \/ announced' = announced \cup {RunEvent(r)}
    BY <1>1 DEF RunActions, Plan, RetrievalCancelled, Evaluate, GenerationFails, SaveRun, PublishRun, ChooseContext,
       RecordFailure, RetrieveRound, Generate
<1>2. \A r : RunEvent(r).type = "run" /\ RunEvent(r).id = r
    BY DEF RunEvent
<1>3. CASE AgentNext
    <2>1. PICK r \in Runs : RunActions(r)
        BY <1>3 DEF AgentNext, RunActions
    <2> QED BY <1>1, <1>2, <2>1
<1>4. CASE UNCHANGED announced
    BY <1>4
<1> QED BY <1>3, <1>4 DEF ToolStep, ToolNext, Tick, StartCall, Allow, Operate, StartAsk, Receive, StopWaiting,
           EndContext, Finalize

LEMMA AssistantAnnounces ==
    ASSUME AssistantTypeOK, AssistantInv, AssistantStep
    PROVE  \/ announced' = announced
           \/ \E p \in Proposers : /\ proposals[p] # None /\ proposals[p].status = "APPLIED" /\ UNCHANGED proposals
                                   /\ announced' = announced \cup {ProposalEvent(p)}
<1>1. ASSUME NEW v \in Reviews, AnnounceProposal(v)
      PROVE  \/ announced' = announced
             \/ \E p \in Proposers : /\ proposals[p] # None /\ proposals[p].status = "APPLIED" /\ UNCHANGED proposals
                                     /\ announced' = announced \cup {ProposalEvent(p)}
    BY <1>1 DEF AnnounceProposal, AssistantInv, Reviewing, recordVars
<1> QED BY <1>1, AssistantActs DEF AssistantStep

LEMMA PublicationStep ==
    ASSUME PublicationInv, [Next]_vars
    PROVE  PublicationInv' /\ GraphsStand /\ PagesStand
<1> USE DEF PublicationInv
<1>1. AgentTypeOK' /\ AgentInv' /\ CallTypeOK' /\ CallsInv'
    BY KnowledgeStep
<1>2. AssistantTypeOK' /\ AssistantInv' /\ ProposalsStand
    BY AssistantStepKept, ProposalsStep
<1>3. ASSUME GraphTypeOK', IndexInv', WikiTypeOK', WikiInv', GraphsStand, JobsStand, PagesStand,
             revisions \subseteq revisions', \A e \in announced' \ announced : EventTold(e)'
      PROVE  PublicationInv' /\ GraphsStand /\ PagesStand
    <2>1. EventsTold'
        BY <1>2, <1>3, EventKept DEF EventsTold
    <2> QED BY <1>1, <1>2, <1>3, <2>1
<1>4. UNCHANGED graphVars => GraphTypeOK' /\ GraphsStand
    BY DEF graphVars, GraphTypeOK, GraphsStand, RevisionAt
<1>5. UNCHANGED indexVars => IndexInv' /\ revisions \subseteq revisions'
    BY DEF indexVars, IndexInv
<1>6. UNCHANGED wikiVars /\ GraphsStand => WikiTypeOK' /\ WikiInv' /\ JobsStand /\ PagesStand
    BY WikiKept, PagesKept DEF wikiVars
<1>7. CASE GraphStep
    <2>1. GraphTypeOK' /\ GraphsStand
        BY <1>7, GraphKept
    <2>2. \A e \in announced' \ announced : EventTold(e)'
        <3>1. CASE announced' = announced
            BY <3>1
        <3>2. ASSUME NEW s \in Snapshots, RevisionAt(s)' = graphs'[s].id, graphs'[s] # None, announced' = announced \cup {GraphEvent(s)}
              PROVE  \A e \in announced' \ announced : EventTold(e)'
            <4>1. PICK event : event = GraphEvent(s)
                OBVIOUS
            <4>2. event.type = "graph" /\ event.snapshot = s /\ event.id = graphs'[s].id
                BY <4>1 DEF GraphEvent
            <4>3. \A e \in announced' \ announced : e = event
                BY <3>2, <4>1
            <4>4. EventTold(event)'
                BY <3>2, <4>2 DEF EventTold
            <4> QED BY <4>3, <4>4
        <3> QED BY <1>7, <3>1, <3>2, GraphKept
    <2> QED BY <1>3, <1>5, <1>6, <1>7, <2>1, <2>2 DEF GraphStep
<1>8. CASE IndexStep
    <2>1. IndexInv' /\ revisions \subseteq revisions'
        BY <1>8, IndexKept
    <2>2. \A e \in announced' \ announced : EventTold(e)'
        <3>1. ASSUME NEW c \in IndexCalls, indexer[c].pc = "announce", announced' = announced \cup {IndexEvent(indexer[c].revision)}
              PROVE  \A e \in announced' \ announced : EventTold(e)'
            <4>1. \E r \in revisions' : r.snapshot = indexer[c].revision.snapshot /\ r.content = indexer[c].revision.content
                BY <2>1, <3>1 DEF IndexInv
            <4> DEFINE event == IndexEvent(indexer[c].revision)
            <4>2. /\ event.type = "index" /\ event.snapshot = indexer[c].revision.snapshot
                  /\ event.content = indexer[c].revision.content
                BY DEF IndexEvent
            <4> QED BY <3>1, <4>1, <4>2 DEF EventTold
        <3> QED BY <1>8, <3>1, IndexKept
    <2> QED BY <1>3, <1>4, <1>6, <1>8, <2>1, <2>2 DEF IndexStep
<1>9. CASE WikiStep
    <2>1. WikiTypeOK' /\ WikiInv' /\ JobsStand /\ PagesStand
        BY <1>9, WikiMoves
    <2>2. \A e \in announced' \ announced : EventTold(e)'
        <3>1. ASSUME NEW c \in WikiCalls, generator[c].pc = "announce", announced' = announced \cup {WikiEvent(generator[c].job)}
              PROVE  \A e \in announced' \ announced : EventTold(e)'
            <4>1. \E k \in Keys : wikiJobs'[k] # None /\ SameKnowledge(wikiJobs'[k], generator[c].job)
                BY <2>1, <3>1 DEF WikiInv, Generating, JobsStand
            <4> DEFINE event == WikiEvent(generator[c].job)
            <4>2. /\ event.type = "wiki" /\ event.snapshot = generator[c].job.snapshot
                  /\ event.content = generator[c].job.graphRevision
                BY DEF WikiEvent
            <4> QED BY <3>1, <4>1, <4>2 DEF EventTold, SameKnowledge
        <3> QED BY <1>9, <3>1, WikiMoves
    <2> QED BY <1>3, <1>4, <1>5, <1>9, <2>1, <2>2 DEF WikiStep
<1>10. CASE ToolStep
    <2>1. \A e \in announced' \ announced : EventTold(e)'
        BY <1>10, ToolsAnnounce DEF EventTold
    <2> QED BY <1>3, <1>4, <1>5, <1>6, <1>10, <2>1 DEF ToolStep
<1>11. CASE AssistantStep
    <2>1. \A e \in announced' \ announced : EventTold(e)'
        <3>1. ASSUME NEW p \in Proposers, proposals[p] # None, proposals[p].status = "APPLIED", UNCHANGED proposals,
                     announced' = announced \cup {ProposalEvent(p)}
              PROVE  \A e \in announced' \ announced : EventTold(e)'
            <4>1. ProposalEvent(p).type = "proposal" /\ ProposalEvent(p).id = p /\ ProposalEvent(p).content = proposals[p].base
                BY DEF ProposalEvent
            <4> QED BY <3>1, <4>1 DEF EventTold
        <3> QED BY <1>11, <3>1, AssistantAnnounces
    <2> QED BY <1>3, <1>4, <1>5, <1>6, <1>11, <2>1 DEF AssistantStep
<1>12. CASE UNCHANGED vars
    BY <1>3, <1>4, <1>5, <1>6, <1>12 DEF vars
<1> QED BY <1>7, <1>8, <1>9, <1>10, <1>11, <1>12 DEF Next

-----------------------------------------------------------------------------
LEMMA PublicationInductive == Spec => []PublicationInv
<1>1. Init => GraphTypeOK /\ IndexInv /\ WikiTypeOK /\ WikiInv /\ EventsTold
    <2> SUFFICES ASSUME Init PROVE GraphTypeOK /\ IndexInv /\ WikiTypeOK /\ WikiInv /\ EventsTold
        OBVIOUS
    <2>1. GraphTypeOK
        BY DEF Init, GraphInit, GraphTypeOK
    <2>2. IndexInv
        BY DEF Init, IndexInit, IndexInv
    <2>3. WikiTypeOK
        BY DEF Init, WikiInit, WikiTypeOK, NoGeneration, GenerationFields
    <2>4. PagesNumbered /\ PagesGrounded /\ PinnedStored /\ JobsWhole
        BY DEF Init, WikiInit, PagesNumbered, PagesGrounded, PinnedStored, JobsWhole, Latest
    <2>5. \A c \in WikiCalls : generator[c].pc = "idle"
        BY DEF Init, WikiInit, NoGeneration
    <2>6. \A c \in WikiCalls : Generating(c)
        BY <2>5 DEF Generating
    <2>7. EventsTold
        BY DEF Init, EventsTold
    <2> QED BY <2>1, <2>2, <2>3, <2>4, <2>6, <2>7 DEF WikiInv
<1>2. PublicationInv /\ [Next]_vars => PublicationInv'
    BY PublicationStep
<1>3. PublicationInv <=> /\ AgentTypeOK /\ AgentInv /\ CallTypeOK /\ CallsInv
                         /\ AssistantTypeOK /\ AssistantInv
                         /\ GraphTypeOK /\ IndexInv /\ WikiTypeOK /\ WikiInv /\ EventsTold
    BY DEF PublicationInv
<1> QED BY <1>1, <1>2, <1>3, AgentInductive, AssistantInductive, PTL DEF Spec

(* Of racing generations of one page one wins: its revisions are numbered  *)
(* without a gap, each number once, and the latest is the last of them.    *)
THEOREM RacingGenerationsNumberPages == Spec => []RevisionsAreGapless
<1>1. WikiTypeOK /\ PagesNumbered => RevisionsAreGapless
    <2> SUFFICES ASSUME WikiTypeOK, PagesNumbered, NEW locale \in Locales, NEW slug \in Slugs
                 PROVE  LET own == {p \in pages : p.locale = locale /\ p.slug = slug}
                        IN /\ {p.number : p \in own} = 1..Latest(locale, slug)
                           /\ Cardinality(own) = Latest(locale, slug)
        BY DEF RevisionsAreGapless
    <2> DEFINE own == {p \in pages : p.locale = locale /\ p.slug = slug}
               last == Latest(locale, slug)
    <2>1. last \in Nat
        BY DEF WikiTypeOK, Latest
    <2>2. {p.number : p \in own} = 1..last
        BY DEF PagesNumbered
    <2>3. \A p, q \in own : p.number = q.number => p = q
        BY DEF PagesNumbered
    <2> DEFINE numbered == [p \in own |-> p.number]
    <2> HIDE DEF own, last
    <2>4. numbered \in Injection(own, 1..last) /\ numbered \in Surjection(own, 1..last)
        BY <2>2, <2>3 DEF Injection, IsInjective, Surjection
    <2>5. IsFiniteSet(1..last) /\ Cardinality(1..last) = last
        BY <2>1, FS_Interval
    <2> HIDE DEF numbered
    <2>6. Cardinality(own) = last
        BY <2>4, <2>5, FS_Injection
    <2> QED BY <2>2, <2>6 DEF own, last
<1> QED BY <1>1, PublicationInductive, PTL DEF PublicationInv, WikiInv

(* A published wiki is whole and rests on one graph: every page of a job   *)
(* is stored, names the published graph of its snapshot, cites only that   *)
(* graph's commit and hangs under a page that exists.                      *)
THEOREM PublishedWikisAreWhole == Spec => []WikiRestsOnItsGraph
<1>1. WikiInv => WikiRestsOnItsGraph
    BY DEF WikiInv, JobsWhole, PagesGrounded, Grounded, WikiRestsOnItsGraph
<1> QED BY <1>1, PublicationInductive, PTL DEF PublicationInv

(* A graph is never replaced, and a page of a snapshot keeps its content   *)
(* and its language, whatever is generated after it.                       *)
THEOREM WhatReadersSeeStays == Spec => ReadersKeepTheirPages
<1>1. PublicationInv /\ [Next]_vars
         => [/\ \A s \in Snapshots : graphs[s] # None => graphs'[s] = graphs[s]
             /\ \A k \in DOMAIN pinned : pinned[k] # None =>
                   /\ pinned'[k] # None
                   /\ pinned'[k][1] = pinned[k][1]
                   /\ \E p \in pages, p2 \in pages' : /\ PageId(p) = pinned[k] /\ PageId(p2) = pinned'[k]
                                                     /\ p.content = p2.content]_vars
    BY PublicationStep DEF PublicationInv, WikiTypeOK, GraphsStand, PagesStand, PageStands
<1> QED BY <1>1, PublicationInductive, PTL DEF Spec, ReadersKeepTheirPages

(* An event names knowledge that can be read: a graph, an index of that    *)
(* content, a wiki of that graph, the answer of a run, an applied proposal.*)
THEOREM EventsNameWhatIsStored == Spec => []AnnouncedIsStored
<1>1. AgentInv /\ EventsTold => AnnouncedIsStored
    <2> SUFFICES ASSUME AgentInv, EventsTold, NEW e \in announced
                 PROVE  CASE e.type = "graph" -> RevisionAt(e.snapshot) = e.id
                          [] e.type = "index" -> \E r \in revisions : r.snapshot = e.snapshot /\ r.content = e.content
                          [] e.type = "wiki" -> \E k \in Keys : wikiJobs[k] # None /\ wikiJobs[k].snapshot = e.snapshot
                                                                  /\ wikiJobs[k].graphRevision = e.content
                          [] e.type = "run" -> runs[e.id] = [status |-> "COMPLETED", answer |-> e.content]
                          [] e.type = "proposal" -> proposals[e.id].status = "APPLIED" /\ proposals[e.id].base = e.content
        BY DEF AnnouncedIsStored
    <2>1. EventTold(e)
        BY DEF EventsTold
    <2>2. CASE e.type = "run"
        <3>1. e.id \in Runs
            BY <2>1, <2>2 DEF EventTold
        <3>2. Storing(e.id) /\ Announcing(e.id)
            BY <3>1 DEF AgentInv, RunInv
        <3>3. runs[e.id] = [status |-> "COMPLETED", answer |-> e.content]
            BY <2>2, <3>1, <3>2 DEF Storing, Announcing
        <3> QED BY <2>2, <3>3
    <2>3. CASE e.type = "graph"
        BY <2>1, <2>3 DEF EventTold
    <2>4. CASE e.type = "index"
        BY <2>1, <2>4 DEF EventTold
    <2>5. CASE e.type = "wiki"
        BY <2>1, <2>5 DEF EventTold
    <2>6. CASE e.type = "proposal"
        BY <2>1, <2>6 DEF EventTold
    <2> QED BY <2>1, <2>2, <2>3, <2>4, <2>5, <2>6 DEF EventTold
<1> QED BY <1>1, PublicationInductive, PTL DEF PublicationInv

-----------------------------------------------------------------------------
(***************************************************************************)
(* What the agent answers. A run reads the documents and the graph of one  *)
(* commit, so its citations are of that commit.                            *)
(***************************************************************************)

LEMMA SequenceIsFinite ==
    ASSUME NEW s, s \in Seq(ToSet(s))
    PROVE  IsFiniteSet(ToSet(s)) /\ DOMAIN s = 1..Len(s) /\ Len(s) \in Nat /\ ToSet(s) = {s[i] : i \in 1..Len(s)}
<1>1. PICK n \in Nat : n = Len(s) /\ DOMAIN s = 1..n
    OBVIOUS
<1>2. PICK I : I = 1..n
    OBVIOUS
<1>3. s \in Surjection(I, ToSet(s))
    BY <1>1, <1>2 DEF ToSet, Surjection
<1>4. IsFiniteSet(I)
    BY <1>2, FS_Interval
<1> QED BY <1>1, <1>3, <1>4, FS_Surjection DEF ToSet

(* A sequence whose members have as many different fields as it is long    *)
(* repeats none.                                                           *)
LEMMA NoneRepeats ==
    ASSUME NEW s, s \in Seq(ToSet(s)), NEW field, NEW F, F = {field[a] : a \in ToSet(s)}, Cardinality(F) = Len(s)
    PROVE  \A a, b \in ToSet(s) : field[a] = field[b] => a = b
<1>1. PICK n \in Nat : n = Len(s) /\ DOMAIN s = 1..n /\ ToSet(s) = {s[i] : i \in 1..n}
    BY SequenceIsFinite
<1>2. PICK I : I = 1..n
    OBVIOUS
<1> DEFINE h == [i \in I |-> field[s[i]]]
<1>3. h \in Surjection(I, F)
    <2>1. h \in [I -> F]
        BY <1>1, <1>2
    <2>2. ASSUME NEW t \in F PROVE \E i \in I : h[i] = t
        <3>1. PICK a \in ToSet(s) : t = field[a]
            OBVIOUS
        <3>2. PICK i \in I : a = s[i]
            BY <1>1, <1>2
        <3> QED BY <3>1, <3>2
    <2> QED BY <2>1, <2>2 DEF Surjection
<1>4. IsFiniteSet(I) /\ Cardinality(I) = n
    BY <1>2, FS_Interval
<1>5. h \in Injection(I, F)
    <2> HIDE DEF h
    <2> QED BY <1>1, <1>3, <1>4, FS_Surjection
<1>6. \A i, j \in I : field[s[i]] = field[s[j]] => i = j
    BY <1>5 DEF Injection, IsInjective
<1>7. ASSUME NEW a \in ToSet(s), NEW b \in ToSet(s), field[a] = field[b] PROVE a = b
    <2>1. PICK i \in I : a = s[i]
        BY <1>1, <1>2
    <2>2. PICK j \in I : b = s[j]
        BY <1>1, <1>2
    <2> QED BY <1>6, <1>7, <2>1, <2>2
<1> QED BY <1>7

-----------------------------------------------------------------------------
(* The documents of a revision: one for an artifact, each with an id.      *)
Documents(docs) ==
    /\ IsFiniteSet(docs)
    /\ \A d \in docs : d.id \in Nat /\ d.artifact \in Nat /\ d.commit \in ToSet(Commits)
    /\ \A d \in docs : d.text \in Seq(ToSet(d.text)) /\ d.text # <<>>
    /\ \A d, e \in docs : d.id = e.id => d = e

LEMMA BuiltDocuments ==
    ASSUME NEW input \in Inputs, Indexable(input)
    PROVE  Documents(BuildDocuments(input))
<1>1. input \in Seq(ToSet(input)) /\ IsFiniteSet(ToSet(input))
    BY InputsAssumption, SequenceIsFinite
<1> DEFINE artifact == [a \in ToSet(input) |-> a.artifact]
           doc == [a \in ToSet(input) |-> [id |-> DocumentId(a), artifact |-> a.artifact, commit |-> a.commit,
                      language |-> a.language, kind |-> a.kind, path |-> a.path, terms |-> a.terms, text |-> a.text]]
<1>2. \A a, b \in ToSet(input) : a.artifact = b.artifact => a = b
    <2>1. Cardinality({a.artifact : a \in ToSet(input)}) = Len(input)
        BY DEF Indexable
    <2>2. PICK F : F = {artifact[a] : a \in ToSet(input)}
        OBVIOUS
    <2>3. F = {a.artifact : a \in ToSet(input)}
        BY <2>2
    <2>4. \A a \in ToSet(input) : artifact[a] = a.artifact
        OBVIOUS
    <2> HIDE DEF artifact
    <2>5. \A a, b \in ToSet(input) : artifact[a] = artifact[b] => a = b
        BY <1>1, <2>1, <2>2, <2>3, NoneRepeats
    <2> QED BY <2>4, <2>5
<1>3. PICK docs : docs = BuildDocuments(input)
    OBVIOUS
<1>4. docs = {doc[a] : a \in ToSet(input)}
    BY <1>3 DEF BuildDocuments
<1>5. \A a \in ToSet(input) :
          doc[a].id = DocumentId(a) /\ doc[a].artifact = a.artifact /\ doc[a].commit = a.commit /\ doc[a].text = a.text
    OBVIOUS
<1>6. IsFiniteSet(docs)
    <2>1. doc \in Surjection(ToSet(input), docs)
        BY <1>4 DEF Surjection
    <2> HIDE DEF doc
    <2> QED BY <2>1, <1>1, FS_Surjection
<1> HIDE DEF doc
<1>7. \A a \in ToSet(input) : a.artifact \in Nat /\ DocumentId(a) \in Nat /\ a.commit \in ToSet(Commits)
    BY InputsAssumption, AgentAssumption
<1>8. \A a, b \in ToSet(input) : DocumentId(a) = DocumentId(b) => a = b
    BY <1>2, InputsAssumption
<1>9. \A a \in ToSet(input) : a.text \in Seq(ToSet(a.text)) /\ a.text # <<>>
    BY InputsAssumption
<1>10. \A d \in docs : d.id \in Nat /\ d.artifact \in Nat /\ d.commit \in ToSet(Commits)
    BY <1>4, <1>5, <1>7
<1>11. \A d, e \in docs : d.id = e.id => d = e
    BY <1>4, <1>5, <1>8
<1>12. \A d \in docs : d.text \in Seq(ToSet(d.text)) /\ d.text # <<>>
    BY <1>4, <1>5, <1>9
<1> QED BY <1>3, <1>6, <1>10, <1>11, <1>12 DEF Documents

(* What a search may return: documents it scored, each once, in the order  *)
(* of their scores.                                                        *)
Hits(docs) == [document : docs, score : Nat]
Before(a, b) == a.score > b.score \/ (a.score = b.score /\ a.document.id < b.document.id)

LEMMA HitsAreSorted ==
    ASSUME NEW docs, Documents(docs), NEW hits \in Seq(Hits(docs)),
           \A i, k \in DOMAIN hits : hits[i].document = hits[k].document => i = k
    PROVE  \E R : /\ Lists(SortHits(hits), ToSet(hits), R)
                  /\ \A a, b \in ToSet(hits) : <<a, b>> \in R <=> Before(a, b)
<1>1. hits \in Seq(ToSet(hits)) /\ IsFiniteSet(ToSet(hits)) /\ ToSet(hits) \subseteq Hits(docs)
    <2>1. hits \in Seq(ToSet(hits)) /\ ToSet(hits) \subseteq Hits(docs)
        BY DEF ToSet
    <2> QED BY <2>1, SequenceIsFinite
<1>2. PICK S : S = ToSet(hits)
    OBVIOUS
<1>3. PICK R : R = {p \in S \X S : Before(p[1], p[2])}
    OBVIOUS
<1>4. \A a, b \in S : <<a, b>> \in R <=> Before(a, b)
    BY <1>3
<1>5. \A a \in S : a.score \in Nat /\ a.document \in docs /\ a.document.id \in Nat /\ a = [document |-> a.document, score |-> a.score]
    BY <1>1, <1>2 DEF Hits, Documents
<1>6. \A a, b \in S : a.document.id = b.document.id => a = b
    <2>1. \A a, b \in S : a.document = b.document => a = b
        BY <1>2 DEF ToSet
    <2> QED BY <2>1, <1>5 DEF Documents
<1>7. StrictOrder(S, R)
    <2>1. \A x, y \in S : <<x, y>> \in R => <<y, x>> \notin R
        BY <1>4, <1>5 DEF Before
    <2>2. \A x, y \in S : x # y => <<x, y>> \in R \/ <<y, x>> \in R
        BY <1>4, <1>5, <1>6 DEF Before
    <2>3. \A x, y, z \in S : <<x, y>> \in R /\ <<y, z>> \in R => <<x, z>> \in R
        <3> SUFFICES ASSUME NEW x \in S, NEW y \in S, NEW z \in S, <<x, y>> \in R, <<y, z>> \in R
                     PROVE  <<x, z>> \in R
            OBVIOUS
        <3>1. Before(x, y) /\ Before(y, z)
            BY <1>4
        <3>2. Before(x, z)
            BY <1>5, <3>1 DEF Before
        <3> QED BY <1>4, <3>2
    <2> QED BY <2>1, <2>2, <2>3 DEF StrictOrder
<1>8. Lists(Sorted(S, R), S, R)
    BY <1>1, <1>2, <1>7, SortedLists
<1>9. SortHits(hits) = Sorted(S, R)
    <2> DEFINE place == [x \in S |-> Cardinality({y \in S : Before(y, x)}) + 1]
               sorted == [x \in S |-> Cardinality({y \in S : <<y, x>> \in R}) + 1]
    <2>1. \A x \in S : {y \in S : Before(y, x)} = {y \in S : <<y, x>> \in R}
        BY <1>4
    <2>2. place = sorted
        BY <2>1
    <2>3. SortHits(hits) = [i \in 1..Cardinality(S) |-> CHOOSE x \in S : place[x] = i]
        BY <1>2 DEF SortHits, Ordered, Before
    <2>4. Sorted(S, R) = [i \in 1..Cardinality(S) |-> CHOOSE x \in S : sorted[x] = i]
        BY DEF Sorted
    <2> HIDE DEF place, sorted
    <2> QED BY <2>2, <2>3, <2>4
<1> QED BY <1>2, <1>4, <1>8, <1>9

LEMMA ScoresAreOfDocuments ==
    ASSUME NEW r, NEW docs, NEW g
    PROVE  DOMAIN Score(r, docs, g) = docs
<1> DEFINE uses(s) == Active(r) \cap {s, "GRAPH"} # {}
           row(d) == [SYMBOL |-> IF uses("SYMBOL") THEN SymbolScore(r.query, d) ELSE 0,
                      KEYWORD |-> IF uses("KEYWORD") THEN KeywordScores(r.query, docs)[d] ELSE 0,
                      SEMANTIC |-> IF "SEMANTIC" \in Active(r) /\ Cosine(r.query, d) > 0 THEN Cosine(r.query, d) ELSE 0,
                      GRAPH |-> 0]
<1>0. BaseScores(r, docs) = [d \in docs |-> row(d)]
    BY Zenon DEF BaseScores
<1> HIDE DEF row
<1>1. PICK base : base = BaseScores(r, docs) /\ DOMAIN base = docs
    BY <1>0
<1>2. \A roots, reached : DOMAIN Reach(base, roots, reached) = docs
    BY <1>1 DEF Reach
<1>3. \A roots : DOMAIN ExpandFrom(g, base, roots) = docs
    BY <1>1, <1>2 DEF ExpandFrom
<1>4. DOMAIN ExpandGraph(g, base) = docs
    BY <1>3 DEF ExpandGraph
<1> QED BY <1>1, <1>4 DEF Score

LEMMA RetrievedHits ==
    ASSUME NEW docs, Documents(docs), NEW r, TopK(r) \in Nat, NEW g, NEW reranker
    PROVE  Retrieve(r, docs, g, reranker).hits \in Seq(Hits(docs))
<1>1. PICK matching \in SUBSET docs : matching = FilterDocuments(docs, r)
    BY DEF FilterDocuments
<1>2. PICK scores : scores = Score(r, matching, g)
    OBVIOUS
<1>3. PICK reranked : reranked = Reranked(reranker, Take(MakeHits(r, scores), TopK(r) * 4))
    OBVIOUS
<1>4. Scored(scores) \subseteq docs
    BY <1>1, <1>2, ScoresAreOfDocuments DEF Scored
<1>5. ASSUME RerankAccepted(reranked, scores)
      PROVE  Take(SortHits(reranked), TopK(r)) \in Seq(Hits(docs))
    <2>1. reranked \in Seq(Hits(docs))
        <3>1. reranked \in Seq([document : Scored(scores), score : Nat])
            BY <1>5 DEF RerankAccepted
        <3>2. [document : Scored(scores), score : Nat] \subseteq Hits(docs)
            BY <1>4 DEF Hits
        <3>3. PICK H : H = [document : Scored(scores), score : Nat] /\ H \subseteq Hits(docs)
            BY <3>2
        <3>4. Seq(H) \subseteq Seq(Hits(docs))
            BY <3>3, SeqMonotonic
        <3> QED BY <3>1, <3>3, <3>4
    <2>2. \A i, k \in DOMAIN reranked : reranked[i].document = reranked[k].document => i = k
        BY <1>5 DEF RerankAccepted
    <2>3. PICK R : Lists(SortHits(reranked), ToSet(reranked), R)
        BY <2>1, <2>2, HitsAreSorted
    <2>4. SortHits(reranked) \in Seq(Hits(docs))
        BY <2>1, <2>3 DEF Lists, ToSet
    <2> QED BY <2>4, TakeIsPrefix
<1>6. Bundle("none", <<>>).hits = <<>> /\ Bundle("rerank", <<>>).hits = <<>>
    BY DEF Bundle
<1>7. Bundle("none", Take(SortHits(reranked), TopK(r))).hits = Take(SortHits(reranked), TopK(r))
    BY DEF Bundle
<1>8. \/ Retrieve(r, docs, g, reranker).hits = <<>>
      \/ /\ RerankAccepted(reranked, scores)
         /\ Retrieve(r, docs, g, reranker).hits = Take(SortHits(reranked), TopK(r))
    BY <1>1, <1>2, <1>3, <1>6, <1>7 DEF Retrieve, Rank, Cut
<1>9. <<>> \in Seq(Hits(docs))
    OBVIOUS
<1> QED BY <1>5, <1>8, <1>9

(* The sources of a run: places of the repository in one commit.           *)
Refs == [at : Int, commit : ToSet(Commits)]

LEMMA ReferencesAreRefs ==
    ASSUME NEW docs, Documents(docs), NEW hits \in Seq(Hits(docs))
    PROVE  References(hits) \in Seq(Refs)
<1>1. PICK n \in Nat : n = Len(hits) /\ DOMAIN hits = 1..n
    OBVIOUS
<1>2. \A i \in 1..n : hits[i].document \in docs
    <2>1. \A i \in 1..n : hits[i] \in Hits(docs)
        BY <1>1
    <2> QED BY <2>1 DEF Hits
<1>3. \A i \in 1..n : [at |-> hits[i].document.artifact, commit |-> hits[i].document.commit] \in Refs
    BY <1>2 DEF Documents, Refs
<1>4. References(hits) \in [1..n -> Refs]
    BY <1>1, <1>3 DEF References
<1> QED BY <1>4

(* The graph of a parse result that applies: its nodes are numbers with    *)
(* digests of their own, and its facts are numbered.                       *)
LEMMA GraphOfParseIsSound ==
    ASSUME NEW s \in Snapshots, Applies(Parsed[s]), NEW g, g = GraphOfParse(Parsed[s])
    PROVE  /\ IsFiniteSet(g.nodes) /\ IsFiniteSet(g.facts)
           /\ \A n \in g.nodes : n \in Nat /\ Digest[n] \in Nat
           /\ \A m, n \in g.nodes : Digest[m] = Digest[n] => m = n
           /\ \A e \in g.facts : e.id \in Nat /\ {e.from, e.to} \subseteq g.nodes
           /\ \A e, f \in g.facts : e.id = f.id => e = f
<1>1. PICK p : p = Parsed[s]
    OBVIOUS
<1>2. /\ p.artifacts \in Seq(ToSet(p.artifacts)) /\ p.relations \in Seq(ToSet(p.relations))
      /\ \A a \in ToSet(p.artifacts) : a.id \in Nat /\ Digest[a.id] \in Nat
      /\ \A a, b \in ToSet(p.artifacts) : Digest[a.id] = Digest[b.id] => a.id = b.id
      /\ \A r \in ToSet(p.relations) : r.id \in Nat
    BY <1>1, ParsedAssumption
<1>3. PICK resolved \in SUBSET ToSet(p.relations) : resolved = {r \in ToSet(p.relations) : r.to \in Artifacts(p)}
    OBVIOUS
<1> DEFINE fact == [r \in resolved |-> [id |-> r.id, from |-> r.from, to |-> r.to, kind |-> r.kind]]
           id == [a \in ToSet(p.artifacts) |-> a.id]
<1>4. g.nodes = Artifacts(p) /\ g.facts = {fact[r] : r \in resolved}
    BY <1>1, <1>3 DEF GraphOfParse
<1>5. IsFiniteSet(ToSet(p.artifacts)) /\ IsFiniteSet(ToSet(p.relations)) /\ IsFiniteSet(resolved)
    BY <1>2, SequenceIsFinite, FS_Subset
<1>6. IsFiniteSet(g.nodes)
    <2>1. id \in Surjection(ToSet(p.artifacts), g.nodes)
        BY <1>4 DEF Surjection, Artifacts
    <2> HIDE DEF id
    <2> QED BY <2>1, <1>5, FS_Surjection
<1>7. IsFiniteSet(g.facts)
    <2>1. fact \in Surjection(resolved, g.facts)
        BY <1>4 DEF Surjection
    <2> HIDE DEF fact
    <2> QED BY <2>1, <1>5, FS_Surjection
<1>8. \A n \in g.nodes : \E a \in ToSet(p.artifacts) : a.id = n
    BY <1>4 DEF Artifacts
<1>9. \A r \in resolved : fact[r].id = r.id /\ fact[r].from = r.from /\ fact[r].to = r.to
    OBVIOUS
<1>10. \A r \in resolved : r.from \in Artifacts(p) /\ r.to \in Artifacts(p)
    BY <1>1, <1>3 DEF Applies
<1>11. \A q, r \in ToSet(p.relations) : q.id = r.id => q = r
    <2>1. PICK number : number = [r \in ToSet(p.relations) |-> r.id]
        OBVIOUS
    <2>2. PICK F : F = {number[r] : r \in ToSet(p.relations)}
        OBVIOUS
    <2>3. F = {r.id : r \in ToSet(p.relations)}
        BY <2>1, <2>2
    <2>4. Cardinality(F) = Len(p.relations)
        BY <2>3, <1>1 DEF Applies
    <2>5. \A q, r \in ToSet(p.relations) : number[q] = number[r] => q = r
        BY <2>2, <2>4, <1>2, NoneRepeats
    <2> QED BY <2>1, <2>5
<1> HIDE DEF fact
<1>12. \A e \in g.facts : e.id \in Nat /\ {e.from, e.to} \subseteq g.nodes
    BY <1>2, <1>4, <1>9, <1>10
<1>13. \A e, f \in g.facts : e.id = f.id => e = f
    BY <1>4, <1>9, <1>11
<1> QED BY <1>2, <1>6, <1>7, <1>8, <1>12, <1>13

LEMMA GraphSourcesAreOfTheGraph ==
    ASSUME NEW s \in Snapshots, Applies(Parsed[s]), GraphAt(s) = GraphOfParse(Parsed[s])
    PROVE  /\ GraphSources(s) \in Seq([at : Int, commit : {Parsed[s].commit}])
           /\ GraphSources(s) # <<>> => GraphAt(s).nodes # {}
<1>1. PICK g : g = GraphAt(s)
    OBVIOUS
<1>2. /\ IsFiniteSet(g.nodes) /\ IsFiniteSet(g.facts)
      /\ \A n \in g.nodes : n \in Nat /\ Digest[n] \in Nat
      /\ \A m, n \in g.nodes : Digest[m] = Digest[n] => m = n
      /\ \A e \in g.facts : e.id \in Nat /\ {e.from, e.to} \subseteq g.nodes
      /\ \A e, f \in g.facts : e.id = f.id => e = f
    BY <1>1, GraphOfParseIsSound
<1>3. PICK q : q = [roots |-> {}, depth |-> 1, direction |-> "BOTH", types |-> {}, kinds |-> {}, limit |-> AgentGraphLimit]
    OBVIOUS
<1>4. q.roots = {} /\ LimitOf(q) = AgentGraphLimit /\ AgentGraphLimit \in Nat \ {0}
    BY <1>3, AgentAssumption DEF LimitOf
<1>5. PICK nodes \in SUBSET g.nodes : nodes = {n \in g.nodes : EntityMatches(g, q, n)}
    OBVIOUS
<1>6. MemoryQuery(g, q) = Answer(g, q, ByDigest(nodes))
    <2>1. Cardinality(q.roots) = 0
        BY <1>4, FS_EmptySet
    <2>2. ~(\E n \in q.roots : ~EntityMatches(g, q, n)) /\ ~(Cardinality(q.roots) > LimitOf(q))
        BY <1>4, <2>1
    <2> QED BY <2>2, <1>4, <1>5 DEF MemoryQuery
<1>7. PICK R : Lists(ByDigest(nodes), nodes, R)
    <2>1. IsFiniteSet(nodes)
        BY <1>2, <1>5, FS_Subset
    <2>2. \A n \in nodes : Digest[n] \in Int
        BY <1>2, <1>5
    <2>3. \A m, n \in nodes : Digest[m] = Digest[n] => m = n
        BY <1>2, <1>5
    <2> QED BY <2>1, <2>2, <2>3, DigestLists
<1>8. PICK shown : shown = Take(ByDigest(nodes), LimitOf(q))
    OBVIOUS
<1>9. shown \in Seq(nodes) /\ ToSet(shown) \subseteq nodes
    <2>1. ByDigest(nodes) \in Seq(nodes) /\ ToSet(ByDigest(nodes)) = nodes
        BY <1>7 DEF Lists
    <2> QED BY <2>1, <1>4, <1>8, TakeIsPrefix
<1>10. PICK facts \in SUBSET g.facts :
          facts = {e \in g.facts : RelationMatches(q, e) /\ {e.from, e.to} \subseteq ToSet(shown)}
    OBVIOUS
<1>11. PICK a : a = MemoryQuery(g, q) /\ a.nodes = shown /\ a.facts = facts
    BY <1>6, <1>8, <1>10 DEF Answer
<1>12. PICK edges : edges = Ordered(facts, LAMBDA e, f : e.id < f.id)
    OBVIOUS
<1>13. edges \in Seq(facts)
    <2>1. PICK number : number = [e \in facts |-> e.id]
        OBVIOUS
    <2>2. PICK O : O = {p \in facts \X facts : number[p[1]] < number[p[2]]}
        OBVIOUS
    <2>3. \A e, f \in facts : <<e, f>> \in O <=> number[e] < number[f]
        BY <2>2
    <2>4. Keyed(facts, number, O)
        BY <2>1, <2>3, <1>2 DEF Keyed
    <2>5. IsFiniteSet(facts)
        BY <1>2, FS_Subset
    <2>6. Lists(Sorted(facts, O), facts, O)
        BY <2>4, <2>5, KeyedIsStrict, SortedLists
    <2>7. edges = Sorted(facts, O)
        <3> DEFINE place == [x \in facts |-> Cardinality({y \in facts : y.id < x.id}) + 1]
                   sorted == [x \in facts |-> Cardinality({y \in facts : <<y, x>> \in O}) + 1]
        <3>1. \A x \in facts : {y \in facts : y.id < x.id} = {y \in facts : <<y, x>> \in O}
            BY <2>1, <2>3
        <3>2. place = sorted
            BY <3>1
        <3>3. edges = [i \in 1..Cardinality(facts) |-> CHOOSE x \in facts : place[x] = i]
            BY <1>12 DEF Ordered
        <3>4. Sorted(facts, O) = [i \in 1..Cardinality(facts) |-> CHOOSE x \in facts : sorted[x] = i]
            BY DEF Sorted
        <3> HIDE DEF place, sorted
        <3> QED BY <3>2, <3>3, <3>4
    <2> QED BY <2>6, <2>7 DEF Lists
<1>14. PICK rest : rest = [i \in DOMAIN edges |-> MaxArtifacts + edges[i].id]
    OBVIOUS
<1>15. rest \in Seq(Int)
    <2>1. PICK n \in Nat : n = Len(edges) /\ DOMAIN edges = 1..n
        BY <1>13
    <2>2. \A i \in 1..n : edges[i] \in facts
        BY <2>1, <1>13
    <2>3. \A i \in 1..n : edges[i].id \in Nat
        BY <2>2, <1>2
    <2>4. MaxArtifacts \in Nat
        BY LegacyAssumption
    <2>5. rest \in [1..n -> Int]
        BY <2>1, <2>3, <2>4, <1>14
    <2> QED BY <2>5
<1>16. shown \in Seq(Int)
    <2>1. nodes \subseteq Int
        BY <1>2, <1>5
    <2> QED BY <2>1, <1>9, SeqMonotonic
<1>17. PICK places \in Seq(Int) : places = Places(a) /\ places = shown \o rest
    <2>1. Places(a) = shown \o rest
        BY <1>11, <1>12, <1>14 DEF Places
    <2>2. shown \o rest \in Seq(Int)
        BY <1>15, <1>16
    <2> QED BY <2>1, <2>2
<1>18. GraphSources(s) = [i \in DOMAIN places |-> [at |-> places[i], commit |-> Parsed[s].commit]]
    BY <1>1, <1>3, <1>11, <1>17 DEF GraphSources
<1>19. GraphSources(s) \in Seq([at : Int, commit : {Parsed[s].commit}])
    <2>1. PICK n \in Nat : n = Len(places) /\ DOMAIN places = 1..n
        OBVIOUS
    <2>2. PICK C : C = [at : Int, commit : {Parsed[s].commit}]
        OBVIOUS
    <2>3. \A i \in 1..n : [at |-> places[i], commit |-> Parsed[s].commit] \in C
        BY <2>1, <2>2
    <2>4. GraphSources(s) \in [1..n -> C]
        BY <2>1, <2>3, <1>18
    <2>5. GraphSources(s) \in Seq(C)
        BY <2>4
    <2> QED BY <2>2, <2>5
<1>20. ASSUME g.nodes = {} PROVE GraphSources(s) = <<>>
    <2>1. nodes = {} /\ facts = {}
        BY <1>2, <1>20
    <2>2. shown = <<>> /\ edges = <<>>
        <3>1. shown \in Seq({}) /\ edges \in Seq({})
            BY <2>1, <1>9, <1>13
        <3> QED BY <3>1
    <2>3. rest = <<>>
        BY <2>2, <1>14
    <2>4. places = <<>>
        BY <2>2, <2>3, <1>17
    <2> QED BY <2>4, <1>18
<1> QED BY <1>1, <1>19, <1>20

-----------------------------------------------------------------------------
(* The commit most sources name is one that a source names.                *)
LEMMA CanonicalIsNamed ==
    ASSUME NEW refs \in Seq(Refs), refs # <<>>
    PROVE  \E i \in DOMAIN refs : refs[i].commit = CanonicalCommit(refs)
<1>1. PICK n \in Nat : n = Len(refs) /\ DOMAIN refs = 1..n /\ n > 0
    OBVIOUS
<1>2. PICK m \in Nat : m = Len(Commits) /\ DOMAIN Commits = 1..m /\ ToSet(Commits) = {Commits[k] : k \in 1..m}
    BY AgentAssumption, SequenceIsFinite
<1> DEFINE named(k) == Naming(refs, Commits[k])
<1>3. \A k \in 1..m : named(k) \in 0..n /\ (named(k) > 0 <=> \E i \in 1..n : refs[i].commit = Commits[k])
    <2> SUFFICES ASSUME NEW k \in 1..m
                 PROVE  named(k) \in 0..n /\ (named(k) > 0 <=> \E i \in 1..n : refs[i].commit = Commits[k])
        OBVIOUS
    <2>1. PICK I : I = {i \in 1..n : refs[i].commit = Commits[k]}
        OBVIOUS
    <2>2. PICK J : J = 1..n
        OBVIOUS
    <2>3. IsFiniteSet(J) /\ Cardinality(J) = n /\ I \subseteq J
        <3>1. IsFiniteSet(1..n) /\ Cardinality(1..n) = n
            BY FS_Interval
        <3> QED BY <3>1, <2>1, <2>2
    <2>4. IsFiniteSet(I) /\ Cardinality(I) <= n
        BY <2>3, FS_Subset
    <2>5. Cardinality(I) \in Nat /\ (Cardinality(I) = 0 <=> I = {})
        BY <2>4, FS_CardinalityType, FS_EmptySet
    <2>6. named(k) = Cardinality(I)
        BY <1>1, <2>1 DEF Naming
    <2> QED BY <2>1, <2>4, <2>5, <2>6
<1> HIDE DEF named
<1>4. PICK k1 \in 1..m : named(k1) > 0
    <2>1. refs[1] \in Refs
        BY <1>1
    <2>2. refs[1].commit \in ToSet(Commits)
        BY <2>1 DEF Refs
    <2> QED BY <2>2, <1>1, <1>2, <1>3
<1> DEFINE best(i) == \A k \in 1..m : named(k) < named(i) \/ (named(k) = named(i) /\ i <= k)
<1>5. \E i \in 1..m : best(i)
    <2>1. PICK W : W = {n - named(k) : k \in 1..m}
        OBVIOUS
    <2>2. W \in SUBSET Nat /\ W # {}
        BY <2>1, <1>1, <1>3, <1>4
    <2>3. PICK w \in W : \A v \in W : w <= v
        BY <2>2, LeastNumber
    <2>4. PICK K : K = {k \in 1..m : n - named(k) = w}
        OBVIOUS
    <2>5. K \in SUBSET Nat /\ K # {}
        BY <2>1, <2>3, <2>4
    <2>6. PICK i \in K : \A k \in K : i <= k
        BY <2>5, LeastNumber
    <2>7. i \in 1..m /\ n - named(i) = w
        BY <2>4, <2>6
    <2>8. ASSUME NEW k \in 1..m PROVE named(k) < named(i) \/ (named(k) = named(i) /\ i <= k)
        <3>1. n - named(k) \in W
            BY <2>1
        <3>2. w <= n - named(k)
            BY <2>3, <3>1
        <3>3. CASE n - named(k) = w
            <4>1. k \in K
                BY <2>4, <3>3
            <4>2. i <= k
                BY <2>6, <4>1
            <4> QED BY <4>2, <3>3, <2>7, <1>3
        <3>4. CASE n - named(k) # w
            BY <3>2, <3>4, <2>2, <2>7, <1>3
        <3> QED BY <3>3, <3>4
    <2> QED BY <2>7, <2>8
<1>6. PICK i : i = (CHOOSE j \in 1..m : best(j))
    OBVIOUS
<1>7. i \in 1..m /\ best(i)
    BY <1>5, <1>6
<1>8. CanonicalCommit(refs) = Commits[i]
    BY <1>1, <1>2, <1>6 DEF CanonicalCommit, named
<1>9. named(i) > 0
    <2>1. named(k1) <= named(i)
        BY <1>3, <1>4, <1>7
    <2> QED BY <2>1, <1>3, <1>4, <1>7
<1> QED BY <1>1, <1>3, <1>7, <1>8, <1>9

(* Citations of some sources: few, each once, and of one commit.           *)
Cites(c, refs) ==
    /\ c \in Seq(ToSet(refs)) /\ Len(c) <= MaxCitations
    /\ \A i, j \in 1..Len(c) : c[i] = c[j] => i = j
    /\ \A i, j \in 1..Len(c) : c[i].commit = c[j].commit

LEMMA NormalizedCitations ==
    ASSUME NEW refs \in Seq(Refs), NEW commit
    PROVE  /\ Cites(NormalizeCitations(refs, commit), refs)
           /\ \A i \in 1..Len(NormalizeCitations(refs, commit)) : NormalizeCitations(refs, commit)[i].commit = commit
           /\ (\E i \in DOMAIN refs : refs[i].commit = commit) => NormalizeCitations(refs, commit) # <<>>
<1>1. refs \in Seq(ToSet(refs)) /\ ToSet(refs) \subseteq Refs
    BY DEF ToSet
<1>2. IsFiniteSet(ToSet(refs))
    BY <1>1, SequenceIsFinite
<1>3. PICK S \in SUBSET ToSet(refs) : S = {ref \in ToSet(refs) : ref.commit = commit}
    OBVIOUS
<1>4. IsFiniteSet(S)
    BY <1>2, FS_Subset
<1>5. PICK place : place = [ref \in S |-> ref.at]
    OBVIOUS
<1>6. PICK R : R = {p \in S \X S : place[p[1]] < place[p[2]]}
    OBVIOUS
<1>7. \A a, b \in S : <<a, b>> \in R <=> place[a] < place[b]
    BY <1>6
<1>8. \A a \in S : a.at \in Int /\ a.commit = commit /\ a = [at |-> a.at, commit |-> a.commit]
    BY <1>1, <1>3 DEF Refs
<1>9. Keyed(S, place, R)
    <2>1. \A a, b \in S : a.at = b.at => a = b
        BY <1>8
    <2> QED BY <2>1, <1>5, <1>7, <1>8 DEF Keyed
<1>10. Lists(Sorted(S, R), S, R)
    BY <1>4, <1>9, KeyedIsStrict, SortedLists
<1>10a. PICK ordered : ordered = Ordered(S, LAMBDA a, b : a.at < b.at)
    OBVIOUS
<1>11. ordered = Sorted(S, R)
    <2> DEFINE rank == [x \in S |-> Cardinality({y \in S : y.at < x.at}) + 1]
               sorted == [x \in S |-> Cardinality({y \in S : <<y, x>> \in R}) + 1]
    <2>1. \A x \in S : {y \in S : y.at < x.at} = {y \in S : <<y, x>> \in R}
        BY <1>5, <1>7
    <2>2. rank = sorted
        BY <2>1
    <2>3. ordered = [i \in 1..Cardinality(S) |-> CHOOSE x \in S : rank[x] = i]
        BY <1>10a DEF Ordered
    <2>4. Sorted(S, R) = [i \in 1..Cardinality(S) |-> CHOOSE x \in S : sorted[x] = i]
        BY DEF Sorted
    <2> HIDE DEF rank, sorted
    <2> QED BY <2>2, <2>3, <2>4
<1>12. PICK all \in Seq(S) :
          /\ all = Sorted(S, R) /\ ToSet(all) = S /\ Len(all) = Cardinality(S)
          /\ \A i, j \in 1..Len(all) : all[i] = all[j] => i = j
    BY <1>10 DEF Lists
<1>13. PICK c : c = NormalizeCitations(refs, commit)
    OBVIOUS
<1>14. c = Take(all, MaxCitations)
    BY <1>3, <1>10a, <1>11, <1>12, <1>13 DEF NormalizeCitations
<1>15. MaxCitations \in Nat \ {0}
    BY AgentAssumption
<1>16. /\ c \in Seq(S) /\ Len(c) <= MaxCitations /\ Len(c) <= Len(all)
       /\ \A i \in 1..Len(c) : c[i] = all[i]
       /\ Len(all) <= MaxCitations => c = all
       /\ MaxCitations <= Len(all) => Len(c) = MaxCitations
    <2>1. PICK max \in Nat : max = MaxCitations
        BY <1>15
    <2>2. /\ Take(all, max) \in Seq(S) /\ Len(Take(all, max)) <= max /\ Len(Take(all, max)) <= Len(all)
          /\ \A i \in 1..Len(Take(all, max)) : Take(all, max)[i] = all[i]
          /\ Len(all) <= max => Take(all, max) = all
          /\ max <= Len(all) => Len(Take(all, max)) = max
        BY TakeIsPrefix
    <2> QED BY <2>1, <2>2, <1>14
<1>17. c \in Seq(ToSet(refs))
    BY <1>16, SeqMonotonic
<1>18. \A i \in 1..Len(c) : c[i] \in S
    BY <1>16
<1>19. Len(c) \in Nat /\ Len(all) \in Nat
    BY <1>16
<1>20. Cites(c, refs)
    <2>1. \A i, j \in 1..Len(c) : c[i] = c[j] => i = j
        BY <1>12, <1>16, <1>19
    <2>2. \A i, j \in 1..Len(c) : c[i].commit = c[j].commit
        BY <1>8, <1>18
    <2> QED BY <2>1, <2>2, <1>16, <1>17 DEF Cites
<1>21. ASSUME NEW i \in DOMAIN refs, refs[i].commit = commit PROVE c # <<>>
    <2>1. refs[i] \in S
        BY <1>3, <1>21 DEF ToSet
    <2>2. Len(all) # 0
        BY <2>1, <1>12 DEF ToSet
    <2>3. Len(c) # 0
        BY <2>2, <1>15, <1>16, <1>19
    <2> QED BY <2>3
<1> QED BY <1>8, <1>13, <1>18, <1>20, <1>21

LEMMA SelectedCitations ==
    ASSUME NEW refs, NEW c, Cites(c, refs), c # <<>>, NEW selection \in Selections, SelectionAccepted(c, selection)
    PROVE  /\ Cites(SelectCitations(c, selection), refs) /\ SelectCitations(c, selection) # <<>>
           /\ \A i \in 1..Len(SelectCitations(c, selection)) : \E k \in 1..Len(c) : SelectCitations(c, selection)[i] = c[k]
<1>1. /\ c \in Seq(ToSet(refs)) /\ Len(c) <= MaxCitations /\ MaxCitations \in Nat
      /\ \A i, j \in 1..Len(c) : c[i] = c[j] => i = j
      /\ \A i, j \in 1..Len(c) : c[i].commit = c[j].commit
    BY AgentAssumption DEF Cites
<1>2. PICK m \in Nat : m = Len(c) /\ DOMAIN c = 1..m
    BY <1>1
<1>3. CASE selection = None
    BY <1>1, <1>3 DEF SelectCitations
<1>4. CASE selection # None
    <2>1. selection \in Seq(Int) /\ selection # <<>> /\ ToSet(selection) \subseteq 0..m - 1
        BY <1>2, <1>4, AgentAssumption DEF SelectionAccepted
    <2>2. PICK n \in Nat : n = Len(selection) /\ DOMAIN selection = 1..n /\ n > 0
        BY <2>1
    <2>3. \A i \in 1..n : selection[i] \in 0..m - 1
        BY <2>1, <2>2 DEF ToSet
    <2>4. PICK I \in SUBSET (1..n) : I = {i \in 1..n : \A k \in 1..i - 1 : selection[k] # selection[i]}
        OBVIOUS
    <2>5. I \in SUBSET Int /\ 1 \in I
        BY <2>2, <2>4
    <2>6. IsFiniteSet(I)
        <3>1. IsFiniteSet(1..n)
            BY FS_Interval
        <3> QED BY <3>1, FS_Subset
    <2>7. PICK k \in Nat : k = Cardinality(I)
        BY <2>6, FS_CardinalityType
    <2>8. PICK first \in [1..k -> I] :
             /\ first = ById(I) /\ \A i, j \in 1..k : i < j => first[i] < first[j]
             /\ \A x \in I : \E i \in 1..k : first[i] = x
        BY <2>5, <2>6, <2>7, OrderedNumbers
    <2>9. PICK d : d = SelectCitations(c, selection)
        OBVIOUS
    <2>10. d = [i \in 1..k |-> c[selection[first[i]] + 1]]
        BY <1>4, <2>2, <2>4, <2>8, <2>9 DEF SelectCitations, ById
    <2>11. PICK at \in [1..k -> 1..m] : \A i \in 1..k : at[i] = selection[first[i]] + 1
        <3>1. ASSUME NEW i \in 1..k PROVE selection[first[i]] + 1 \in 1..m
            <4>1. first[i] \in 1..n
                BY <2>4, <2>8
            <4>2. selection[first[i]] \in 0..m - 1
                BY <2>3, <4>1
            <4> QED BY <4>2
        <3>2. [i \in 1..k |-> selection[first[i]] + 1] \in [1..k -> 1..m]
            BY <3>1
        <3> QED BY <3>2
    <2>12. d = [i \in 1..k |-> c[at[i]]]
        BY <2>10, <2>11
    <2>13. \A i, j \in 1..k : i < j => at[i] # at[j]
        <3> SUFFICES ASSUME NEW i \in 1..k, NEW j \in 1..k, i < j PROVE at[i] # at[j]
            OBVIOUS
        <3>1. first[i] \in 1..n /\ first[j] \in 1..n /\ first[j] \in I /\ first[i] < first[j]
            BY <2>4, <2>8
        <3>2. first[i] \in 1..first[j] - 1
            BY <3>1
        <3>3. selection[first[i]] # selection[first[j]]
            BY <2>4, <3>1, <3>2
        <3>4. selection[first[i]] \in Int /\ selection[first[j]] \in Int
            BY <2>3, <3>1
        <3> QED BY <2>11, <3>3, <3>4
    <2>14. k <= m
        <3>1. PICK K : K = 1..k
            OBVIOUS
        <3>2. PICK M : M = 1..m
            OBVIOUS
        <3>3. \A i, j \in K : at[i] = at[j] => i = j
            BY <2>13, <3>1
        <3>4. at \in Injection(K, M)
            BY <3>1, <3>2, <3>3 DEF Injection, IsInjective
        <3>5. IsFiniteSet(1..m) /\ Cardinality(1..m) = m
            BY FS_Interval
        <3>6. IsFiniteSet(1..k) /\ Cardinality(1..k) = k
            BY FS_Interval
        <3>7. Cardinality(K) <= Cardinality(M)
            BY <3>2, <3>4, <3>5, FS_Injection
        <3> QED BY <3>1, <3>2, <3>5, <3>6, <3>7
    <2>15. d \in [1..k -> ToSet(refs)]
        BY <1>1, <1>2, <2>11, <2>12
    <2>16. d \in Seq(ToSet(refs)) /\ Len(d) = k
        BY <2>15
    <2>17. \A i, j \in 1..k : d[i] = d[j] => i = j
        BY <1>1, <1>2, <2>11, <2>12, <2>13
    <2>18. \A i, j \in 1..k : d[i].commit = d[j].commit
        BY <1>1, <1>2, <2>11, <2>12
    <2>19. k > 0
        BY <2>5, <2>8
    <2>20. \A i \in 1..k : \E j \in 1..m : d[i] = c[j]
        BY <2>11, <2>12
    <2>21. Cites(d, refs)
        BY <1>1, <1>2, <2>14, <2>16, <2>17, <2>18 DEF Cites
    <2> QED BY <1>2, <2>9, <2>16, <2>19, <2>20, <2>21
<1> QED BY <1>3, <1>4

-----------------------------------------------------------------------------
(* What the sources read holds. A graph is the one of its parse result; a  *)
(* revision has the documents of an input that may be indexed.             *)
Documented(r) == \E input \in Inputs : Indexable(input) /\ r.documents = BuildDocuments(input)
SourcesInv ==
    /\ \A s \in Snapshots : graphs[s] # None => graphs[s].graph = GraphOfParse(Parsed[s]) /\ Applies(Parsed[s])
    /\ \A r \in revisions : Documented(r)
    /\ \A c \in IndexCalls : indexer[c].pc = "save" => Documented(indexer[c].revision)

LEMMA GraphSourcesKept ==
    ASSUME GraphTypeOK, SourcesInv, GraphStep
    PROVE  SourcesInv'
<1>0. UNCHANGED indexVars
    BY DEF GraphStep
<1>1. \A s \in Snapshots : graphs'[s] # None => graphs'[s].graph = GraphOfParse(Parsed[s]) /\ Applies(Parsed[s])
    <2>1. CASE UNCHANGED graphs
        BY <2>1 DEF SourcesInv
    <2>2. ASSUME NEW c \in GraphCalls, BuildGraph(c), Applies(Parsed[builder[c].snapshot]),
                 SaveGraph(c, builder[c].key, builder[c].snapshot)
          PROVE  \A s \in Snapshots : graphs'[s] # None => graphs'[s].graph = GraphOfParse(Parsed[s]) /\ Applies(Parsed[s])
        <3>1. PICK s : s = builder[c].snapshot
            OBVIOUS
        <3>2. PICK graph : graph = GraphOfParse(Parsed[s])
            OBVIOUS
        <3>3. graphs' = [graphs EXCEPT ![s] = [id |-> c, graph |-> graph]]
            BY <2>2, <3>1, <3>2 DEF SaveGraph
        <3>4. \A o \in Snapshots : o # s => graphs'[o] = graphs[o]
            BY <3>3 DEF GraphTypeOK
        <3>5. s \in Snapshots => graphs'[s].graph = graph
            BY <3>3 DEF GraphTypeOK
        <3> QED BY <2>2, <3>1, <3>2, <3>4, <3>5 DEF SourcesInv
    <2> QED BY <2>1, <2>2 DEF GraphStep, GraphNext, LoadParse, BuildGraph
<1> QED BY <1>0, <1>1 DEF SourcesInv, indexVars

LEMMA IndexSourcesKept ==
    ASSUME IndexInv, SourcesInv, IndexStep
    PROVE  SourcesInv'
<1>0. UNCHANGED graphs
    BY DEF IndexStep, graphVars
<1>1. ASSUME NEW c \in IndexCalls, NEW s \in Snapshots, NEW input \in Inputs, StartIndex(c, s, input)
      PROVE  SourcesInv'
    <2>1. indexer[c].pc = "idle" /\ UNCHANGED <<revisions, current>>
        BY <1>1 DEF StartIndex
    <2>2. PICK pc \in {"refused", "announce", "save", "failed"}, r \in {indexer'[c].revision} :
             /\ indexer' = [indexer EXCEPT ![c] = [pc |-> pc, revision |-> r]]
             /\ pc = "save" => Indexable(input) /\ r.documents = BuildDocuments(input)
        BY <1>1 DEF StartIndex
    <2>3. pc = "save" => Documented(r)
        BY <2>2 DEF Documented
    <2> QED BY <1>0, <2>1, <2>2, <2>3 DEF SourcesInv, IndexInv
<1>2. ASSUME NEW c \in IndexCalls, SaveIndex(c)
      PROVE  SourcesInv'
    <2>1. indexer[c].pc = "save" /\ Documented(indexer[c].revision) /\ indexer' = [indexer EXCEPT ![c].pc = "announce"]
        BY <1>2 DEF SaveIndex, SourcesInv
    <2>2. revisions' = revisions \/ revisions' = revisions \cup {indexer[c].revision}
        BY <1>2 DEF SaveIndex
    <2> QED BY <1>0, <2>1, <2>2 DEF SourcesInv, IndexInv
<1>3. ASSUME NEW c \in IndexCalls, NEW pc \in {"done", "failed"}, indexer' = [indexer EXCEPT ![c].pc = pc], UNCHANGED revisions
      PROVE  SourcesInv'
    BY <1>0, <1>3 DEF SourcesInv, IndexInv
<1>4. ASSUME UNCHANGED <<revisions, indexer>>
      PROVE  SourcesInv'
    BY <1>0, <1>4 DEF SourcesInv
<1>5. ASSUME NEW c \in IndexCalls, SaveFails(c) \/ AnnounceIndex(c)
      PROVE  SourcesInv'
    BY <1>3, <1>5 DEF SaveFails, AnnounceIndex
<1> QED BY <1>1, <1>2, <1>4, <1>5 DEF IndexStep, IndexNext, StartSearch, Search


-----------------------------------------------------------------------------
(* What a run has read: places of commits, those of the graph of its       *)
(* snapshot in the commit of that graph. What it cites is of it.           *)
Named(x) == x.sources \o x.graph
FromGraph(x) ==
    LET s == x.question.snapshot
    IN x.graph # <<>> => GraphAt(s).nodes # {} /\ \A i \in DOMAIN x.graph : x.graph[i].commit = Parsed[s].commit
HasRead(x) == x.question \in Questions /\ x.sources \in Seq(Refs) /\ x.graph \in Seq(Refs) /\ FromGraph(x)

Supported(c, x) ==
    /\ Cites(c, Named(x)) /\ (c = <<>> <=> Named(x) = <<>>)
    /\ x.graph # <<>> => \A i \in 1..Len(c) : c[i].commit = Parsed[x.question.snapshot].commit
Answered(a, x) == Supported(a.citations, x) /\ (a.insufficient <=> a.citations = <<>>)

CiteInv(r) ==
    /\ execution[r].pc # "idle" => HasRead(execution[r])
    /\ execution[r].pc = "generate" => Supported(execution[r].citations, execution[r]) /\ execution[r].citations # <<>>
    /\ execution[r].pc \in {"save", "publish"} => Answered(execution[r].answer, execution[r])
    /\ runs[r] # None /\ runs[r].status = "COMPLETED" => Answered(runs[r].answer, execution[r])
CitesInv == \A r \in Runs : CiteInv(r)

(* A call that was admitted is one of the invocations.                     *)
InvokedInv ==
    \A c \in Runs : calls[c].pc \in {"charge", "operate"} => calls[c].invocation \in Invocations

AnswersInv == SourcesInv /\ CitesInv /\ InvokedInv


-----------------------------------------------------------------------------
(* A graph that was read is there to stay.                                 *)
LEMMA ReadStays ==
    ASSUME NEW x, HasRead(x), GraphsStand
    PROVE  HasRead(x)'
<1>1. PICK s \in Snapshots : s = x.question.snapshot
    BY AgentAssumption DEF HasRead
<1>2. GraphAt(s).nodes # {} => graphs[s] # None
    BY DEF GraphAt, NoGraph
<1>3. GraphAt(s).nodes # {} => GraphAt(s)' = GraphAt(s)
    BY <1>2 DEF GraphAt, GraphsStand
<1>4. FromGraph(x)'
    BY <1>1, <1>3 DEF HasRead, FromGraph
<1> QED BY <1>4 DEF HasRead

(* The stages after the last round leave what was read as it is.           *)
SameReading(x, y) == y.question = x.question /\ y.sources = x.sources /\ y.graph = x.graph

LEMMA ReadingKept ==
    ASSUME NEW x, NEW y, SameReading(x, y)
    PROVE  /\ HasRead(x) => HasRead(y)
           /\ \A c : Supported(c, x) => Supported(c, y)
           /\ \A a : Answered(a, x) => Answered(a, y)
<1>1. Named(y) = Named(x) /\ y.graph = x.graph /\ y.question = x.question /\ y.sources = x.sources
    BY DEF SameReading, Named
<1>2. HasRead(x) => HasRead(y)
    BY <1>1 DEF HasRead, FromGraph
<1>3. \A c : Supported(c, x) => Supported(c, y)
    BY <1>1 DEF Supported
<1>4. \A a : Answered(a, x) => Answered(a, y)
    BY <1>3 DEF Answered
<1> QED BY <1>2, <1>3, <1>4

LEMMA CiteKept ==
    ASSUME NEW r \in Runs, CiteInv(r), GraphsStand, execution'[r] = execution[r], runs'[r] = runs[r]
    PROVE  CiteInv(r)'
<1>1. PICK x : x = execution[r] /\ execution'[r] = x
    OBVIOUS
<1>2. PICK run : run = runs[r] /\ runs'[r] = run
    OBVIOUS
<1>3. HasRead(x) => HasRead(x)'
    BY ReadStays
<1>4. x.pc # "idle" => HasRead(x)
    BY <1>1 DEF CiteInv
<1>5. /\ x.pc = "generate" => Supported(x.citations, x) /\ x.citations # <<>>
      /\ x.pc \in {"save", "publish"} => Answered(x.answer, x)
      /\ run # None /\ run.status = "COMPLETED" => Answered(run.answer, x)
    BY <1>1, <1>2 DEF CiteInv
<1> QED BY <1>1, <1>2, <1>3, <1>4, <1>5 DEF CiteInv

LEMMA RunMoves ==
    ASSUME NEW r \in Runs, CiteInv(r), execution[r].pc # "idle", UNCHANGED graphs,
           SameReading(execution[r], execution'[r]),
           execution'[r].pc = "generate" =>
              Supported(execution'[r].citations, execution'[r]) /\ execution'[r].citations # <<>>,
           execution'[r].pc \in {"save", "publish"} => Answered(execution'[r].answer, execution'[r]),
           \/ runs'[r] = runs[r]
           \/ runs'[r].status = "FAILED"
           \/ Answered(runs'[r].answer, execution'[r])
    PROVE  CiteInv(r)'
<1>1. PICK x : x = execution[r]
    OBVIOUS
<1>2. PICK y : y = execution'[r]
    OBVIOUS
<1>3. PICK run : run = runs'[r]
    OBVIOUS
<1>4. HasRead(x) /\ SameReading(x, y)
    BY <1>1, <1>2 DEF CiteInv
<1>5. HasRead(y)
    BY <1>4, ReadingKept
<1>6. HasRead(y)'
    <2>1. GraphsStand
        BY DEF GraphsStand
    <2> QED BY <1>5, <2>1, ReadStays
<1>7. run # None /\ run.status = "COMPLETED" => Answered(run.answer, y)
    <2>1. CASE run = runs[r]
        <3>1. run # None /\ run.status = "COMPLETED" => Answered(run.answer, x)
            BY <2>1, <1>1 DEF CiteInv
        <3> QED BY <3>1, <1>4, ReadingKept
    <2>2. CASE run.status = "FAILED"
        BY <2>2
    <2>3. CASE Answered(run.answer, y)
        BY <2>3
    <2> QED BY <1>2, <1>3, <2>1, <2>2, <2>3
<1> QED BY <1>2, <1>3, <1>6, <1>7 DEF CiteInv

LEMMA RunLeaves ==
    ASSUME AgentTypeOK, NEW r \in Runs, CiteInv(r), execution[r].pc # "idle", UNCHANGED graphs,
           SameReading(execution[r], execution'[r]), execution'[r].pc \in {"retrieve", "fail", "record", "done"},
           runs'[r] = runs[r] \/ runs'[r].status = "FAILED"
    PROVE  CiteInv(r)'
<1>1. execution'[r].pc \notin {"generate", "save", "publish"}
    OBVIOUS
<1> QED BY <1>1, RunMoves

LEMMA EntersReading ==
    ASSUME AgentTypeOK, NEW r \in Runs
    PROVE  /\ \A pc : Enter(r, pc) => SameReading(execution[r], execution'[r]) /\ execution'[r].pc = pc
           /\ \A code : GiveUp(r, code) => SameReading(execution[r], execution'[r]) /\ execution'[r].pc = "fail"
<1>1. DOMAIN execution = Runs /\ DOMAIN execution[r] = ExecutionFields
    BY DEF AgentTypeOK
<1>2. ASSUME NEW pc, Enter(r, pc)
      PROVE  SameReading(execution[r], execution'[r]) /\ execution'[r].pc = pc
    BY <1>1, <1>2 DEF Enter, SameReading, ExecutionFields
<1>3. ASSUME NEW code, GiveUp(r, code)
      PROVE  SameReading(execution[r], execution'[r]) /\ execution'[r].pc = "fail"
    BY <1>1, <1>3 DEF GiveUp, SameReading, ExecutionFields
<1> QED BY <1>2, <1>3


(* What a search of an index finds, and a query of the graph.              *)
LEMMA FoundAreRefs ==
    ASSUME IndexInv, SourcesInv, NEW s \in Snapshots, current[s] # None, NEW request, TopK(request) \in Nat
    PROVE  Found(s, request) \in Seq(Refs)
<1>1. PICK docs : docs = Stored(current[s]).documents
    OBVIOUS
<1>2. Documents(docs)
    <2>1. Stored(current[s]) \in revisions
        BY StoredIsCurrent
    <2> QED BY <2>1, <1>1, BuiltDocuments DEF SourcesInv, Documented
<1>3. PICK hits : hits = Retrieve(request, docs, GraphAt(s), "identity").hits
    OBVIOUS
<1>4. hits \in Seq(Hits(docs))
    BY <1>2, <1>3, RetrievedHits
<1>5. References(hits) \in Seq(Refs)
    BY <1>2, <1>4, ReferencesAreRefs
<1> QED BY <1>1, <1>3, <1>5 DEF Found

LEMMA GraphSourcesAreRefs ==
    ASSUME GraphTypeOK, SourcesInv, NEW s \in Snapshots, RevisionAt(s) # None
    PROVE  /\ GraphSources(s) \in Seq(Refs)
           /\ GraphSources(s) # <<>> => GraphAt(s).nodes # {}
           /\ \A i \in DOMAIN GraphSources(s) : GraphSources(s)[i].commit = Parsed[s].commit
<1>1. graphs[s] # None
    BY DEF RevisionAt
<1>2. GraphAt(s) = GraphOfParse(Parsed[s]) /\ Applies(Parsed[s])
    BY <1>1 DEF SourcesInv, GraphAt
<1>3. PICK C : C = [at : Int, commit : {Parsed[s].commit}]
    OBVIOUS
<1>4. PICK refs \in Seq(C) : refs = GraphSources(s) /\ (refs # <<>> => GraphAt(s).nodes # {})
    BY <1>2, <1>3, GraphSourcesAreOfTheGraph
<1>5. C \subseteq Refs
    BY <1>3, AgentAssumption DEF Refs
<1>6. refs \in Seq(Refs)
    BY <1>5, SeqMonotonic
<1>7. \A i \in DOMAIN refs : refs[i] \in C
    OBVIOUS
<1>8. \A i \in DOMAIN refs : refs[i].commit = Parsed[s].commit
    BY <1>3, <1>7
<1> QED BY <1>4, <1>6, <1>8

LEMMA RetrieveCites ==
    ASSUME AgentTypeOK, IndexInv, GraphTypeOK, SourcesInv, NEW r \in Runs, RunInv(r), CiteInv(r),
           NEW searched \in BOOLEAN, NEW queried \in BOOLEAN, RetrieveRound(r, searched, queried), UNCHANGED graphs
    PROVE  CiteInv(r)'
<1>1. PICK x : x = execution[r]
    OBVIOUS
<1>2. PICK s : s = x.question.snapshot
    OBVIOUS
<1>3. x.pc = "retrieve" /\ x.round \in 1..MaxRetrievalRounds /\ runs[r].status = "RUNNING" /\ UNCHANGED runs
    BY <1>1 DEF RetrieveRound, RunInv, Sending, Storing
<1>4. x.question \in Questions /\ s \in Snapshots
    BY <1>1, <1>2, <1>3, AgentAssumption DEF CiteInv, HasRead
<1>5. PICK request : request = x.question.rounds[x.round] /\ TopK(request) \in Nat
    BY <1>3, <1>4, AgentAssumption, RetrievalAssumption DEF TopK
<1>6. PICK searches \in BOOLEAN : searches <=> (searched /\ current[s] # None)
    OBVIOUS
<1>7. PICK queries \in BOOLEAN : queries <=> (queried /\ x.round = 1 /\ RevisionAt(s) # None)
    OBVIOUS
<1>8. PICK sources : sources = IF searches THEN Found(s, request) ELSE <<>>
    OBVIOUS
<1>9. PICK graph : graph = IF queries THEN GraphSources(s) ELSE <<>>
    OBVIOUS
<1>10. PICK available : execution' = [execution EXCEPT ![r] = AfterRound(x, sources, graph, available)]
    BY <1>1, <1>2, <1>5, <1>6, <1>7, <1>8, <1>9 DEF RetrieveRound
<1>11. PICK y : y = execution'[r]
    OBVIOUS
<1>12. /\ y.question = x.question /\ y.sources = sources /\ y.graph = graph
       /\ y.pc \in {"retrieve", "evaluate", "fail"}
    <2>1. y = AfterRound(x, sources, graph, available) /\ DOMAIN x = ExecutionFields
        BY <1>1, <1>10, <1>11 DEF AgentTypeOK
    <2>2. PICK last \in BOOLEAN :
             y = [x EXCEPT !.sources = sources, !.graph = graph, !.available = available, !.round = @ + 1,
                     !.pc = IF ~last THEN "retrieve" ELSE IF available THEN "evaluate" ELSE "fail",
                     !.code = IF last /\ ~available THEN "KNOWLEDGE_UNAVAILABLE" ELSE @]
        BY <2>1, Zenon DEF AfterRound
    <2>3. PICK pc : pc = IF ~last THEN "retrieve" ELSE IF available THEN "evaluate" ELSE "fail"
        OBVIOUS
    <2>4. pc \in {"retrieve", "evaluate", "fail"}
        BY <2>3
    <2>5. y.question = x.question /\ y.sources = sources /\ y.graph = graph /\ y.pc = pc
        BY <2>1, <2>2, <2>3 DEF ExecutionFields
    <2> QED BY <2>4, <2>5
<1>13. sources \in Seq(Refs)
    <2>1. searches => Found(s, request) \in Seq(Refs)
        BY <1>4, <1>5, <1>6, FoundAreRefs
    <2> QED BY <2>1, <1>8
<1>14. /\ graph \in Seq(Refs) /\ (graph # <<>> => GraphAt(s).nodes # {})
       /\ \A i \in DOMAIN graph : graph[i].commit = Parsed[s].commit
    <2>1. CASE queries
        <3>1. RevisionAt(s) # None /\ graph = GraphSources(s)
            BY <2>1, <1>7, <1>9
        <3> QED BY <3>1, <1>4, GraphSourcesAreRefs
    <2>2. CASE ~queries
        BY <2>2, <1>9
    <2> QED BY <2>1, <2>2
<1>15. HasRead(y)
    BY <1>2, <1>4, <1>12, <1>13, <1>14 DEF HasRead, FromGraph
<1>16. HasRead(y)'
    <2>1. GraphsStand
        BY DEF GraphsStand
    <2> QED BY <1>15, <2>1, ReadStays
<1>17. runs'[r].status # "COMPLETED" /\ y.pc \notin {"generate", "save", "publish"}
    BY <1>3, <1>12
<1> QED BY <1>11, <1>16, <1>17 DEF CiteInv


(* The citations of a run whose rounds are over: of the graph's commit     *)
(* when it answered, else of the commit most hits name.                    *)
LEMMA EvaluatedCites ==
    ASSUME NEW x, HasRead(x)
    PROVE  Supported(NormalizeCitations(Named(x), ExpectedCommit(x.sources, x.graph)), x)
<1>1. PICK commit : commit = ExpectedCommit(x.sources, x.graph)
    OBVIOUS
<1>2. PICK refs : refs = Named(x)
    OBVIOUS
<1>3. /\ refs \in Seq(Refs) /\ (refs = <<>> <=> x.sources = <<>> /\ x.graph = <<>>)
      /\ \A i \in DOMAIN x.sources : \E j \in DOMAIN refs : refs[j] = x.sources[i]
      /\ \A i \in DOMAIN x.graph : \E j \in DOMAIN refs : refs[j] = x.graph[i]
    <2>1. PICK a \in Seq(Refs), b \in Seq(Refs) : a = x.sources /\ b = x.graph /\ refs = a \o b
        BY <1>2 DEF HasRead, Named
    <2>2. PICK m \in Nat, n \in Nat : m = Len(a) /\ n = Len(b) /\ DOMAIN a = 1..m /\ DOMAIN b = 1..n
        OBVIOUS
    <2>3. /\ refs \in Seq(Refs) /\ Len(refs) = m + n /\ DOMAIN refs = 1..m + n
          /\ \A i \in 1..m + n : refs[i] = IF i <= m THEN a[i] ELSE b[i - m]
        <3>1. /\ a \o b \in Seq(Refs) /\ Len(a \o b) = Len(a) + Len(b)
              /\ \A i \in 1..Len(a) + Len(b) : (a \o b)[i] = IF i <= Len(a) THEN a[i] ELSE b[i - Len(a)]
            BY ConcatProperties
        <3>2. /\ refs \in Seq(Refs) /\ Len(refs) = m + n
              /\ \A i \in 1..m + n : refs[i] = IF i <= m THEN a[i] ELSE b[i - m]
            BY Zenon, <3>1, <2>1, <2>2
        <3>3. DOMAIN refs = 1..m + n
            BY <3>2
        <3> QED BY <3>2, <3>3
    <2>4. \A i \in 1..m : i \in 1..m + n /\ refs[i] = a[i]
        BY <2>3
    <2>5. \A i \in 1..n : m + i \in 1..m + n /\ refs[m + i] = b[i]
        BY <2>3
    <2>6. refs = <<>> <=> a = <<>> /\ b = <<>>
        BY <2>2, <2>3
    <2>7. \A i \in DOMAIN a : \E j \in DOMAIN refs : refs[j] = a[i]
        BY <2>2, <2>3, <2>4
    <2>8. \A i \in DOMAIN b : \E j \in DOMAIN refs : refs[j] = b[i]
        BY <2>2, <2>3, <2>5
    <2> QED BY <2>1, <2>3, <2>6, <2>7, <2>8
<1>4. PICK c : c = NormalizeCitations(refs, commit)
    OBVIOUS
<1>5. /\ Cites(c, refs) /\ \A i \in 1..Len(c) : c[i].commit = commit
      /\ (\E i \in DOMAIN refs : refs[i].commit = commit) => c # <<>>
    BY <1>3, <1>4, NormalizedCitations
<1>6. ASSUME refs # <<>> PROVE c # <<>>
    <2>1. CASE x.graph # <<>>
        <3>1. PICK i \in DOMAIN x.graph : x.graph[i].commit = commit
            BY <2>1, <1>1, CanonicalIsNamed DEF ExpectedCommit, HasRead
        <3> QED BY <3>1, <1>3, <1>5
    <2>2. CASE x.graph = <<>> /\ x.sources # <<>>
        <3>1. PICK i \in DOMAIN x.sources : x.sources[i].commit = commit
            BY <2>2, <1>1, CanonicalIsNamed DEF ExpectedCommit, HasRead
        <3> QED BY <3>1, <1>3, <1>5
    <2> QED BY <2>1, <2>2, <1>3, <1>6
<1>7. ASSUME refs = <<>> PROVE c = <<>>
    <2>1. ToSet(refs) = {}
        BY <1>7 DEF ToSet
    <2>2. c \in Seq({})
        BY <2>1, <1>5 DEF Cites
    <2> QED BY <2>2
<1>8. ASSUME x.graph # <<>> PROVE commit = Parsed[x.question.snapshot].commit
    <2>1. PICK i \in DOMAIN x.graph : x.graph[i].commit = commit
        BY <1>8, <1>1, CanonicalIsNamed DEF ExpectedCommit, HasRead
    <2> QED BY <2>1, <1>8 DEF HasRead, FromGraph
<1> QED BY <1>1, <1>2, <1>4, <1>5, <1>6, <1>7, <1>8 DEF Supported

LEMMA EvaluateCites ==
    ASSUME AgentTypeOK, NEW r \in Runs, CiteInv(r), Evaluate(r), UNCHANGED graphs
    PROVE  CiteInv(r)'
<1>1. PICK x : x = execution[r]
    OBVIOUS
<1>2. PICK citations : citations = NormalizeCitations(Named(x), ExpectedCommit(x.sources, x.graph))
    OBVIOUS
<1>3. /\ x.pc = "evaluate" /\ UNCHANGED runs
      /\ execution' = [execution EXCEPT ![r] =
             IF citations = <<>> THEN [x EXCEPT !.pc = "save", !.answer = Insufficient]
             ELSE [x EXCEPT !.pc = "generate", !.citations = citations]]
    BY <1>1, <1>2 DEF Evaluate, Named
<1>4. HasRead(x)
    BY <1>1, <1>3 DEF CiteInv
<1>5. Supported(citations, x)
    BY <1>2, <1>4, EvaluatedCites
<1>6. PICK y : y = execution'[r]
    OBVIOUS
<1>7. DOMAIN x = ExecutionFields /\ DOMAIN execution = Runs
    BY <1>1 DEF AgentTypeOK
<1>8. CASE citations = <<>>
    <2>1. y = [x EXCEPT !.pc = "save", !.answer = Insufficient]
        BY <1>3, <1>6, <1>7, <1>8
    <2>2. y.pc = "save" /\ y.answer = Insufficient /\ SameReading(x, y)
        BY <2>1, <1>7 DEF ExecutionFields, SameReading
    <2>3. Answered(Insufficient, x)
        BY <1>5, <1>8 DEF Answered, Insufficient
    <2>4. Answered(y.answer, y)
        BY <2>2, <2>3, ReadingKept
    <2> QED BY <2>2, <2>4, <1>1, <1>3, <1>6, RunMoves
<1>9. CASE citations # <<>>
    <2>1. y = [x EXCEPT !.pc = "generate", !.citations = citations]
        BY <1>3, <1>6, <1>7, <1>9
    <2>2. y.pc = "generate" /\ y.citations = citations /\ SameReading(x, y)
        BY <2>1, <1>7 DEF ExecutionFields, SameReading
    <2>3. Supported(y.citations, y)
        BY <2>2, <1>5, ReadingKept
    <2> QED BY <2>2, <2>3, <1>1, <1>3, <1>6, <1>9, RunMoves
<1> QED BY <1>8, <1>9

LEMMA GenerateCites ==
    ASSUME AgentTypeOK, NEW r \in Runs, CiteInv(r), NEW selection \in Selections, Generate(r, selection), UNCHANGED graphs
    PROVE  CiteInv(r)'
<1>1. PICK x : x = execution[r]
    OBVIOUS
<1>2. x.pc = "generate" /\ UNCHANGED runs /\ Supported(x.citations, x) /\ x.citations # <<>>
    BY <1>1 DEF Generate, CiteInv
<1>3. CASE ~SelectionAccepted(x.citations, selection)
    <2>1. GiveUp(r, "GENERATION_FAILURE")
        BY <1>1, <1>3 DEF Generate
    <2>2. SameReading(execution[r], execution'[r]) /\ execution'[r].pc = "fail"
        BY <2>1, EntersReading
    <2> QED BY <1>1, <1>2, <2>2, RunLeaves
<1>4. CASE SelectionAccepted(x.citations, selection)
    <2>1. PICK c : c = SelectCitations(x.citations, selection)
        OBVIOUS
    <2>2. PICK a : a = [insufficient |-> FALSE, citations |-> c]
        OBVIOUS
    <2>3. execution' = [execution EXCEPT ![r].pc = "save", ![r].answer = a]
        BY <1>1, <1>4, <2>1, <2>2 DEF Generate
    <2>4. PICK y : y = execution'[r]
        OBVIOUS
    <2>5. y.pc = "save" /\ y.answer = a /\ SameReading(x, y)
        BY <1>1, <2>3, <2>4 DEF AgentTypeOK, ExecutionFields, SameReading
    <2>6. PICK refs : refs = Named(x)
        OBVIOUS
    <2>7. /\ Cites(c, refs) /\ c # <<>>
          /\ \A i \in 1..Len(c) : \E k \in 1..Len(x.citations) : c[i] = x.citations[k]
        <3>1. PICK all : all = x.citations
            OBVIOUS
        <3>2. Cites(all, refs) /\ all # <<>> /\ SelectionAccepted(all, selection) /\ c = SelectCitations(all, selection)
            BY <1>2, <1>4, <2>1, <2>6, <3>1 DEF Supported
        <3>3. /\ Cites(c, refs) /\ c # <<>>
              /\ \A i \in 1..Len(c) : \E k \in 1..Len(all) : c[i] = all[k]
            BY <3>2, SelectedCitations
        <3> QED BY <3>1, <3>3
    <2>8. x.graph # <<>> => \A i \in 1..Len(c) : c[i].commit = Parsed[x.question.snapshot].commit
        BY <1>2, <2>7 DEF Supported
    <2>9. Named(x) # <<>>
        BY <1>2 DEF Supported
    <2>10. Supported(c, x)
        BY <2>6, <2>7, <2>8, <2>9 DEF Supported
    <2>11. Answered(a, x)
        BY <2>2, <2>7, <2>10 DEF Answered
    <2>12. Answered(y.answer, y)
        BY <2>5, <2>11, ReadingKept
    <2> QED BY <1>1, <1>2, <2>4, <2>5, <2>12, RunMoves
<1> QED BY <1>3, <1>4

LEMMA SaveCites ==
    ASSUME AgentTypeOK, NEW r \in Runs, CiteInv(r), SaveRun(r), UNCHANGED graphs
    PROVE  CiteInv(r)'
<1>1. PICK x : x = execution[r]
    OBVIOUS
<1>2. x.pc = "save" /\ Answered(x.answer, x)
    BY <1>1 DEF SaveRun, CiteInv
<1>3. CASE /\ runs' = [runs EXCEPT ![r] = [status |-> "COMPLETED", answer |-> execution[r].answer]]
           /\ Enter(r, "publish")
    <2>1. PICK y : y = execution'[r]
        OBVIOUS
    <2>2. SameReading(x, y) /\ y.pc = "publish" /\ y.answer = x.answer /\ runs'[r].answer = x.answer
        BY <1>1, <1>3, <2>1, EntersReading, Entering DEF AgentTypeOK, ExecutionStages
    <2>3. Answered(y.answer, y)
        BY <1>2, <2>2, ReadingKept
    <2> QED BY <1>1, <1>2, <2>1, <2>2, <2>3, RunMoves
<1>4. CASE GiveUp(r, "PERSISTENCE") /\ UNCHANGED runs
    BY <1>1, <1>2, <1>4, EntersReading, RunLeaves
<1> QED BY <1>3, <1>4 DEF SaveRun


LEMMA RunCites ==
    ASSUME AgentTypeOK, IndexInv, GraphTypeOK, SourcesInv, NEW r \in Runs, RunInv(r), CiteInv(r),
           RunActions(r), UNCHANGED graphs
    PROVE  CiteInv(r)'
<1>1. ASSUME execution[r].pc # "idle", runs'[r] = runs[r] \/ runs'[r].status = "FAILED",
             \/ \E pc \in {"retrieve", "fail", "record", "done"} : Enter(r, pc)
             \/ \E code : GiveUp(r, code)
      PROVE  CiteInv(r)'
    <2>1. SameReading(execution[r], execution'[r]) /\ execution'[r].pc \in {"retrieve", "fail", "record", "done"}
        BY <1>1, EntersReading
    <2> QED BY <1>1, <2>1, RunLeaves
<1>2. CASE Plan(r)
    <2>1. execution[r].pc = "plan" /\ UNCHANGED runs /\ (Enter(r, "retrieve") \/ GiveUp(r, "GENERATION_FAILURE"))
        BY <1>2 DEF Plan
    <2> QED BY <1>1, <2>1
<1>3. CASE RetrievalCancelled(r)
    <2>1. execution[r].pc = "retrieve" /\ UNCHANGED runs /\ GiveUp(r, "RUN_CANCELLED")
        BY <1>3 DEF RetrievalCancelled
    <2> QED BY <1>1, <2>1
<1>4. CASE GenerationFails(r)
    <2>1. execution[r].pc = "generate" /\ UNCHANGED runs /\ \E code : GiveUp(r, code)
        BY <1>4 DEF GenerationFails
    <2> QED BY <1>1, <2>1
<1>5. CASE PublishRun(r)
    <2>1. execution[r].pc = "publish" /\ UNCHANGED runs /\ (Enter(r, "done") \/ GiveUp(r, "PERSISTENCE"))
        BY <1>5 DEF PublishRun
    <2> QED BY <1>1, <2>1
<1>6. CASE RecordFailure(r)
    <2>1. execution[r].pc = "record" /\ Enter(r, "done")
        BY <1>6 DEF RecordFailure
    <2>2. runs'[r] = runs[r] \/ runs'[r].status = "FAILED"
        BY <1>6 DEF RecordFailure, AgentTypeOK
    <2> QED BY <1>1, <2>1, <2>2
<1>7. CASE ChooseContext(r)
    <2>1. execution[r].pc = "fail" /\ UNCHANGED runs
        BY <1>7 DEF ChooseContext
    <2>2. SameReading(execution[r], execution'[r]) /\ execution'[r].pc = "record"
        BY <1>7 DEF ChooseContext, SameReading, AgentTypeOK, ExecutionFields
    <2> QED BY <2>1, <2>2, RunLeaves
<1>8. CASE Evaluate(r)
    BY <1>8, EvaluateCites
<1>9. CASE SaveRun(r)
    BY <1>9, SaveCites
<1>10. ASSUME NEW searched \in BOOLEAN, NEW queried \in BOOLEAN, RetrieveRound(r, searched, queried)
       PROVE  CiteInv(r)'
    BY <1>10, RetrieveCites
<1>11. ASSUME NEW selection \in Selections, Generate(r, selection)
       PROVE  CiteInv(r)'
    BY <1>11, GenerateCites
<1> QED BY <1>2, <1>3, <1>4, <1>5, <1>6, <1>7, <1>8, <1>9, <1>10, <1>11 DEF RunActions

(* A run begins with a question of its invocation, and nothing read.       *)
LEMMA AskCites ==
    ASSUME AgentTypeOK, AgentInv, CallTypeOK, CallsInv, InvokedInv, NEW c \in Runs, CiteInv(c), StartAsk(c),
           UNCHANGED graphs
    PROVE  CiteInv(c)'
<1>1. CASE UNCHANGED agentVars
    <2>1. GraphsStand
        BY DEF GraphsStand
    <2> QED BY <1>1, <2>1, CiteKept DEF agentVars
<1>2. CASE Ask(c, calls[c].invocation.question)
    <2>1. calls[c].pc = "operate" /\ calls[c].invocation.tool = "ask_repository"
        BY DEF StartAsk
    <2>2. PICK q \in Questions : q = calls[c].invocation.question
        BY <2>1, InvocationsAssumption DEF InvokedInv
    <2>3. /\ execution' = [execution EXCEPT ![c] = [NoExecution EXCEPT !.pc = "plan", !.question = q]]
          /\ runs' = [runs EXCEPT ![c] = [status |-> "RUNNING", answer |-> None]]
        BY <1>2, <2>2 DEF Ask, CreateRun
    <2>4. PICK y : y = execution'[c]
        OBVIOUS
    <2>5. y.pc = "plan" /\ y.question = q /\ y.sources = <<>> /\ y.graph = <<>> /\ runs'[c].status = "RUNNING"
        BY <2>3, <2>4 DEF AgentTypeOK, NoExecution
    <2>6. HasRead(y)
        BY <2>5 DEF HasRead, FromGraph
    <2>7. HasRead(y)'
        <3>1. GraphsStand
            BY DEF GraphsStand
        <3> QED BY <2>6, <3>1, ReadStays
    <2> QED BY <2>4, <2>5, <2>7 DEF CiteInv
<1> QED BY <1>1, <1>2 DEF StartAsk

LEMMA InvokedKept ==
    ASSUME CallTypeOK, InvokedInv, [Next]_vars
    PROVE  InvokedInv'
<1>1. ASSUME NEW c \in Runs, NEW i \in Invocations, NEW g \in Grants, StartCall(c, i, g)
      PROVE  InvokedInv'
    <2>1. PICK refusal, pc : calls' = [calls EXCEPT ![c] = [NoCall EXCEPT
             !.invocation = i, !.grant = g, !.reading = now, !.result = refusal, !.pc = pc]]
        BY <1>1 DEF StartCall
    <2>2. calls'[c].invocation = i /\ \A d \in Runs \ {c} : calls'[d] = calls[d]
        BY <2>1 DEF CallTypeOK, NoCall
    <2> QED BY <2>2 DEF InvokedInv
<1>2. ASSUME NEW c \in Runs, Allow(c)
      PROVE  InvokedInv'
    <2>1. calls[c].pc = "charge"
        BY <1>2 DEF Allow
    <2>2. calls'[c].invocation = calls[c].invocation /\ \A d \in Runs \ {c} : calls'[d] = calls[d]
        BY <1>2 DEF Allow, End, CallTypeOK, CallFields
    <2> QED BY <2>1, <2>2 DEF InvokedInv
<1>3. ASSUME NEW c \in Runs, calls'[c].pc \notin {"charge", "operate"}, \A d \in Runs \ {c} : calls'[d] = calls[d]
      PROVE  InvokedInv'
    BY <1>3 DEF InvokedInv
<1>4. ASSUME NEW c \in Runs, NEW result, calls' = End(c, result)
      PROVE  InvokedInv'
    <2>1. Turns(c, "audit")
        BY <1>4, Ended
    <2> QED BY <2>1, <1>3 DEF Turns
<1>5. ASSUME NEW c \in Runs, Operate(c) \/ StopWaiting(c)
      PROVE  InvokedInv'
    BY <1>4, <1>5 DEF Operate, StopWaiting
<1>6. ASSUME NEW c \in Runs, StartAsk(c)
      PROVE  InvokedInv'
    <2>1. CASE calls' = [calls EXCEPT ![c].pc = "receive"]
        BY <1>3, <2>1 DEF CallTypeOK, CallFields
    <2> QED BY <1>4, <1>6, <2>1 DEF StartAsk
<1>7. ASSUME NEW c \in Runs, Receive(c)
      PROVE  InvokedInv'
    <2>1. ASSUME NEW answer, calls' = [End(c, "OK") EXCEPT ![c].answer = answer]
          PROVE  calls'[c].pc = "audit" /\ \A d \in Runs \ {c} : calls'[d] = calls[d]
        BY <2>1 DEF End, CallTypeOK, CallFields
    <2> QED BY <1>3, <1>4, <1>7, <2>1 DEF Receive
<1>8. ASSUME NEW c \in Runs, Finalize(c)
      PROVE  InvokedInv'
    <2>1. PICK result : calls' = [calls EXCEPT ![c] = [NoCall EXCEPT !.pc = "done", !.result = result, !.answer = calls[c].answer]]
        BY <1>8 DEF Finalize
    <2>2. calls'[c].pc = "done" /\ \A d \in Runs \ {c} : calls'[d] = calls[d]
        BY <2>1 DEF CallTypeOK, NoCall
    <2> QED BY <1>3, <2>2
<1>9. CASE UNCHANGED calls
    BY <1>9 DEF InvokedInv
<1>10. CASE ToolStep
    <2>1. CASE Tick \/ UNCHANGED calls \/ \E c \in Runs : EndContext(c)
        BY <1>9, <2>1 DEF Tick, EndContext
    <2> QED BY <1>1, <1>2, <1>5, <1>6, <1>7, <1>8, <1>10, <2>1 DEF ToolStep, ToolNext
<1> QED BY <1>9, <1>10 DEF Next, GraphStep, IndexStep, WikiStep, AssistantStep, answerVars, toolVars, vars


LEMMA AnswersStep ==
    ASSUME PublicationInv, AnswersInv, [Next]_vars
    PROVE  AnswersInv'
<1>1. /\ AgentTypeOK /\ AgentInv /\ CallTypeOK /\ CallsInv /\ GraphTypeOK /\ IndexInv
      /\ SourcesInv /\ CitesInv /\ InvokedInv
    BY DEF PublicationInv, AnswersInv
<1>2. GraphsStand /\ InvokedInv'
    BY <1>1, PublicationStep, InvokedKept
<1>3. ASSUME UNCHANGED <<graphs, revisions, indexer>> PROVE SourcesInv'
    BY <1>1, <1>3 DEF SourcesInv
<1>4. SourcesInv'
    <2>1. CASE GraphStep
        BY <1>1, <2>1, GraphSourcesKept
    <2>2. CASE IndexStep
        BY <1>1, <2>2, IndexSourcesKept
    <2>3. CASE WikiStep \/ ToolStep \/ AssistantStep \/ UNCHANGED vars
        BY <1>3, <2>3 DEF WikiStep, ToolStep, AssistantStep, vars, graphVars, indexVars
    <2> QED BY <2>1, <2>2, <2>3 DEF Next
<1>5. ASSUME NEW r \in Runs, execution'[r] = execution[r], runs'[r] = runs[r] PROVE CiteInv(r)'
    BY <1>1, <1>2, <1>5, CiteKept DEF CitesInv
<1>6. CASE UNCHANGED <<execution, runs>>
    BY <1>2, <1>4, <1>5, <1>6 DEF AnswersInv, CitesInv
<1>7. CASE ToolStep
    <2>1. UNCHANGED graphs
        BY <1>7 DEF ToolStep, graphVars
    <2>2. ASSUME NEW r \in Runs, RunActions(r) PROVE CitesInv'
        <3>1. RunInv(r) /\ CiteInv(r)
            BY <1>1 DEF AgentInv, CitesInv
        <3>2. CiteInv(r)'
            BY <1>1, <2>1, <2>2, <3>1, RunCites
        <3>3. OthersKeep(r)
            BY <1>1, <2>2, <3>1, RunStep DEF RunAlone
        <3> QED BY <1>5, <3>2, <3>3 DEF CitesInv, OthersKeep
    <2>3. ASSUME NEW c \in Runs, StartAsk(c) PROVE CitesInv'
        <3>1. CallInv(c) /\ CiteInv(c)
            BY <1>1 DEF CallsInv, CitesInv
        <3>2. CiteInv(c)'
            BY <1>1, <2>1, <2>3, <3>1, AskCites
        <3>3. OthersKeep(c)
            BY <1>1, <2>3, <3>1, StartAskStep
        <3> QED BY <1>5, <3>2, <3>3 DEF CitesInv, OthersKeep
    <2>4. ASSUME UNCHANGED agentVars PROVE AnswersInv'
        BY <1>6, <2>4 DEF agentVars
    <2>5. CASE AgentNext
        <3>1. PICK r \in Runs : RunActions(r)
            BY <2>5 DEF AgentNext, RunActions
        <3> QED BY <1>2, <1>4, <2>2, <3>1 DEF AnswersInv
    <2>6. CASE \E c \in Runs : StartAsk(c)
        BY <1>2, <1>4, <2>3, <2>6 DEF AnswersInv
    <2>7. CASE Tick
        BY <2>4, <2>7 DEF Tick
    <2>8. ASSUME NEW c \in Runs,
                 \/ \E i \in Invocations, g \in Grants : StartCall(c, i, g)
                 \/ Allow(c) \/ Operate(c) \/ Receive(c) \/ StopWaiting(c) \/ EndContext(c) \/ Finalize(c)
          PROVE  AnswersInv'
        <3>1. UNCHANGED agentVars
            BY <2>8 DEF StartCall, Allow, Operate, Receive, StopWaiting, EndContext, Finalize
        <3> QED BY <2>4, <3>1
    <2>9. \/ Tick \/ AgentNext
          \/ \E c \in Runs :
                \/ \E i \in Invocations, g \in Grants : StartCall(c, i, g)
                \/ Allow(c) \/ Operate(c) \/ StartAsk(c) \/ Receive(c) \/ StopWaiting(c) \/ EndContext(c) \/ Finalize(c)
        BY <1>7 DEF ToolStep, ToolNext
    <2> HIDE DEF AnswersInv
    <2> QED BY <2>5, <2>6, <2>7, <2>8, <2>9
<1>8. CASE GraphStep \/ IndexStep \/ WikiStep \/ AssistantStep \/ UNCHANGED vars
    BY <1>6, <1>8 DEF GraphStep, IndexStep, WikiStep, AssistantStep, vars, answerVars, agentVars
<1> QED BY <1>7, <1>8 DEF Next

LEMMA AnswersInductive == Spec => []AnswersInv
<1>1. Init => AnswersInv
    <2> SUFFICES ASSUME Init PROVE AnswersInv
        OBVIOUS
    <2>1. SourcesInv
        BY DEF Init, GraphInit, IndexInit, SourcesInv
    <2>2. \A r \in Runs : execution[r].pc = "idle" /\ runs[r] = None
        BY DEF Init, AgentInit, NoExecution
    <2>3. CitesInv
        BY <2>2 DEF CitesInv, CiteInv
    <2>4. InvokedInv
        BY DEF Init, ToolInit, NoCall, InvokedInv
    <2> QED BY <2>1, <2>3, <2>4 DEF AnswersInv
<1>2. PublicationInv /\ AnswersInv /\ [Next]_vars => AnswersInv'
    BY AnswersStep
<1> QED BY <1>1, <1>2, PublicationInductive, PTL DEF Spec

(* A completed answer cites one commit, that of the graph of its snapshot  *)
(* when the graph was there to ask; at most MaxCitations places, each      *)
(* once, all of them named by a source; and one without citations says     *)
(* that the evidence is missing, whatever was published or replaced while  *)
(* it was made.                                                            *)
THEOREM AnswersAreOfOneCommit == Spec => []AnswersCiteOneCommit
<1>1. AgentTypeOK /\ AgentInv /\ AnswersInv => AnswersCiteOneCommit
    <2> SUFFICES ASSUME AgentTypeOK, AgentInv, CitesInv, NEW r \in Runs, runs[r] # None, runs[r].status = "COMPLETED"
                 PROVE  LET cited == runs[r].answer.citations
                            x == execution[r]
                        IN /\ runs[r].answer.insufficient <=> cited = <<>>
                           /\ cited = <<>> <=> x.sources \o x.graph = <<>>
                           /\ Len(cited) <= MaxCitations /\ Cardinality(ToSet(cited)) = Len(cited)
                           /\ ToSet(cited) \subseteq ToSet(x.sources \o x.graph)
                           /\ Cardinality({ref.commit : ref \in ToSet(cited)}) <= 1
                           /\ x.graph # <<>> => {ref.commit : ref \in ToSet(cited)} \subseteq CommitsOf(x.question.snapshot)
        BY DEF AnswersInv, AnswersCiteOneCommit
    <2>1. PICK x : x = execution[r]
        OBVIOUS
    <2>2. PICK a : a = runs[r].answer
        OBVIOUS
    <2>3. PICK c : c = a.citations
        OBVIOUS
    <2>4. PICK refs : refs = Named(x)
        OBVIOUS
    <2>5. Answered(a, x) /\ HasRead(x)
        <3>1. Answered(a, x)
            BY <2>1, <2>2 DEF CitesInv, CiteInv
        <3>2. x.pc # "idle"
            BY <2>1 DEF AgentInv, RunInv, Sending
        <3>3. HasRead(x)
            BY <2>1, <3>2 DEF CitesInv, CiteInv
        <3> QED BY <3>1, <3>3
    <2>6. /\ c \in Seq(ToSet(refs)) /\ Len(c) <= MaxCitations
          /\ \A i, j \in 1..Len(c) : c[i] = c[j] => i = j
          /\ \A i, j \in 1..Len(c) : c[i].commit = c[j].commit
          /\ (c = <<>> <=> refs = <<>>) /\ (a.insufficient <=> c = <<>>)
          /\ x.graph # <<>> => \A i \in 1..Len(c) : c[i].commit = Parsed[x.question.snapshot].commit
        BY <2>3, <2>4, <2>5 DEF Answered, Supported, Cites
    <2>7. PICK n \in Nat : n = Len(c) /\ DOMAIN c = 1..n /\ ToSet(c) = {c[i] : i \in 1..n}
        BY <2>6 DEF ToSet
    <2>8. Cardinality(ToSet(c)) = n
        <3>1. PICK I : I = 1..n
            OBVIOUS
        <3>2. c \in Surjection(I, ToSet(c)) /\ c \in Injection(I, ToSet(c))
            BY <2>6, <2>7, <3>1 DEF Surjection, Injection, IsInjective
        <3>3. IsFiniteSet(I) /\ Cardinality(I) = n
            <4>1. IsFiniteSet(1..n) /\ Cardinality(1..n) = n
                BY FS_Interval
            <4> QED BY <3>1, <4>1
        <3> QED BY <3>2, <3>3, FS_Surjection
    <2>9. ToSet(c) \subseteq ToSet(refs)
        BY <2>6, <2>7
    <2>10. PICK commits : commits = {ref.commit : ref \in ToSet(c)}
        OBVIOUS
    <2>11. Cardinality(commits) <= 1
        <3>1. CASE n = 0
            <4>1. commits = {}
                BY <2>7, <2>10, <3>1
            <4> QED BY <4>1, FS_EmptySet
        <3>2. CASE n # 0
            <4>1. PICK commit : commit = c[1].commit
                OBVIOUS
            <4>2. commits = {commit}
                BY <2>6, <2>7, <2>10, <3>2, <4>1
            <4>3. Cardinality({commit}) = 1
                BY FS_Singleton
            <4> QED BY <4>2, <4>3
        <3> QED BY <3>1, <3>2
    <2>12. x.graph # <<>> => commits \subseteq CommitsOf(x.question.snapshot)
        <3> SUFFICES ASSUME x.graph # <<>> PROVE commits \subseteq CommitsOf(x.question.snapshot)
            OBVIOUS
        <3>1. CommitsOf(x.question.snapshot) = {Parsed[x.question.snapshot].commit}
            BY <2>5 DEF HasRead, FromGraph, CommitsOf
        <3>2. \A i \in 1..n : c[i].commit = Parsed[x.question.snapshot].commit
            BY <2>6, <2>7
        <3> QED BY <2>7, <2>10, <3>1, <3>2
    <2> QED BY <2>1, <2>2, <2>3, <2>4, <2>6, <2>7, <2>8, <2>9, <2>10, <2>11, <2>12 DEF Named
<1> QED BY <1>1, AnswersInductive, PublicationInductive, PTL DEF PublicationInv

-----------------------------------------------------------------------------
(***************************************************************************)
(* What a search answers. All scores are numbers, so that their order      *)
(* decides between any two documents; the reranker of the repository       *)
(* leaves them as they are.                                                *)
(***************************************************************************)
LEMMA SumIsTotal ==
    ASSUME NEW f, IsFiniteSet(DOMAIN f), \A x \in DOMAIN f : f[x] \in Nat
    PROVE  Sum(f) = Total(f, DOMAIN f) /\ Sum(f) \in Nat
<1>1. PICK S : S = DOMAIN f
    OBVIOUS
<1> DEFINE IsFold(fold) == fold = [s \in SUBSET S |->
                 IF s = {} THEN 0 ELSE f[CHOOSE x \in s : TRUE] + fold[s \ {CHOOSE x \in s : TRUE}]]
<1>2. Sum(f) = (CHOOSE fold : IsFold(fold))[S]
    BY <1>1 DEF Sum, MapThenSumSet, MapThenFoldSet
<1>3. \A fold : IsFold(fold) <=> Folds(fold, f, S)
    BY DEF Folds, Pick
<1>4. IsFold(CHOOSE fold : IsFold(fold))
    <2>1. \E fold : Folds(fold, f, S)
        BY <1>1, FoldExists
    <2> HIDE DEF IsFold
    <2>2. \E fold : IsFold(fold)
        BY <2>1, <1>3
    <2> QED BY <2>2
<1>5. PICK fold : fold = (CHOOSE g : IsFold(g))
    OBVIOUS
<1> HIDE DEF IsFold
<1>6. Folds(fold, f, S)
    BY <1>3, <1>4, <1>5
<1>7. fold[S] = Total(f, S)
    BY <1>1, <1>6, FoldIsTotal
<1>8. Total(f, S) \in Nat
    BY <1>1, TotalType
<1> QED BY <1>1, <1>2, <1>5, <1>7, <1>8

LEMMA GreatestExists ==
    ASSUME NEW S \in SUBSET Nat, IsFiniteSet(S), S # {}
    PROVE  Greatest(S) \in S /\ \A y \in S : y <= Greatest(S)
<1>1. PICK n \in Nat : n = Cardinality(S)
    BY FS_CardinalityType
<1>2. n # 0
    BY <1>1, FS_EmptySet
<1>3. PICK s : s = ById(S)
    OBVIOUS
<1>4. /\ s \in [1..n -> S] /\ \A i, j \in 1..n : i < j => s[i] < s[j]
      /\ \A x \in S : \E i \in 1..n : s[i] = x
    <2>1. S \in SUBSET Int
        OBVIOUS
    <2> QED BY <1>1, <1>3, <2>1, OrderedNumbers
<1>5. s[n] \in S /\ \A y \in S : y <= s[n]
    <2>1. n \in 1..n
        BY <1>2
    <2>2. s[n] \in S
        BY <1>4, <2>1
    <2>3. ASSUME NEW y \in S PROVE y <= s[n]
        <3>1. PICK i \in 1..n : s[i] = y
            BY <1>4
        <3>2. i = n \/ i < n
            OBVIOUS
        <3>3. i < n => s[i] < s[n]
            BY <1>4, <2>1
        <3>4. y \in Nat /\ s[n] \in Nat
            BY <2>2
        <3>5. y = s[n] \/ y < s[n]
            BY <3>1, <3>2, <3>3
        <3> QED BY <3>4, <3>5
    <2> QED BY <2>2, <2>3
<1>6. \E x \in S : \A y \in S : y <= x
    BY <1>5
<1> QED BY <1>6 DEF Greatest

LEMMA Quotient ==
    ASSUME NEW a \in Nat, NEW b \in Nat, b # 0
    PROVE  a \div b \in Nat
<1>1. PICK q \in Int : q = a \div b
    OBVIOUS
<1>2. a = b * q + (a % b) /\ a % b \in 0..b - 1
    BY <1>1
<1>3. q >= 0
    <2> SUFFICES ASSUME q <= -1 PROVE FALSE
        OBVIOUS
    <2>1. b * q <= b * (-1)
        OBVIOUS
    <2> QED BY <1>2, <2>1
<1> QED BY <1>1, <1>3

(* A request that is served, for documents it can be compared with.        *)
Servable(r, docs) ==
    /\ r.query \in Seq(ToSet(r.query)) /\ ValidRequest(r)
    /\ \A d \in docs : Cosine(r.query, d) \in Int

LEMMA SymbolScoreIsNumber ==
    ASSUME NEW query, query \in Seq(ToSet(query)), query # <<>>, NEW d
    PROVE  SymbolScore(query, d) \in Nat
<1>1. PICK n \in Nat : n = Len(query) /\ n # 0
    BY EmptySeq
<1> DEFINE related(q, t) == q = t \/ Prefixed(q, t) \/ Prefixed(t, q)
           first(q) == SelectInSeq(d.terms, LAMBDA t : related(q, t))
           points(at, q) == IF at = 0 THEN 0 ELSE IF d.terms[at] = q THEN One ELSE (6 * One) \div 10
           f == [i \in 1..n |-> points(first(query[i]), query[i])]
<1>2. SymbolScore(query, d) = Sum(f) \div n
    BY <1>1 DEF SymbolScore
<1>3. \A at, q : points(at, q) \in Nat
    BY DEF One
<1>4. \A i \in 1..n : f[i] \in Nat
    BY <1>3
<1>5. DOMAIN f = 1..n
    OBVIOUS
<1> HIDE DEF f
<1>6. IsFiniteSet(DOMAIN f)
    BY <1>5, FS_Interval
<1>7. Sum(f) \in Nat
    BY <1>4, <1>5, <1>6, SumIsTotal
<1> QED BY <1>1, <1>2, <1>7, Quotient

LEMMA KeywordScoresAreNumbers ==
    ASSUME NEW query, query \in Seq(ToSet(query)), NEW docs, IsFiniteSet(docs), NEW d \in docs
    PROVE  KeywordScores(query, docs)[d] \in Nat
<1>1. PICK n \in Nat : n = Cardinality(docs)
    BY FS_CardinalityType
<1>2. \A q : Rarity(docs, q) \in Nat
    <2> SUFFICES ASSUME NEW q PROVE Rarity(docs, q) \in Nat
        OBVIOUS
    <2>1. PICK holders \in SUBSET docs : holders = {e \in docs : q \in ToSet(e.text)}
        OBVIOUS
    <2>2. IsFiniteSet(holders) /\ Cardinality(holders) <= n
        BY <1>1, FS_Subset
    <2>3. Cardinality(holders) \in Nat
        BY <2>2, FS_CardinalityType
    <2> QED BY <1>1, <2>1, <2>2, <2>3 DEF Rarity
<1>3. \A e : Weigh(query, docs, e) \in Nat
    <2> SUFFICES ASSUME NEW e PROVE Weigh(query, docs, e) \in Nat
        OBVIOUS
    <2>1. PICK Q : Q = ToSet(query) \cap ToSet(e.text)
        OBVIOUS
    <2>2. PICK f : f = [q \in Q |-> Rarity(docs, q)]
        OBVIOUS
    <2>3. DOMAIN f = Q /\ \A q \in DOMAIN f : f[q] \in Nat
        BY <1>2, <2>2
    <2>4. IsFiniteSet(Q)
        <3>1. IsFiniteSet(ToSet(query))
            BY SequenceIsFinite
        <3>2. Q \in SUBSET ToSet(query)
            BY <2>1
        <3> QED BY <3>1, <3>2, FS_Subset
    <2>5. Sum(f) \in Nat
        BY <2>3, <2>4, SumIsTotal
    <2> QED BY <2>1, <2>2, <2>5 DEF Weigh
<1> DEFINE weight == [e \in docs |-> Weigh(query, docs, e)]
<1>4. PICK W \in SUBSET Nat : W = {Weigh(query, docs, e) : e \in docs}
    BY <1>3
<1>5. IsFiniteSet(W)
    <2>1. weight \in Surjection(docs, W)
        BY <1>4 DEF Surjection
    <2> HIDE DEF weight
    <2> QED BY <2>1, FS_Surjection
<1>6. PICK best : best = Greatest(W)
    OBVIOUS
<1>7. best \in Nat
    <2>1. W # {}
        BY <1>4
    <2>2. best \in W
        BY <1>5, <1>6, <2>1, GreatestExists
    <2> QED BY <2>2
<1>8. KeywordScores(query, docs) = [e \in docs |-> IF best = 0 THEN 0 ELSE (One * Weigh(query, docs, e)) \div best]
    BY <1>4, <1>6 DEF KeywordScores
<1>9. PICK w \in Nat : w = One * Weigh(query, docs, d)
    BY <1>3 DEF One
<1>10. KeywordScores(query, docs)[d] = IF best = 0 THEN 0 ELSE w \div best
    BY <1>8, <1>9
<1>11. best # 0 => w \div best \in Nat
    BY <1>7, Quotient
<1> QED BY <1>10, <1>11

Scores(scores, docs) ==
    /\ DOMAIN scores = docs
    /\ \A d \in docs : DOMAIN scores[d] = Strategies /\ \A s \in Strategies : scores[d][s] \in Nat

LEMMA BaseScoresAreNumbers ==
    ASSUME NEW r, NEW docs, IsFiniteSet(docs), Servable(r, docs)
    PROVE  Scores(BaseScores(r, docs), docs)
<1> DEFINE uses(s) == Active(r) \cap {s, "GRAPH"} # {}
           row(d) == [SYMBOL |-> IF uses("SYMBOL") THEN SymbolScore(r.query, d) ELSE 0,
                      KEYWORD |-> IF uses("KEYWORD") THEN KeywordScores(r.query, docs)[d] ELSE 0,
                      SEMANTIC |-> IF "SEMANTIC" \in Active(r) /\ Cosine(r.query, d) > 0 THEN Cosine(r.query, d) ELSE 0,
                      GRAPH |-> 0]
<1>1. BaseScores(r, docs) = [d \in docs |-> row(d)]
    BY Zenon DEF BaseScores
<1>2. ASSUME NEW d \in docs, NEW s \in Strategies PROVE row(d)[s] \in Nat
    <2>1. SymbolScore(r.query, d) \in Nat /\ KeywordScores(r.query, docs)[d] \in Nat /\ Cosine(r.query, d) \in Int
        BY SymbolScoreIsNumber, KeywordScoresAreNumbers DEF Servable, ValidRequest
    <2>2. PICK symbol \in Nat : symbol = IF uses("SYMBOL") THEN SymbolScore(r.query, d) ELSE 0
        BY <2>1
    <2>3. PICK keyword \in Nat : keyword = IF uses("KEYWORD") THEN KeywordScores(r.query, docs)[d] ELSE 0
        BY <2>1
    <2>4. PICK semantic \in Nat :
             semantic = IF "SEMANTIC" \in Active(r) /\ Cosine(r.query, d) > 0 THEN Cosine(r.query, d) ELSE 0
        BY <2>1
    <2>5. row(d) = [SYMBOL |-> symbol, KEYWORD |-> keyword, SEMANTIC |-> semantic, GRAPH |-> 0]
        BY <2>2, <2>3, <2>4
    <2> QED BY <2>5 DEF Strategies
<1>3. \A d : DOMAIN row(d) = Strategies
    BY DEF Strategies
<1> HIDE DEF row
<1> QED BY <1>1, <1>2, <1>3 DEF Scores

LEMMA ScoresAreNumbers ==
    ASSUME NEW r, NEW docs, IsFiniteSet(docs), Servable(r, docs), NEW g
    PROVE  Scores(Score(r, docs, g), docs)
<1>1. PICK base : base = BaseScores(r, docs)
    OBVIOUS
<1>2. Scores(base, docs)
    BY <1>1, BaseScoresAreNumbers
<1>3. \A artifact, roots, reached : GraphScore(artifact, roots, reached) \in Nat
    BY DEF GraphScore, One
<1>4. ASSUME NEW roots, NEW reached PROVE Scores(Reach(base, roots, reached), docs)
    <2>1. PICK more : more = Reach(base, roots, reached)
        OBVIOUS
    <2>2. more = [d \in docs |-> [base[d] EXCEPT !.GRAPH = GraphScore(d.artifact, roots, reached)]]
        BY <1>2, <2>1 DEF Reach, Scores
    <2>3. ASSUME NEW d \in docs, NEW s \in Strategies PROVE more[d][s] \in Nat
        <3>1. PICK score \in Nat : score = GraphScore(d.artifact, roots, reached)
            BY <1>3
        <3>2. more[d] = [base[d] EXCEPT !.GRAPH = score]
            BY <2>2, <3>1
        <3>3. base[d][s] \in Nat /\ DOMAIN base[d] = Strategies
            BY <1>2 DEF Scores
        <3>4. more[d][s] = base[d][s] \/ more[d][s] = score
            BY <3>2, <3>3
        <3> QED BY <3>3, <3>4
    <2>4. DOMAIN more = docs
        BY <2>2
    <2>5. \A d \in docs : DOMAIN more[d] = Strategies
        BY <1>2, <2>2 DEF Scores
    <2> QED BY <2>1, <2>3, <2>4, <2>5 DEF Scores
<1>5. \A roots : Scores(ExpandFrom(g, base, roots), docs)
    BY <1>2, <1>4 DEF ExpandFrom
<1>6. Scores(ExpandGraph(g, base), docs)
    BY <1>5 DEF ExpandGraph
<1> QED BY <1>1, <1>2, <1>6 DEF Score

(* The combined score of a document: a number, and 0 for one that no       *)
(* strategy scored.                                                        *)
LEMMA CombinedIsNumber ==
    ASSUME NEW r, ValidRequest(r), NEW score, \A s \in Strategies : score[s] \in Nat
    PROVE  Combined(r, score) \in Nat /\ ((\A s \in Strategies : ~(score[s] > 0)) => Combined(r, score) = 0)
<1>1. PICK S \in SUBSET Strategies : S = Active(r)
    BY DEF Active, ValidRequest
<1>2. IsFiniteSet(S)
    <2>1. IsFiniteSet(Strategies)
        <3>1. IsFiniteSet({"SYMBOL"}) /\ IsFiniteSet({"KEYWORD"}) /\ IsFiniteSet({"SEMANTIC"}) /\ IsFiniteSet({"GRAPH"})
            BY FS_Singleton
        <3>2. IsFiniteSet({"SYMBOL"} \cup {"KEYWORD"}) /\ IsFiniteSet({"SEMANTIC"} \cup {"GRAPH"})
            BY <3>1, FS_Union
        <3>3. IsFiniteSet(({"SYMBOL"} \cup {"KEYWORD"}) \cup ({"SEMANTIC"} \cup {"GRAPH"}))
            BY <3>2, FS_Union
        <3>4. Strategies = ({"SYMBOL"} \cup {"KEYWORD"}) \cup ({"SEMANTIC"} \cup {"GRAPH"})
            BY DEF Strategies
        <3> QED BY <3>3, <3>4
    <2> QED BY <2>1, FS_Subset
<1>3. PICK f : f = [s \in S |-> score[s] * Weight[s]]
    OBVIOUS
<1>4. \A s \in Strategies : Weight[s] \in Nat
    BY RetrievalAssumption
<1>5. \A s \in S : f[s] \in Nat
    <2> SUFFICES ASSUME NEW s \in S PROVE f[s] \in Nat
        OBVIOUS
    <2>1. PICK a \in Nat : a = score[s]
        OBVIOUS
    <2>2. PICK w \in Nat : w = Weight[s]
        BY <1>4
    <2>3. f[s] = a * w
        BY <1>3, <2>1, <2>2
    <2> QED BY <2>3
<1>6. Combined(r, score) = Sum(f) /\ DOMAIN f = S
    BY <1>1, <1>3 DEF Combined
<1>7. Sum(f) = Total(f, S) /\ Sum(f) \in Nat
    BY <1>2, <1>5, <1>6, SumIsTotal
<1>8. ASSUME \A s \in Strategies : ~(score[s] > 0) PROVE Sum(f) = 0
    <2>1. ASSUME NEW s \in S PROVE f[s] = 0
        <3>1. score[s] = 0
            BY <1>8
        <3>2. PICK w \in Nat : w = Weight[s]
            BY <1>4
        <3>3. f[s] = 0 * w
            BY <1>3, <3>1, <3>2
        <3> QED BY <3>3
    <2>2. Tokens(f, S) = {}
        BY <2>1 DEF Tokens
    <2>3. Total(f, S) = 0
        BY <2>2, FS_EmptySet DEF Total
    <2> QED BY <1>7, <2>3
<1> QED BY <1>6, <1>7, <1>8

(* The hits before the reranker: every document with a score, once, in the *)
(* order of the scores.                                                    *)
Better(value, a, b) == value[a] > value[b] \/ (value[a] = value[b] /\ a.id < b.id)

LEMMA RankedLists ==
    ASSUME NEW docs, Documents(docs), NEW value, \A d \in docs : value[d] \in Nat
    PROVE  \E R : /\ Lists(RankBy(docs, value), docs, R)
                  /\ \A a, b \in docs : <<a, b>> \in R <=> Better(value, a, b)
<1>1. PICK R : R = {p \in docs \X docs : Better(value, p[1], p[2])}
    OBVIOUS
<1>2. \A a, b \in docs : <<a, b>> \in R <=> Better(value, a, b)
    BY <1>1
<1>3. \A a \in docs : value[a] \in Nat /\ a.id \in Nat
    BY DEF Documents
<1>4. \A a, b \in docs : a.id = b.id => a = b
    BY DEF Documents
<1>5. StrictOrder(docs, R)
    <2>1. \A x, y \in docs : <<x, y>> \in R => <<y, x>> \notin R
        BY <1>2, <1>3 DEF Better
    <2>2. \A x, y \in docs : x # y => <<x, y>> \in R \/ <<y, x>> \in R
        BY <1>2, <1>3, <1>4 DEF Better
    <2>3. \A x, y, z \in docs : <<x, y>> \in R /\ <<y, z>> \in R => <<x, z>> \in R
        <3> SUFFICES ASSUME NEW x \in docs, NEW y \in docs, NEW z \in docs, <<x, y>> \in R, <<y, z>> \in R
                     PROVE  <<x, z>> \in R
            OBVIOUS
        <3>1. Better(value, x, y) /\ Better(value, y, z)
            BY <1>2
        <3>2. Better(value, x, z)
            BY <1>3, <3>1 DEF Better
        <3> QED BY <1>2, <3>2
    <2> QED BY <2>1, <2>2, <2>3 DEF StrictOrder
<1>6. Lists(Sorted(docs, R), docs, R)
    <2>1. IsFiniteSet(docs)
        BY DEF Documents
    <2> QED BY <1>5, <2>1, SortedLists
<1>7. RankBy(docs, value) = Sorted(docs, R)
    <2> DEFINE place == [x \in docs |-> Cardinality({y \in docs : Better(value, y, x)}) + 1]
               sorted == [x \in docs |-> Cardinality({y \in docs : <<y, x>> \in R}) + 1]
    <2>1. \A x \in docs : {y \in docs : Better(value, y, x)} = {y \in docs : <<y, x>> \in R}
        BY <1>2
    <2>2. place = sorted
        BY <2>1
    <2>3. RankBy(docs, value) = [i \in 1..Cardinality(docs) |-> CHOOSE x \in docs : place[x] = i]
        BY DEF RankBy, Ordered, Better
    <2>4. Sorted(docs, R) = [i \in 1..Cardinality(docs) |-> CHOOSE x \in docs : sorted[x] = i]
        BY DEF Sorted
    <2> HIDE DEF place, sorted
    <2> QED BY <2>2, <2>3, <2>4
<1> QED BY <1>2, <1>6, <1>7

LEMMA SomeDocuments ==
    ASSUME NEW docs, Documents(docs), NEW some \in SUBSET docs
    PROVE  Documents(some)
<1>1. IsFiniteSet(some)
    BY FS_Subset DEF Documents
<1> QED BY <1>1 DEF Documents

HitOf(hit, r, scores) ==
    /\ hit.document \in Scored(scores) /\ hit.score \in Nat /\ hit.score > 0
    /\ hit.score = Combined(r, scores[hit.document])
Made(hits, r, scores) ==
    /\ hits \in Seq([document : Scored(scores), score : Nat])
    /\ \A i \in 1..Len(hits) : HitOf(hits[i], r, scores)
    /\ \A i, k \in 1..Len(hits) : hits[i].document = hits[k].document => i = k
    /\ \A i, k \in 1..Len(hits) : i < k => hits[k].score <= hits[i].score
    /\ \A d \in DOMAIN scores : Combined(r, scores[d]) = 0 \/ \E i \in 1..Len(hits) : hits[i].document = d

LEMMA HitsAreMade ==
    ASSUME NEW docs, Documents(docs), NEW r, ValidRequest(r), NEW scores, Scores(scores, docs)
    PROVE  Made(MakeHits(r, scores), r, scores)
<1>1. PICK scored \in SUBSET docs : scored = Scored(scores)
    BY DEF Scores, Scored
<1>2. PICK value : value = [d \in scored |-> Combined(r, scores[d])]
    OBVIOUS
<1>3. \A d \in docs : Combined(r, scores[d]) \in Nat
    BY CombinedIsNumber DEF Scores
<1>4. PICK some \in SUBSET scored : some = {d \in scored : value[d] > 0}
    OBVIOUS
<1>5. \A d \in some : value[d] = Combined(r, scores[d]) /\ value[d] \in Nat /\ value[d] > 0
    BY <1>1, <1>2, <1>3, <1>4
<1>6. PICK ranked : ranked = RankBy(some, value)
    OBVIOUS
<1>7. PICK R : Lists(ranked, some, R) /\ \A a, b \in some : <<a, b>> \in R <=> Better(value, a, b)
    <2>1. some \in SUBSET docs
        BY <1>1, <1>4
    <2>2. Documents(some)
        BY <2>1, SomeDocuments
    <2> QED BY <1>5, <1>6, <2>2, RankedLists
<1>8. PICK n \in Nat : /\ n = Len(ranked) /\ ranked \in [1..n -> some] /\ ToSet(ranked) = some
                       /\ \A i, j \in 1..n : i < j => <<ranked[i], ranked[j]>> \in R
                       /\ \A i, j \in 1..n : ranked[i] = ranked[j] => i = j
    BY <1>7 DEF Lists
<1>9. PICK hits : hits = MakeHits(r, scores)
    OBVIOUS
<1>10. hits = [i \in 1..n |-> [document |-> ranked[i], score |-> value[ranked[i]]]]
    BY <1>1, <1>2, <1>4, <1>6, <1>8, <1>9 DEF MakeHits
<1>11. \A i \in 1..n : ranked[i] \in some /\ hits[i] = [document |-> ranked[i], score |-> value[ranked[i]]]
    BY <1>8, <1>10
<1>12. \A i \in 1..n : hits[i].document = ranked[i] /\ hits[i].score = value[ranked[i]]
    <2> SUFFICES ASSUME NEW i \in 1..n PROVE hits[i].document = ranked[i] /\ hits[i].score = value[ranked[i]]
        OBVIOUS
    <2>1. PICK d : d = ranked[i]
        OBVIOUS
    <2>2. PICK v : v = value[ranked[i]]
        OBVIOUS
    <2>3. hits[i] = [document |-> d, score |-> v]
        BY <1>11, <2>1, <2>2
    <2> QED BY <2>1, <2>2, <2>3
<1>13. \A i \in 1..n : HitOf(hits[i], r, scores)
    <2> SUFFICES ASSUME NEW i \in 1..n PROVE HitOf(hits[i], r, scores)
        OBVIOUS
    <2>1. PICK d \in some : d = ranked[i]
        BY <1>11
    <2>2. hits[i].document = d /\ hits[i].score = value[d]
        BY <1>12, <2>1
    <2>3. value[d] = Combined(r, scores[d]) /\ value[d] \in Nat /\ value[d] > 0
        BY <1>5
    <2> QED BY <1>1, <2>2, <2>3 DEF HitOf
<1>14. hits \in Seq([document : Scored(scores), score : Nat]) /\ Len(hits) = n
    <2>1. \A i \in 1..n : hits[i] \in [document : Scored(scores), score : Nat]
        <3> SUFFICES ASSUME NEW i \in 1..n PROVE hits[i] \in [document : Scored(scores), score : Nat]
            OBVIOUS
        <3>1. PICK d \in scored : d = ranked[i]
            BY <1>4, <1>11
        <3>2. PICK v \in Nat : v = value[ranked[i]]
            BY <1>5, <1>11
        <3>3. hits[i] = [document |-> d, score |-> v]
            BY <1>11, <3>1, <3>2
        <3> QED BY <1>1, <3>3
    <2>2. PICK H : H = [document : Scored(scores), score : Nat]
        OBVIOUS
    <2>3. hits \in [1..n -> H]
        BY <1>10, <2>1, <2>2
    <2>4. hits \in Seq(H) /\ Len(hits) = n
        BY <1>8, <2>3
    <2> QED BY <2>2, <2>4
<1>15. \A i, k \in 1..n : hits[i].document = hits[k].document => i = k
    BY <1>8, <1>12
<1>16. \A i, k \in 1..n : i < k => hits[k].score <= hits[i].score
    <2> SUFFICES ASSUME NEW i \in 1..n, NEW k \in 1..n, i < k PROVE hits[k].score <= hits[i].score
        OBVIOUS
    <2>1. PICK a \in some : a = ranked[i]
        BY <1>11
    <2>2. PICK b \in some : b = ranked[k]
        BY <1>11
    <2>3. Better(value, a, b)
        BY <1>7, <1>8, <2>1, <2>2
    <2>4. value[b] <= value[a]
        BY <1>5, <2>3 DEF Better
    <2> QED BY <1>12, <2>1, <2>2, <2>4
<1>17. ASSUME NEW d \in docs, Combined(r, scores[d]) # 0 PROVE \E i \in 1..n : hits[i].document = d
    <2>1. \A s \in Strategies : scores[d][s] \in Nat
        BY DEF Scores
    <2>2. \E s \in Strategies : scores[d][s] > 0
        BY <1>17, <2>1, CombinedIsNumber
    <2>3. d \in scored
        BY <1>1, <2>2 DEF Scored, Scores
    <2>4. d \in some
        BY <1>2, <1>3, <1>4, <1>17, <2>3
    <2>5. PICK i \in 1..n : ranked[i] = d
        BY <1>8, <2>4 DEF ToSet
    <2> QED BY <1>12, <2>5
<1>18. DOMAIN scores = docs
    BY DEF Scores
<1>19. Made(hits, r, scores)
    BY <1>13, <1>14, <1>15, <1>16, <1>17, <1>18 DEF Made
<1> QED BY <1>9, <1>19

(* The best k of the hits a reranker returned.                             *)
Once(hits) == \A i, j \in 1..Len(hits) : hits[i].document = hits[j].document => i = j
Falling(hits) == \A i, j \in 1..Len(hits) : i < j => hits[j].score <= hits[i].score
Chosen(hits, from, k) ==
    /\ hits \in Seq(ToSet(from)) /\ Len(hits) <= k /\ Once(hits) /\ Falling(hits)
    /\ \A h \in ToSet(from) : \/ \E i \in 1..Len(hits) : hits[i] = h
                              \/ Len(hits) = k /\ \A i \in 1..Len(hits) : h.score <= hits[i].score
    /\ k <= Len(from) => Len(hits) = k

LEMMA BestAreChosen ==
    ASSUME NEW docs, Documents(docs), NEW from \in Seq(Hits(docs)), Once(from), NEW k \in Nat
    PROVE  Chosen(Take(SortHits(from), k), from, k)
<1>1. PICK m \in Nat : m = Len(from) /\ DOMAIN from = 1..m /\ ToSet(from) = {from[i] : i \in 1..m}
    BY DEF ToSet
<1>2. PICK S : S = ToSet(from)
    OBVIOUS
<1>3. PICK s : s = SortHits(from)
    OBVIOUS
<1>4. PICK R : Lists(s, S, R) /\ \A a, b \in S : <<a, b>> \in R <=> Before(a, b)
    <2>1. \A i, j \in DOMAIN from : from[i].document = from[j].document => i = j
        BY <1>1 DEF Once
    <2> QED BY <1>2, <1>3, <2>1, HitsAreSorted
<1>5. PICK n \in Nat : /\ n = Len(s) /\ n = Cardinality(S) /\ s \in Seq(S) /\ ToSet(s) = S
                       /\ \A i, j \in 1..n : i < j => <<s[i], s[j]>> \in R
    BY <1>4 DEF Lists
<1>6. n = m
    <2>1. PICK I : I = 1..m
        OBVIOUS
    <2>2. \A i, j \in I : from[i] = from[j] => i = j
        BY <1>1, <2>1 DEF Once
    <2>3. IsFiniteSet(I) /\ Cardinality(I) = m
        <3>1. IsFiniteSet(1..m) /\ Cardinality(1..m) = m
            BY FS_Interval
        <3> QED BY <2>1, <3>1
    <2>4. Cardinality({from[i] : i \in I}) = Cardinality(I)
        BY <2>2, <2>3, CountImage
    <2> QED BY <1>1, <1>2, <1>5, <2>1, <2>3, <2>4
<1>7. PICK t : t = Take(s, k)
    OBVIOUS
<1>8. PICK l \in Nat : /\ l = Len(t) /\ t \in Seq(S) /\ l <= k /\ l <= n /\ (\A i \in 1..l : t[i] = s[i])
                       /\ (n <= k => l = n) /\ (k <= n => l = k)
    <2>1. /\ t \in Seq(S) /\ Len(t) <= k /\ Len(t) <= Len(s) /\ (\A i \in 1..Len(t) : t[i] = s[i])
          /\ (Len(s) <= k => t = s) /\ (k <= Len(s) => Len(t) = k)
        <3>1. /\ Take(s, k) \in Seq(S) /\ Len(Take(s, k)) <= k /\ Len(Take(s, k)) <= Len(s)
              /\ \A i \in 1..Len(Take(s, k)) : Take(s, k)[i] = s[i]
              /\ (Len(s) <= k => Take(s, k) = s) /\ (k <= Len(s) => Len(Take(s, k)) = k)
            BY <1>5, TakeIsPrefix
        <3> QED BY Zenon, <1>7, <3>1
    <2>2. PICK l \in Nat : l = Len(t)
        BY <2>1
    <2>3. n <= k => l = n
        BY <1>5, <2>1, <2>2
    <2>4. \A i \in 1..l : t[i] = s[i]
        BY Zenon, <2>1, <2>2
    <2>5. l <= k /\ l <= n /\ (k <= n => l = k)
        BY <1>5, <2>1, <2>2
    <2> QED BY Zenon, <2>1, <2>2, <2>3, <2>4, <2>5
<1>9. \A a \in S : a.score \in Nat
    <2> SUFFICES ASSUME NEW a \in S PROVE a.score \in Nat
        OBVIOUS
    <2>1. PICK i \in 1..m : a = from[i]
        BY <1>1, <1>2
    <2>2. from[i] \in Hits(docs)
        BY <1>1
    <2> QED BY <2>1, <2>2 DEF Hits
<1>10. s \in [1..n -> S] /\ \A h \in S : \E i \in 1..n : s[i] = h
    <2>1. DOMAIN s = 1..n /\ s \in [1..n -> S]
        <3>1. s \in Seq(S) /\ n = Len(s)
            BY Zenon, <1>5
        <3> QED BY <3>1, LenProperties
    <2> QED BY <1>5, <2>1 DEF ToSet
<1>11. \A i \in 1..n : s[i] \in S /\ s[i].score \in Nat
    BY <1>10, <1>9
<1>12. \A i, j \in 1..n : i < j => s[j].score <= s[i].score
    <2> SUFFICES ASSUME NEW i \in 1..n, NEW j \in 1..n, i < j PROVE s[j].score <= s[i].score
        OBVIOUS
    <2>1. Before(s[i], s[j])
        BY <1>4, <1>5, <1>11
    <2> QED BY <1>11, <2>1 DEF Before
<1>13. \A i, j \in 1..n : s[i].document = s[j].document => i = j
    <2> SUFFICES ASSUME NEW i \in 1..n, NEW j \in 1..n, s[i].document = s[j].document PROVE i = j
        OBVIOUS
    <2>1. PICK p \in 1..m : s[i] = from[p]
        BY <1>1, <1>2, <1>11
    <2>2. PICK q \in 1..m : s[j] = from[q]
        BY <1>1, <1>2, <1>11
    <2>3. p = q
        BY <1>1, <2>1, <2>2 DEF Once
    <2>4. s[i] = s[j]
        BY <2>1, <2>2, <2>3
    <2> QED BY <1>4, <1>5, <2>4 DEF Lists
<1>14. \A i \in 1..l : i \in 1..n
    BY <1>8
<1>15. Once(t) /\ Falling(t)
    BY <1>8, <1>12, <1>13, <1>14 DEF Once, Falling
<1>16. ASSUME NEW h \in S
       PROVE  \/ \E i \in 1..l : t[i] = h
              \/ l = k /\ \A i \in 1..l : h.score <= t[i].score
    <2>1. PICK j \in 1..n : s[j] = h
        BY <1>10
    <2>2. CASE j <= l
        <3>1. j \in 1..l
            BY <2>2
        <3> QED BY <1>8, <2>1, <3>1
    <2>3. CASE j > l
        <3>1. l = k
            BY <1>8, <2>3
        <3>2. \A i \in 1..l : i < j /\ i \in 1..n
            BY <1>14, <2>3
        <3>3. \A i \in 1..l : h.score <= t[i].score
            BY <1>8, <1>12, <2>1, <3>2
        <3> QED BY <3>1, <3>3
    <2> QED BY <1>8, <2>2, <2>3
<1>17. k <= m => l = k
    BY <1>6, <1>8
<1>18. Chosen(t, from, k)
    BY <1>1, <1>2, <1>8, <1>15, <1>16, <1>17 DEF Chosen
<1> QED BY <1>3, <1>7, <1>18

(***************************************************************************)
(* The context: the texts of the hits one after the other, up to the       *)
(* limit.                                                                  *)
(***************************************************************************)
ContextTold(hits, context) ==
    LET text == FlattenSeq(TextOf(hits))
    IN /\ FlattenSeq([i \in DOMAIN context.items |-> context.items[i].text]) = Take(text, MaxContextChars)
       /\ context.truncated <=> Len(text) > MaxContextChars

Worded(hits, texts, N, W) ==
    /\ N \in Nat /\ DOMAIN hits = 1..N /\ Len(hits) = N
    /\ texts = TextOf(hits) /\ texts \in Seq(Seq(W)) /\ Len(texts) = N
    /\ \A i \in 1..N : texts[i] = hits[i].document.text /\ texts[i] \in Seq(W) /\ Len(texts[i]) \in Nat /\ Len(texts[i]) > 0

LEMMA HitsAreWorded ==
    ASSUME NEW docs, Documents(docs), NEW hits \in Seq(Hits(docs))
    PROVE  \E W, texts, N : Worded(hits, texts, N, W)
<1>1. PICK N : N \in Nat /\ N = Len(hits) /\ DOMAIN hits = 1..N
    BY LenProperties
<1>2. PICK W : W = UNION {ToSet(d.text) : d \in docs}
    OBVIOUS
<1>3. PICK texts : texts = TextOf(hits)
    OBVIOUS
<1>4. texts = [i \in 1..N |-> hits[i].document.text]
    BY <1>1, <1>3 DEF TextOf
<1>5. ASSUME NEW i \in 1..N
      PROVE  texts[i] = hits[i].document.text /\ texts[i] \in Seq(W) /\ Len(texts[i]) \in Nat /\ Len(texts[i]) > 0
    <2>1. PICK t : t = hits[i].document.text
        OBVIOUS
    <2>2. texts[i] = t
        BY <1>4, <2>1
    <2>3. PICK d \in docs : d = hits[i].document
        <3>1. PICK H : H = Hits(docs)
            OBVIOUS
        <3>2. hits[i] \in H
            BY <1>1, <3>1, LenProperties
        <3> QED BY <3>1, <3>2 DEF Hits
    <2>4. t \in Seq(ToSet(t)) /\ t # <<>> /\ ToSet(t) \subseteq W
        BY <1>2, <2>1, <2>3 DEF Documents
    <2>5. t \in Seq(W)
        BY <2>4, SeqMonotonic
    <2>6. Len(t) \in Nat /\ Len(t) > 0
        <3>1. Len(t) \in Nat \ {0}
            BY <2>4, EmptySeq
        <3> QED BY <3>1
    <2> QED BY <2>1, <2>2, <2>5, <2>6
<1>6. texts \in Seq(Seq(W)) /\ Len(texts) = N
    <2>1. PICK T : T = Seq(W)
        OBVIOUS
    <2>2. \A i \in 1..N : texts[i] \in T
        BY <1>5, <2>1
    <2>3. texts \in [1..N -> T]
        BY <1>4, <2>2
    <2>4. texts \in Seq(T) /\ Len(texts) = N
        BY <1>1, <2>3
    <2> QED BY <2>1, <2>4
<1>7. Worded(hits, texts, N, W)
    BY <1>1, <1>3, <1>5, <1>6 DEF Worded
<1> QED BY <1>7

(* What the texts before a place take of the limit.                        *)
LEMMA UsedIsJoined ==
    ASSUME NEW hits, NEW texts, NEW N, NEW W, Worded(hits, texts, N, W), NEW joined, Joins(joined, texts, W)
    PROVE  \A i \in 0..N : Used(hits, i) = Len(joined[i])
<1>1. /\ N \in Nat /\ Len(texts) = N
      /\ \A i \in 1..N : texts[i] = hits[i].document.text /\ texts[i] \in Seq(W) /\ Len(texts[i]) \in Nat
    BY DEF Worded
<1>2. joined \in [0..N -> Seq(W)] /\ joined[0] = <<>> /\ \A d \in 1..N : joined[d] = joined[d - 1] \o texts[d]
    BY Zenon, <1>1 DEF Joins
<1>3. PICK f : f = [k \in 1..N |-> Len(texts[k])]
    OBVIOUS
<1>4. \A k \in 1..N : f[k] \in Nat /\ f[k] = Len(texts[k])
    BY <1>1, <1>3
<1>5. ASSUME NEW i \in 0..N PROVE Used(hits, i) = Total(f, 1..i)
    <2>1. PICK h : h = [k \in 1..i |-> Len(hits[k].document.text)]
        OBVIOUS
    <2>2. \A k \in 1..i : k \in 1..N
        BY <1>1
    <2>3. \A k \in 1..i : h[k] = f[k] /\ h[k] \in Nat
        BY <1>1, <1>4, <2>1, <2>2
    <2>4. DOMAIN h = 1..i
        BY <2>1
    <2>5. PICK I : I = 1..i
        OBVIOUS
    <2>6. IsFiniteSet(I)
        <3>1. IsFiniteSet(1..i)
            BY FS_Interval
        <3> QED BY <2>5, <3>1
    <2>7. Sum(h) = Total(h, I)
        BY <2>3, <2>4, <2>5, <2>6, SumIsTotal
    <2>8. Total(h, I) = Total(f, I)
        <3>1. \A k \in I : h[k] = f[k]
            BY <2>3, <2>5
        <3> QED BY <3>1, TotalAgree
    <2> QED BY <2>1, <2>5, <2>7, <2>8 DEF Used
<1> DEFINE P == {i \in Nat : i <= N => Total(f, 1..i) = Len(joined[i])}
<1>6. 0 \in P
    <2>1. 1..0 = {}
        OBVIOUS
    <2>2. Total(f, 1..0) = 0
        BY <2>1, TotalEmpty
    <2>3. Len(joined[0]) = 0
        BY <1>2
    <2> QED BY <2>2, <2>3
<1>7. ASSUME NEW i \in 1..N, i - 1 \in P PROVE i \in P
    <2>1. i \in Nat /\ i - 1 \in Nat /\ i - 1 \in 0..N
        BY <1>1
    <2>2. PICK I : I = 1..i - 1
        OBVIOUS
    <2>3. IsFiniteSet(I) /\ i \notin I /\ I \cup {i} = 1..i
        <3>1. IsFiniteSet(1..i - 1)
            BY <2>1, FS_Interval
        <3> QED BY <2>2, <3>1
    <2>4. \A k \in I : f[k] \in Nat
        <3>1. \A k \in I : k \in 1..N
            BY <1>1, <2>2
        <3> QED BY <1>4, <3>1
    <2>5. f[i] \in Nat /\ f[i] = Len(texts[i])
        BY <1>4
    <2>6. Total(f, I \cup {i}) = Total(f, I) + f[i]
        BY <2>3, <2>4, <2>5, TotalAdd
    <2>7. PICK s \in Seq(W) : s = joined[i - 1]
        BY <1>2, <2>1
    <2>8. PICK t \in Seq(W) : t = texts[i]
        BY <1>1
    <2>9. Len(s \o t) = Len(s) + Len(t)
        BY ConcatProperties
    <2>10. joined[i] = s \o t
        BY <1>2, <2>7, <2>8
    <2>11. Total(f, 1..(i - 1)) = Len(joined[i - 1])
        BY <1>7, <2>1
    <2>12. Total(f, 1..i) = Len(joined[i])
        BY <2>2, <2>3, <2>5, <2>6, <2>7, <2>8, <2>9, <2>10, <2>11
    <2> QED BY <2>1, <2>12
<1>8. \A i \in 0..N : i \in P
    <2> HIDE DEF P
    <2> QED BY <1>1, <1>6, <1>7, HoldsUpTo
<1> QED BY <1>5, <1>8

LEMMA ContextIsText ==
    ASSUME NEW docs, Documents(docs), NEW hits \in Seq(Hits(docs))
    PROVE  ContextTold(hits, BuildContext(hits))
<1>1. PICK W, texts, N : Worded(hits, texts, N, W)
    BY HitsAreWorded
<1>2. /\ N \in Nat /\ DOMAIN hits = 1..N /\ Len(hits) = N
      /\ texts = TextOf(hits) /\ texts \in Seq(Seq(W)) /\ Len(texts) = N
      /\ \A i \in 1..N : texts[i] = hits[i].document.text /\ texts[i] \in Seq(W) /\ Len(texts[i]) \in Nat /\ Len(texts[i]) > 0
    BY <1>1 DEF Worded
<1>3. PICK joined : Joins(joined, texts, W)
    BY <1>2, JoinsExist
<1>4. joined \in [0..N -> Seq(W)] /\ \A d \in 1..N : joined[d] = joined[d - 1] \o texts[d]
    BY Zenon, <1>2, <1>3 DEF Joins
<1>5. PICK L : L = [i \in 0..N |-> Len(joined[i])]
    OBVIOUS
<1>6. \A i \in 0..N : Used(hits, i) = L[i] /\ L[i] = Len(joined[i]) /\ L[i] \in Nat
    <2>1. \A i \in 0..N : Used(hits, i) = Len(joined[i])
        BY <1>1, <1>3, UsedIsJoined
    <2>2. \A i \in 0..N : joined[i] \in Seq(W)
        BY <1>4
    <2>3. \A i \in 0..N : Len(joined[i]) \in Nat
        BY <2>2, LenProperties
    <2> QED BY <1>5, <2>1, <2>3
<1>7. \A i \in 0..N : \A k \in i..N : L[i] <= L[k]
    <2> SUFFICES ASSUME NEW i \in 0..N, NEW k \in i..N PROVE L[i] <= L[k]
        OBVIOUS
    <2>1. Begins(joined[i], joined[k])
        BY <1>2, <1>3, JoinGrows
    <2>2. k \in 0..N
        BY <1>2
    <2> QED BY <1>6, <2>1, <2>2 DEF Begins
<1>8. \A i \in 1..N : L[i - 1] < L[i]
    <2> SUFFICES ASSUME NEW i \in 1..N PROVE L[i - 1] < L[i]
        OBVIOUS
    <2>1. i - 1 \in 0..N /\ i \in 0..N
        BY <1>2
    <2>2. PICK s \in Seq(W) : s = joined[i - 1]
        BY <1>4, <2>1
    <2>3. PICK t \in Seq(W) : t = texts[i]
        BY <1>2
    <2>4. Len(s \o t) = Len(s) + Len(t)
        BY ConcatProperties
    <2>5. joined[i] = s \o t
        BY <1>4, <2>2, <2>3
    <2>6. Len(t) \in Nat /\ Len(t) > 0
        BY <1>2, <2>3
    <2>7. L[i] = L[i - 1] + Len(t)
        BY <1>6, <2>1, <2>2, <2>4, <2>5
    <2> QED BY <1>6, <2>1, <2>6, <2>7
<1>9. PICK M : M = MaxContextChars /\ M \in Nat /\ M # 0
    BY RetrievalAssumption
<1>10. PICK shown \in SUBSET (1..N) : shown = {i \in DOMAIN hits : MaxContextChars - Used(hits, i - 1) > 0}
    BY <1>2
<1>11. \A i \in 1..N : i \in shown <=> L[i - 1] < M
    <2> SUFFICES ASSUME NEW i \in 1..N PROVE i \in shown <=> L[i - 1] < M
        OBVIOUS
    <2>1. i - 1 \in 0..N
        BY <1>2
    <2>2. Used(hits, i - 1) = L[i - 1] /\ L[i - 1] \in Nat
        BY <1>6, <2>1
    <2> QED BY <1>2, <1>9, <1>10, <2>2
<1>12. PICK n : n = Cardinality(shown)
    OBVIOUS
<1>13. n \in 0..N /\ shown = 1..n
    <2>1. ASSUME NEW i \in shown, NEW k \in 1..i PROVE k \in shown
        <3>0. i \in 1..N
            OBVIOUS
        <3>1. i \in 1..N /\ k \in 1..N /\ k - 1 \in 0..N /\ i - 1 \in (k - 1)..N /\ i - 1 \in 0..N
            BY <1>2, <3>0
        <3>2. L[k - 1] <= L[i - 1] /\ L[k - 1] \in Nat /\ L[i - 1] \in Nat
            BY <1>6, <1>7, <3>1
        <3>3. L[i - 1] < M
            BY <1>11, <3>1
        <3> QED BY <1>9, <1>11, <3>1, <3>2, <3>3
    <2> QED BY <1>2, <1>12, <2>1, InitialSegment
<1>14. PICK cut : cut = [i \in 1..n |-> Take(texts[i], M - Len(joined[i - 1]))]
    OBVIOUS
<1>15. \A i \in 1..n : i \in 1..N /\ i - 1 \in 0..N
    BY <1>2, <1>13
<1>16. n < N => M <= L[n]
    <2> SUFFICES ASSUME n < N PROVE M <= L[n]
        OBVIOUS
    <2>1. n + 1 \in 1..N /\ n + 1 \notin 1..n /\ (n + 1) - 1 = n /\ n \in 0..N
        BY <1>2, <1>13
    <2>2. ~(L[n] < M)
        BY <1>11, <1>13, <2>1
    <2> QED BY <1>6, <1>9, <2>1, <2>2
<1>17. CutTo(cut, texts, joined, n, M)
    <2>1. \A i \in 1..n : Len(joined[i - 1]) < M
        BY <1>6, <1>11, <1>13, <1>15
    <2>2. n < N => M <= Len(joined[n])
        BY <1>6, <1>13, <1>16
    <2> QED BY <1>2, <1>13, <1>14, <2>1, <2>2 DEF CutTo
<1>18. FlattenSeq(cut) = Take(FlattenSeq(texts), M)
    BY <1>2, <1>3, <1>9, <1>17, CutIsPrefix
<1>19. FlattenSeq(texts) = joined[N]
    BY <1>2, <1>3, FlattenJoins
<1>20. PICK context : context = BuildContext(hits)
    OBVIOUS
<1> DEFINE room(i) == MaxContextChars - Used(hits, i - 1)
           items == [i \in 1..n |-> [document |-> hits[i].document, text |-> Take(hits[i].document.text, room(i))]]
<1>21. context = [items |-> items, characters |-> Sum([i \in 1..n |-> Len(items[i].text)]),
                  truncated |-> n < Len(hits) \/ Used(hits, n) > MaxContextChars]
    BY Zenon, <1>10, <1>12, <1>20 DEF BuildContext
<1>22. context.items = items /\ (context.truncated <=> n < Len(hits) \/ Used(hits, n) > MaxContextChars)
    BY <1>21
<1>23. [i \in DOMAIN items |-> items[i].text] = cut
    <2>1. DOMAIN items = 1..n
        OBVIOUS
    <2>2. ASSUME NEW i \in 1..n PROVE items[i].text = Take(texts[i], M - Len(joined[i - 1]))
        <3>1. items[i].text = Take(hits[i].document.text, room(i))
            OBVIOUS
        <3>2. Used(hits, i - 1) = Len(joined[i - 1]) /\ texts[i] = hits[i].document.text
            BY <1>2, <1>6, <1>15
        <3> QED BY <1>9, <3>1, <3>2
    <2> HIDE DEF items
    <2> QED BY <1>14, <2>1, <2>2
<1>24. FlattenSeq([i \in DOMAIN context.items |-> context.items[i].text]) = Take(FlattenSeq(texts), MaxContextChars)
    <2> HIDE DEF items
    <2> QED BY Zenon, <1>9, <1>18, <1>22, <1>23
<1>25. context.truncated <=> Len(FlattenSeq(texts)) > MaxContextChars
    <2>1. n \in 0..N /\ N \in 0..N /\ L[n] \in Nat /\ L[N] \in Nat /\ Used(hits, n) = L[n] /\ Len(FlattenSeq(texts)) = L[N]
        BY <1>2, <1>6, <1>13, <1>19
    <2>2. n < N => L[N] > M
        <3> SUFFICES ASSUME n < N PROVE L[N] > M
            OBVIOUS
        <3>1. n + 1 \in 1..N /\ n + 1 \in 0..N /\ N \in (n + 1)..N /\ (n + 1) - 1 = n
            BY <1>2, <2>1
        <3>2. L[n] < L[n + 1]
            BY <1>8, <3>1
        <3>3. L[n + 1] <= L[N] /\ L[n + 1] \in Nat
            BY <1>6, <1>7, <3>1
        <3> QED BY <1>9, <1>16, <2>1, <3>2, <3>3
    <2>3. ~(n < N) => n = N
        BY <1>2, <2>1
    <2> QED BY <1>2, <1>9, <1>22, <2>1, <2>2, <2>3
<1> HIDE DEF items
<1> QED BY Zenon, <1>2, <1>20, <1>24, <1>25 DEF ContextTold

(* The answer to a request: the best of the documents it asks for.         *)
DocumentsOf(hits) == {hits[i].document : i \in DOMAIN hits}
Listed(hits, matching, k) ==
    /\ Len(hits) <= k /\ Cardinality(DocumentsOf(hits)) = Len(hits) /\ DocumentsOf(hits) \subseteq matching
    /\ \A i \in 1..Len(hits) - 1 : hits[i].score >= hits[i + 1].score
Best(hits, r, matching, scores) ==
    LET value(d) == Combined(r, scores[d])
    IN /\ \A i \in DOMAIN hits : hits[i].score = value(hits[i].document) /\ hits[i].score > 0
       /\ \A d \in matching \ DocumentsOf(hits) :
             \/ value(d) = 0
             \/ Len(hits) = TopK(r) /\ \A e \in DocumentsOf(hits) : value(e) >= value(d)
Serves(r, matching, g, reranker, answer) ==
    answer.error = "none" =>
        /\ Listed(answer.hits, matching, TopK(r))
        /\ reranker = "identity" => Best(answer.hits, r, matching, Score(r, matching, g))
        /\ ContextTold(answer.hits, answer.context)

LEMMA ChosenAreListed ==
    ASSUME NEW docs, Documents(docs), NEW from \in Seq(Hits(docs)), NEW k \in Nat, NEW hits, Chosen(hits, from, k)
    PROVE  Listed(hits, docs, k) /\ hits \in Seq(Hits(docs))
<1>1. PICK H : H = Hits(docs)
    OBVIOUS
<1>2. hits \in Seq(H)
    <2>1. from \in Seq(H)
        BY <1>1
    <2>2. ToSet(from) \subseteq H
        BY <2>1, LenProperties DEF ToSet
    <2> QED BY <2>2, SeqMonotonic DEF Chosen
<1>3. PICK n \in Nat : n = Len(hits) /\ DOMAIN hits = 1..n /\ n <= k
    BY <1>2, LenProperties DEF Chosen
<1>4. \A i \in 1..n : hits[i].document \in docs /\ hits[i].score \in Nat
    <2> SUFFICES ASSUME NEW i \in 1..n PROVE hits[i].document \in docs /\ hits[i].score \in Nat
        OBVIOUS
    <2>1. hits[i] \in H
        BY <1>2, <1>3, LenProperties
    <2> QED BY <1>1, <2>1 DEF Hits
<1>5. Cardinality(DocumentsOf(hits)) = n
    <2>1. PICK I : I = 1..n
        OBVIOUS
    <2>2. PICK h : h = [i \in I |-> hits[i].document]
        OBVIOUS
    <2>3. \A i, j \in I : h[i] = h[j] => i = j
        BY <1>3, <2>1, <2>2 DEF Chosen, Once
    <2>4. IsFiniteSet(I) /\ Cardinality(I) = n
        <3>1. IsFiniteSet(1..n) /\ Cardinality(1..n) = n
            BY FS_Interval
        <3> QED BY <2>1, <3>1
    <2>5. Cardinality({h[i] : i \in I}) = Cardinality(I)
        BY <2>3, <2>4, CountImage
    <2>6. {h[i] : i \in I} = DocumentsOf(hits)
        BY <1>3, <2>1, <2>2 DEF DocumentsOf
    <2> QED BY <2>4, <2>5, <2>6
<1>6. DocumentsOf(hits) \subseteq docs
    BY <1>3, <1>4 DEF DocumentsOf
<1>7. \A i \in 1..Len(hits) - 1 : hits[i].score >= hits[i + 1].score
    <2> SUFFICES ASSUME NEW i \in 1..n - 1 PROVE hits[i].score >= hits[i + 1].score
        BY <1>3
    <2>1. i \in 1..n /\ i + 1 \in 1..n /\ i < i + 1
        OBVIOUS
    <2>2. hits[i + 1].score <= hits[i].score
        BY <1>3, <2>1 DEF Chosen, Falling
    <2> QED BY <1>4, <2>1, <2>2
<1> QED BY <1>1, <1>2, <1>3, <1>5, <1>6, <1>7 DEF Listed

(* Four times as many hits are reranked as are returned, so none that is   *)
(* cut before the reranker could have been among the returned ones.        *)
LEMMA ChosenAreBest ==
    ASSUME NEW docs, Documents(docs), NEW r, ValidRequest(r), NEW scores, Scores(scores, docs),
           NEW k \in Nat, k # 0, k = TopK(r),
           NEW hits, Chosen(hits, Take(MakeHits(r, scores), k * 4), k)
    PROVE  Best(hits, r, docs, scores)
<1>1. PICK H : H = [document : Scored(scores), score : Nat]
    OBVIOUS
<1>2. PICK made : made = MakeHits(r, scores) /\ Made(made, r, scores) /\ made \in Seq(H)
    BY <1>1, HitsAreMade DEF Made
<1>3. PICK m \in Nat : m = Len(made) /\ DOMAIN made = 1..m
    BY <1>2, LenProperties
<1>4. /\ \A i \in 1..m : HitOf(made[i], r, scores)
      /\ \A i, j \in 1..m : i < j => made[j].score <= made[i].score
      /\ \A d \in docs : Combined(r, scores[d]) = 0 \/ \E i \in 1..m : made[i].document = d
    BY <1>2, <1>3 DEF Made, Scores
<1>5. PICK from : from = Take(made, k * 4)
    OBVIOUS
<1>6. PICK l \in Nat : /\ l = Len(from) /\ from \in Seq(H) /\ l <= m /\ \A i \in 1..l : from[i] = made[i]
                       /\ m <= k * 4 => l = m
                       /\ k * 4 <= m => l = k * 4
    <2>1. PICK q \in Nat : q = k * 4
        OBVIOUS
    <2>2. /\ Take(made, q) \in Seq(H) /\ Len(Take(made, q)) <= Len(made)
          /\ \A i \in 1..Len(Take(made, q)) : Take(made, q)[i] = made[i]
          /\ Len(made) <= q => Take(made, q) = made
          /\ q <= Len(made) => Len(Take(made, q)) = q
        <3>1. made \in Seq(H)
            BY <1>2
        <3> QED BY <3>1, TakeIsPrefix
    <2>3. from = Take(made, q)
        BY Zenon, <1>5, <2>1
    <2>4. /\ from \in Seq(H) /\ Len(from) <= Len(made) /\ \A i \in 1..Len(from) : from[i] = made[i]
          /\ Len(made) <= q => from = made
          /\ q <= Len(made) => Len(from) = q
        BY Zenon, <2>2, <2>3
    <2>5. PICK l \in Nat : l = Len(from)
        BY <2>4, LenProperties
    <2>6. \A i \in 1..l : from[i] = made[i]
        BY Zenon, <2>4, <2>5
    <2>7. l <= m /\ (m <= q => l = m) /\ (q <= m => l = q)
        BY <1>3, <2>4, <2>5
    <2> QED BY <2>1, <2>4, <2>5, <2>6, <2>7
<1>7. Chosen(hits, from, k)
    BY Zenon, <1>2, <1>5
<1>8. ToSet(from) = {made[i] : i \in 1..l}
    <2>1. DOMAIN from = 1..l
        BY <1>6, LenProperties
    <2> QED BY <1>6, <2>1 DEF ToSet
<1>9. \A i \in 1..l : i \in 1..m
    BY <1>3, <1>6
<1>10. PICK n \in Nat : n = Len(hits) /\ DOMAIN hits = 1..n /\ \A i \in 1..n : hits[i] \in ToSet(from)
    <2>1. PICK F : F = ToSet(from)
        OBVIOUS
    <2>2. hits \in Seq(F)
        BY <1>7, <2>1 DEF Chosen
    <2> QED BY <2>1, <2>2, LenProperties
<1>11. \A i \in 1..n : HitOf(hits[i], r, scores)
    BY <1>4, <1>8, <1>9, <1>10
<1>12. \A i \in DOMAIN hits : hits[i].score = Combined(r, scores[hits[i].document]) /\ hits[i].score > 0
    BY <1>10, <1>11 DEF HitOf
<1>13. ASSUME NEW d \in docs \ DocumentsOf(hits), Combined(r, scores[d]) # 0
       PROVE  Len(hits) = k /\ \A e \in DocumentsOf(hits) : Combined(r, scores[e]) >= Combined(r, scores[d])
    <2>1. PICK j \in 1..m : made[j].document = d
        BY <1>4, <1>13
    <2>2. PICK v \in Nat : v = made[j].score /\ v = Combined(r, scores[d])
        BY <1>4, <2>1 DEF HitOf
    <2>3. n = k /\ \A i \in 1..n : v <= hits[i].score
        <3>1. CASE j <= l
            <4>1. made[j] \in ToSet(from)
                BY <1>8, <3>1
            <4>2. ~\E i \in 1..n : hits[i] = made[j]
                BY <1>10, <1>13, <2>1 DEF DocumentsOf
            <4> QED BY <1>7, <1>10, <2>2, <4>1, <4>2 DEF Chosen
        <3>2. CASE j > l
            <4>1. l = k * 4 /\ k <= l
                BY <1>6, <3>2
            <4>2. n = k
                BY <1>6, <1>7, <1>10, <4>1 DEF Chosen
            <4>3. ASSUME NEW i \in 1..n PROVE v <= hits[i].score
                <5>1. PICK p \in 1..l : hits[i] = made[p]
                    BY <1>8, <1>10
                <5>2. p \in 1..m /\ p < j
                    BY <1>9, <3>2
                <5>3. made[j].score <= made[p].score
                    BY <1>4, <5>2
                <5> QED BY <2>2, <5>1, <5>3
            <4> QED BY <4>2, <4>3
        <3> QED BY <2>1, <3>1, <3>2
    <2>4. ASSUME NEW e \in DocumentsOf(hits) PROVE Combined(r, scores[e]) >= Combined(r, scores[d])
        <3>1. PICK i \in 1..n : hits[i].document = e
            BY <1>10 DEF DocumentsOf
        <3>2. PICK w \in Nat : w = hits[i].score /\ w = Combined(r, scores[e])
            BY <1>11, <3>1 DEF HitOf
        <3>3. v <= w
            BY <2>3, <3>2
        <3> QED BY <2>2, <3>2, <3>3
    <2> QED BY <1>10, <2>3, <2>4
<1> QED BY <1>12, <1>13 DEF Best

LEMMA RetrievalServes ==
    ASSUME NEW docs, Documents(docs), NEW r, Servable(r, docs), NEW g, NEW reranker
    PROVE  Serves(r, FilterDocuments(docs, r), g, reranker, Retrieve(r, docs, g, reranker))
<1>1. PICK matching \in SUBSET docs : matching = FilterDocuments(docs, r)
    BY DEF FilterDocuments
<1>2. Documents(matching) /\ IsFiniteSet(matching)
    BY SomeDocuments DEF Documents
<1>3. Servable(r, matching) /\ ValidRequest(r)
    BY DEF Servable
<1>4. PICK scores : scores = Score(r, matching, g) /\ Scores(scores, matching)
    BY <1>2, <1>3, ScoresAreNumbers
<1>5. PICK k \in Nat : k = TopK(r) /\ k # 0
    BY <1>3, RetrievalAssumption DEF ValidRequest, TopK
<1>6. PICK answer : answer = Retrieve(r, docs, g, reranker)
    OBVIOUS
<1>7. \A error, hits : /\ Bundle(error, hits).error = error /\ Bundle(error, hits).hits = hits
                       /\ Bundle(error, hits).context = BuildContext(hits)
    BY DEF Bundle
<1>8. CASE matching = {}
    <2>1. answer = Bundle("none", <<>>)
        BY <1>1, <1>6, <1>8 DEF Retrieve
    <2>2. answer.hits = <<>> /\ answer.context = BuildContext(<<>>)
        BY <1>7, <2>1
    <2>3. ContextTold(<<>>, BuildContext(<<>>))
        <3>1. PICK H : H = Hits(docs)
            OBVIOUS
        <3>2. <<>> \in Seq(H)
            OBVIOUS
        <3> QED BY <3>1, <3>2, ContextIsText
    <2>4. DOMAIN <<>> = {} /\ Len(<<>>) = 0
        OBVIOUS
    <2>5. DocumentsOf(<<>>) = {} /\ Cardinality(DocumentsOf(<<>>)) = 0
        BY <2>4, FS_EmptySet DEF DocumentsOf
    <2>6. Listed(<<>>, matching, k)
        BY <2>4, <2>5 DEF Listed
    <2>7. Best(<<>>, r, matching, scores)
        BY <1>8, <2>4 DEF Best
    <2> QED BY <1>1, <1>4, <1>5, <1>6, <2>2, <2>3, <2>6, <2>7 DEF Serves
<1>9. CASE matching # {}
    <2>1. PICK from : from = Take(MakeHits(r, scores), k * 4)
        OBVIOUS
    <2>2. PICK reranked : reranked = Reranked(reranker, from)
        OBVIOUS
    <2>3. answer = Cut(r, scores, reranked)
        BY <1>1, <1>4, <1>5, <1>6, <1>9, <2>1, <2>2 DEF Retrieve, Rank
    <2>4. CASE RerankAccepted(reranked, scores)
        <3>1. PICK hits : hits = Take(SortHits(reranked), k)
            OBVIOUS
        <3>2. answer = Bundle("none", hits)
            BY <1>5, <2>3, <2>4, <3>1 DEF Cut
        <3>3. answer.hits = hits /\ answer.context = BuildContext(hits)
            BY <1>7, <3>2
        <3>4. reranked \in Seq(Hits(matching)) /\ Once(reranked)
            <4>1. PICK H : H = [document : Scored(scores), score : Nat]
                OBVIOUS
            <4>2. H \subseteq Hits(matching)
                BY <1>4, <4>1 DEF Hits, Scores, Scored
            <4>3. reranked \in Seq(H)
                BY <2>4, <4>1 DEF RerankAccepted
            <4>4. reranked \in Seq(Hits(matching))
                BY <4>2, <4>3, SeqMonotonic
            <4>5. DOMAIN reranked = 1..Len(reranked)
                BY <4>3, LenProperties
            <4> QED BY <2>4, <4>4, <4>5 DEF RerankAccepted, Once
        <3>5. Chosen(hits, reranked, k)
            BY <1>2, <3>1, <3>4, BestAreChosen
        <3>6. Listed(hits, matching, k) /\ hits \in Seq(Hits(matching))
            BY <1>2, <3>4, <3>5, ChosenAreListed
        <3>7. ContextTold(hits, BuildContext(hits))
            BY <1>2, <3>6, ContextIsText
        <3>8. ASSUME reranker = "identity" PROVE Best(hits, r, matching, scores)
            <4>1. reranked = Take(MakeHits(r, scores), k * 4)
                BY <2>1, <2>2, <3>8 DEF Reranked
            <4>2. Chosen(hits, Take(MakeHits(r, scores), k * 4), k)
                BY Zenon, <3>5, <4>1
            <4> QED BY <1>2, <1>3, <1>4, <1>5, <4>2, ChosenAreBest
        <3> QED BY <1>1, <1>4, <1>5, <1>6, <3>3, <3>6, <3>7, <3>8 DEF Serves
    <2>5. CASE ~RerankAccepted(reranked, scores)
        <3>1. answer = Bundle("rerank", <<>>)
            BY <2>3, <2>5 DEF Cut
        <3>2. answer.error # "none"
            BY <1>7, <3>1
        <3> QED BY <1>1, <1>6, <3>2 DEF Serves
    <2> QED BY <2>4, <2>5
<1> QED BY <1>8, <1>9

(***************************************************************************)
(* What a search that was let in rests on: a revision that is there for    *)
(* good, and, once it is done, a graph its snapshot had then: none, or the *)
(* one that is never replaced.                                             *)
(***************************************************************************)
HasRevision(x) == \E r \in revisions : r.id = x.revision /\ r.snapshot = x.snapshot
SearchOf(x) ==
    /\ DOMAIN x = {"pc", "request", "snapshot", "revision", "rerank", "answer"}
    /\ x.pc # "documents not found"
    /\ x.pc \in {"load", "done"} =>
          x.request \in Requests /\ ValidRequest(x.request) /\ x.snapshot \in Snapshots /\ HasRevision(x)
    /\ x.pc = "done" =>
          \E g \in {NoGraph, GraphAt(x.snapshot)} :
             x.answer = Retrieve(x.request, Stored(x.revision).documents, g, x.rerank)
SearchInv == DOMAIN searcher = Searches /\ \A q \in Searches : SearchOf(searcher[q])

(* Neither a new revision nor a new graph changes what a search rests on.  *)
LEMMA SearchStands ==
    ASSUME NEW x, SearchOf(x), IndexInv, IndexInv', revisions \subseteq revisions', GraphsStand
    PROVE  SearchOf(x)'
<1>1. HasRevision(x) => HasRevision(x)' /\ Stored(x.revision)' = Stored(x.revision)
    <2> SUFFICES ASSUME NEW r \in revisions, r.id = x.revision, r.snapshot = x.snapshot
                 PROVE  HasRevision(x)' /\ Stored(x.revision)' = Stored(x.revision)
        BY DEF HasRevision
    <2>1. r \in revisions'
        OBVIOUS
    <2>2. Stored(x.revision) = r
        BY DEF IndexInv, Stored
    <2>3. Stored(x.revision)' = r
        BY <2>1 DEF IndexInv, Stored
    <2> QED BY <2>1, <2>2, <2>3 DEF HasRevision
<1>2. ASSUME NEW s \in Snapshots, NEW g \in {NoGraph, GraphAt(s)} PROVE g \in {NoGraph, GraphAt(s)'}
    BY <1>2 DEF GraphAt, GraphsStand
<1>3. x.pc \in {"load", "done"} =>
          x.request \in Requests /\ ValidRequest(x.request) /\ x.snapshot \in Snapshots /\ HasRevision(x) /\ HasRevision(x)'
    BY <1>1 DEF SearchOf
<1>4. ASSUME x.pc = "done"
      PROVE  \E g \in {NoGraph, GraphAt(x.snapshot)'} :
                x.answer = Retrieve(x.request, Stored(x.revision)'.documents, g, x.rerank)
    <2>1. PICK g \in {NoGraph, GraphAt(x.snapshot)} :
             x.answer = Retrieve(x.request, Stored(x.revision).documents, g, x.rerank)
        BY <1>4 DEF SearchOf
    <2>2. g \in {NoGraph, GraphAt(x.snapshot)'}
        BY <1>2, <1>3, <1>4
    <2>3. Stored(x.revision)' = Stored(x.revision)
        BY <1>1, <1>3, <1>4
    <2> QED BY <2>1, <2>2, <2>3
<1> QED BY <1>3, <1>4 DEF SearchOf

LEMMA SearchStep ==
    ASSUME PublicationInv, PublicationInv', SearchInv, [Next]_vars
    PROVE  SearchInv'
<1>1. IndexInv /\ IndexInv' /\ GraphsStand
    BY PublicationStep DEF PublicationInv
<1>2. revisions \subseteq revisions'
    <2>1. CASE IndexStep
        BY <1>1, <2>1, IndexKept
    <2>2. CASE GraphStep \/ WikiStep \/ ToolStep \/ AssistantStep \/ UNCHANGED vars
        BY <2>2 DEF GraphStep, WikiStep, ToolStep, AssistantStep, vars, indexVars
    <2> QED BY <2>1, <2>2 DEF Next
<1>3. ASSUME NEW q \in Searches, searcher'[q] = searcher[q] PROVE SearchOf(searcher[q])'
    <2>1. PICK x : x = searcher[q]
        OBVIOUS
    <2>2. SearchOf(x)
        BY <2>1 DEF SearchInv
    <2>3. SearchOf(x)'
        BY <1>1, <1>2, <2>2, SearchStands
    <2>4. x = searcher'[q]
        BY <1>3, <2>1
    <2> QED BY <2>3, <2>4 DEF SearchOf, HasRevision
<1>4. UNCHANGED searcher => SearchInv'
    BY <1>3 DEF SearchInv
<1>5. ASSUME NEW q \in Searches, NEW y, searcher' = [searcher EXCEPT ![q] = y], SearchOf(y)'
      PROVE  SearchInv'
    <2>1. DOMAIN searcher' = Searches /\ searcher'[q] = y
        BY <1>5 DEF SearchInv
    <2>2. ASSUME NEW p \in Searches PROVE SearchOf(searcher[p])'
        <3>1. CASE p = q
            BY <1>5, <2>1, <3>1 DEF SearchOf, HasRevision
        <3>2. CASE p # q
            <4>1. searcher'[p] = searcher[p]
                BY <1>5, <3>2 DEF SearchInv
            <4> QED BY <1>3, <4>1
        <3> QED BY <3>1, <3>2
    <2> QED BY <2>1, <2>2 DEF SearchInv
<1>6. ASSUME NEW q \in Searches, NEW s \in Snapshots, NEW r \in Requests, StartSearch(q, s, r), UNCHANGED graphVars
      PROVE  SearchInv'
    <2>1. PICK pc : pc = IF ~ValidRequest(r) THEN "invalid" ELSE IF current[s] = None THEN "not found" ELSE "load"
        OBVIOUS
    <2>2. PICK y : y = [NoSearch EXCEPT !.request = r, !.snapshot = s, !.revision = current[s], !.pc = pc]
        OBVIOUS
    <2>3. searcher' = [searcher EXCEPT ![q] = y] /\ UNCHANGED <<revisions, current>>
        BY Zenon, <1>6, <2>1, <2>2 DEF StartSearch
    <2>4. pc = "load" => ValidRequest(r) /\ \E o \in revisions : o.id = current[s] /\ o.snapshot = s
        BY <1>1, <2>1 DEF IndexInv
    <2>5. pc \in {"invalid", "not found", "load"}
        BY <2>1
    <2>6. y.pc = pc /\ y.request = r /\ y.snapshot = s /\ y.revision = current[s]
          /\ DOMAIN y = {"pc", "request", "snapshot", "revision", "rerank", "answer"}
        <3>1. DOMAIN NoSearch = {"pc", "request", "snapshot", "revision", "rerank", "answer"}
            BY DEF NoSearch
        <3> QED BY <2>2, <3>1
    <2>7. SearchOf(y)'
        BY <2>3, <2>4, <2>5, <2>6 DEF SearchOf, HasRevision
    <2> QED BY <1>5, <2>3, <2>7
<1>7. ASSUME NEW q \in Searches, NEW reranker \in Rerankers, Search(q, reranker), UNCHANGED graphVars
      PROVE  SearchInv'
    <2>1. PICK x : x = searcher[q]
        OBVIOUS
    <2>2. SearchOf(x) /\ x.pc = "load"
        BY <1>7, <2>1 DEF SearchInv, Search
    <2>3. Holding(x.snapshot, x.revision) # {}
        BY <2>2 DEF SearchOf, HasRevision, Holding
    <2>4. PICK answer : answer = Retrieve(x.request, Stored(x.revision).documents, GraphAt(x.snapshot), reranker)
        OBVIOUS
    <2>5. PICK y : y = [x EXCEPT !.pc = "done", !.rerank = reranker, !.answer = answer]
        OBVIOUS
    <2>6. searcher' = [searcher EXCEPT ![q] = y] /\ UNCHANGED <<revisions, current>>
        <3>1. DOMAIN searcher = Searches /\ DOMAIN x = {"pc", "request", "snapshot", "revision", "rerank", "answer"}
            BY <2>2 DEF SearchInv, SearchOf
        <3>2. /\ searcher' = [searcher EXCEPT ![q].pc = "done", ![q].rerank = reranker, ![q].answer = answer]
              /\ UNCHANGED <<revisions, current>>
            BY <1>7, <2>1, <2>3, <2>4 DEF Search
        <3> QED BY <2>1, <2>5, <3>1, <3>2
    <2>7. /\ y.pc = "done" /\ y.request = x.request /\ y.snapshot = x.snapshot /\ y.revision = x.revision
          /\ y.rerank = reranker /\ y.answer = answer
          /\ DOMAIN y = {"pc", "request", "snapshot", "revision", "rerank", "answer"}
        BY <2>2, <2>5 DEF SearchOf
    <2>8. UNCHANGED graphs
        BY <1>7 DEF graphVars
    <2>9. Stored(x.revision)' = Stored(x.revision) /\ GraphAt(x.snapshot)' = GraphAt(x.snapshot)
        BY <2>6, <2>8 DEF Stored, GraphAt
    <2>10. HasRevision(x)'
        BY <2>2, <2>6 DEF SearchOf, HasRevision
    <2>11. \E g \in {NoGraph, GraphAt(y.snapshot)'} :
              y.answer = Retrieve(y.request, Stored(y.revision)'.documents, g, y.rerank)
        BY <2>4, <2>7, <2>9
    <2>12. y.request \in Requests /\ ValidRequest(y.request) /\ y.snapshot \in Snapshots /\ HasRevision(y)'
        BY <2>2, <2>7, <2>10 DEF SearchOf, HasRevision
    <2>13. SearchOf(y)'
        BY <2>7, <2>11, <2>12 DEF SearchOf
    <2> QED BY <1>5, <2>6, <2>13
<1>8. CASE IndexStep
    <2>1. ASSUME NEW c \in IndexCalls,
                 \/ \E s \in Snapshots, input \in Inputs : StartIndex(c, s, input)
                 \/ SaveIndex(c) \/ SaveFails(c) \/ AnnounceIndex(c)
          PROVE  UNCHANGED searcher
        BY <2>1 DEF StartIndex, SaveIndex, SaveFails, AnnounceIndex
    <2> QED BY <1>4, <1>6, <1>7, <1>8, <2>1 DEF IndexStep, IndexNext
<1>9. CASE GraphStep \/ WikiStep \/ ToolStep \/ AssistantStep \/ UNCHANGED vars
    BY <1>4, <1>9 DEF GraphStep, WikiStep, ToolStep, AssistantStep, vars, indexVars
<1> QED BY <1>8, <1>9 DEF Next

(* A search never loses the revision it found, though it is replaced       *)
(* between the two calls of the repository, and answers with the best of   *)
(* its documents: no more than were asked for, in the order of their       *)
(* scores, none left out that scores higher, and with a context that is    *)
(* their text up to the limit and says when something is missing.          *)
THEOREM SearchesAnswerTheRequest == Spec => []SearchAnswersTheRequest
<1>1. Init => SearchInv
    <2> SUFFICES ASSUME Init PROVE SearchInv
        OBVIOUS
    <2>1. DOMAIN searcher = Searches /\ \A q \in Searches : searcher[q] = NoSearch
        BY DEF Init, IndexInit
    <2>2. NoSearch.pc = "idle" /\ DOMAIN NoSearch = {"pc", "request", "snapshot", "revision", "rerank", "answer"}
        BY DEF NoSearch
    <2>3. \A q \in Searches : SearchOf(searcher[q])
        BY <2>1, <2>2 DEF SearchOf
    <2> QED BY <2>1, <2>3 DEF SearchInv
<1>2. PublicationInv /\ PublicationInv' /\ SearchInv /\ [Next]_vars => SearchInv'
    BY SearchStep
<1>3. ASSUME IndexInv, SourcesInv, NEW x, SearchOf(x), x.pc = "done"
      PROVE  \E g \in {NoGraph, GraphAt(x.snapshot)} :
                Serves(x.request, FilterDocuments(Stored(x.revision).documents, x.request), g, x.rerank, x.answer)
    <2>1. PICK stored \in revisions : stored = Stored(x.revision)
        BY <1>3 DEF SearchOf, HasRevision, IndexInv, Stored
    <2>2. PICK docs : docs = stored.documents
        OBVIOUS
    <2>3. PICK g \in {NoGraph, GraphAt(x.snapshot)} : x.answer = Retrieve(x.request, docs, g, x.rerank)
        BY <1>3, <2>1, <2>2 DEF SearchOf
    <2>4. PICK input \in Inputs : Indexable(input) /\ docs = BuildDocuments(input)
        BY <1>3, <2>1, <2>2 DEF SourcesInv, Documented
    <2>5. Documents(docs)
        BY <2>4, BuiltDocuments
    <2>6. Servable(x.request, docs)
        <3>1. x.request \in Requests /\ ValidRequest(x.request)
            BY <1>3 DEF SearchOf
        <3> QED BY <2>4, <3>1, RequestsAssumption DEF Servable
    <2>7. Serves(x.request, FilterDocuments(docs, x.request), g, x.rerank, x.answer)
        BY Zenon, <2>3, <2>5, <2>6, RetrievalServes
    <2> QED BY Zenon, <2>1, <2>2, <2>3, <2>7
<1>4. PublicationInv /\ AnswersInv /\ SearchInv => SearchAnswersTheRequest
    <2> SUFFICES ASSUME IndexInv, SourcesInv, SearchInv PROVE SearchAnswersTheRequest
        BY DEF PublicationInv, AnswersInv
    <2>1. ASSUME NEW q \in Searches PROVE SearchOf(searcher[q])
        BY DEF SearchInv
    <2>2. ASSUME NEW q \in Searches PROVE searcher[q].pc # "documents not found"
        BY <2>1 DEF SearchOf
    <2> DEFINE matching(x) == FilterDocuments(Stored(x.revision).documents, x.request)
    <2>3. ASSUME NEW q \in Searches, searcher[q].pc = "done", searcher[q].answer.error = "none"
          PROVE  /\ Listed(searcher[q].answer.hits, matching(searcher[q]), TopK(searcher[q].request))
                 /\ ContextTold(searcher[q].answer.hits, searcher[q].answer.context)
                 /\ searcher[q].rerank = "identity" =>
                       \E g \in {NoGraph, GraphAt(searcher[q].snapshot)} :
                          Best(searcher[q].answer.hits, searcher[q].request, matching(searcher[q]),
                               Score(searcher[q].request, matching(searcher[q]), g))
        <3>1. PICK x : x = searcher[q]
            OBVIOUS
        <3>2. SearchOf(x) /\ x.pc = "done" /\ x.answer.error = "none"
            BY <2>1, <2>3, <3>1
        <3>3. PICK g \in {NoGraph, GraphAt(x.snapshot)} : Serves(x.request, matching(x), g, x.rerank, x.answer)
            BY Zenon, <1>3, <3>2
        <3> QED BY Zenon, <3>1, <3>2, <3>3 DEF Serves
    <2> QED BY Zenon, <2>2, <2>3 DEF SearchAnswersTheRequest, Listed, Best, ContextTold, DocumentsOf
<1>5. Spec => []SearchInv
    BY <1>1, <1>2, PublicationInductive, PTL DEF Spec
<1> QED BY <1>4, <1>5, AnswersInductive, PublicationInductive, PTL
=============================================================================
