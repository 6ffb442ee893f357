--------------------------- MODULE WikiPublication ---------------------------
(***************************************************************************)
(* The wiki service: a generation reads the graph revision it was asked    *)
(* for and evidence from the index, lets a generator write the pages, and  *)
(* publishes all of them at once, numbered after the latest revision of    *)
(* each page. The store refuses what has become stale in the meantime.     *)
(*                                                                         *)
(*   command  [key, snapshot, graphRevision, slugs : Seq(slug), locale]    *)
(*   draft    slug -> [content, commits], commits of its citations         *)
(***************************************************************************)
EXTENDS RagIndex

CONSTANTS
    WikiCalls,
    Commands,
    Overview,            \* the slug of the page the others hang under
    EvidenceRequest,     \* the retrieval request of a page
    Drafts,              \* what the generator may write
    MaxGraphNodes

VARIABLES
    pages,       \* WikiRepository.pages: stored page revisions
    latestPage,  \* WikiRepository.latest: <<locale, slug>> -> its latest revision number, 0: none
    pinned,      \* WikiRepository.bySnapshot: <<snapshot, slug>> -> <<locale, slug, number>>, or None
    wikiJobs,    \* WikiRepository.jobs and idempotency: key -> job, or None
    generator    \* call of Generate -> its local variables

wikiVars == <<pages, latestPage, pinned, wikiJobs, generator>>

Slugs == (UNION {ToSet(c.slugs) : c \in Commands}) \cup {Overview}
Locales == {c.locale : c \in Commands}
NoGeneration == [pc |-> "idle", command |-> None, left |-> <<>>, parent |-> FALSE, draft |-> None,
                 pages |-> {}, job |-> None]
WikiInit ==
    /\ pages = {}
    /\ latestPage = [p \in Locales \X Slugs |-> 0]
    /\ pinned = [p \in Snapshots \X Slugs |-> None]
    /\ wikiJobs = [k \in Keys |-> None]
    /\ generator = [c \in WikiCalls |-> NoGeneration]

JobFor(key) == wikiJobs[key]
Latest(locale, slug) == latestPage[<<locale, slug>>]
Leave(c, pc) == generator' = [generator EXCEPT ![c].pc = pc]
Job(c, w) == [id |-> c, snapshot |-> w.snapshot, graphRevision |-> w.graphRevision, slugs |-> ToSet(w.slugs)]
SameKnowledge(job, w) == job.snapshot = w.snapshot /\ job.graphRevision = w.graphRevision

ASSUME WikiAssumption ==
    /\ \A w \in Commands : w.snapshot \in Snapshots /\ w.key \in Keys /\ w.slugs \in Seq(ToSet(w.slugs))
    /\ None \notin Locales \X Slugs \X Nat
    /\ None \notin {Job(c, w) : c \in WikiCalls, w \in Commands}

(* A key that has a job answers with it, when it was made of the same      *)
(* knowledge, and publishes its event again.                               *)
StartGeneration(c, w) ==
    LET was == JobFor(w.key)
        enter(pc, job) == generator' = [generator EXCEPT ![c] =
                             [NoGeneration EXCEPT !.pc = pc, !.command = w, !.left = w.slugs, !.job = job]]
    IN /\ generator[c].pc = "idle"
       /\ IF was = None THEN enter("read", Job(c, w))
          ELSE IF SameKnowledge(was, w) THEN enter("announce", was)
          ELSE enter("conflict", None)
       /\ UNCHANGED <<pages, latestPage, pinned, wikiJobs, announced>>

(* The whole graph of the snapshot, the evidence of every page, the        *)
(* generator: any of them may refuse.                                      *)
Evidence(s) == Retrieve(EvidenceRequest, Stored(current[s]).documents, GraphAt(s), "identity")
GraphMissing(w) == RevisionAt(w.snapshot) = None

GraphNotReady(w) == RevisionAt(w.snapshot) = None \/ RevisionAt(w.snapshot) # w.graphRevision

Refusal(w, nodes) ==
    CASE GraphNotReady(w) -> "graph not ready"
      [] nodes = {} \/ Cardinality(nodes) > MaxGraphNodes -> "insufficient"
      [] current[w.snapshot] = None \/ Evidence(w.snapshot).error # "none" -> "failed"
      [] OTHER -> "none"

StartPages(c, w, refusal, draft) ==
    IF refusal # "none" THEN Leave(c, refusal)
    ELSE generator' = [generator EXCEPT ![c].pc = "pages", ![c].draft = draft,
             ![c].parent = Overview \in ToSet(w.slugs) \/ Latest(w.locale, Overview) > 0]
ReadKnowledge(c, draft) ==
    LET w == generator[c].command
    IN /\ generator[c].pc = "read"
       /\ StartPages(c, w, Refusal(w, GraphAt(w.snapshot).nodes), draft)
       /\ UNCHANGED <<pages, latestPage, pinned, wikiJobs, announced>>

(* buildPages, one page per step: each reads the latest revision of its    *)
(* page. A page cites something, and only commits of the graph.            *)
CommitsOf(s) == IF GraphAt(s).nodes = {} THEN {} ELSE {Parsed[s].commit}
PageRefused(c, slug) ==
    LET commits == generator[c].draft[slug].commits
    IN commits = {} \/ ~(commits \subseteq CommitsOf(generator[c].command.snapshot))

BuildPage(c) ==
    LET w == generator[c].command
        slug == Head(generator[c].left)
        page == [locale |-> w.locale, slug |-> slug, number |-> Latest(w.locale, slug) + 1,
                 snapshot |-> w.snapshot, graphRevision |-> w.graphRevision,
                 content |-> generator[c].draft[slug], parent |-> generator[c].parent /\ slug # Overview]
    IN /\ generator[c].pc = "pages" /\ generator[c].left # <<>>
       /\ IF PageRefused(c, slug) THEN Leave(c, "failed")
          ELSE generator' = [generator EXCEPT ![c].pages = @ \cup {page}, ![c].left = Tail(@),
                   ![c].pc = IF Len(generator[c].left) = 1 THEN "save" ELSE "pages"]
       /\ UNCHANGED <<pages, latestPage, pinned, wikiJobs, announced>>

(* SavePublication. A key that has got a job of the same knowledge since   *)
(* the generation looked is no error: nothing is stored, and the caller    *)
(* goes on as if it were.                                                  *)
PageId(p) == <<p.locale, p.slug, p.number>>
StoredPage(id) == CHOOSE p \in pages : PageId(p) = id
DiffersInContent(p) ==
    LET id == pinned[<<p.snapshot, p.slug>>] IN id # None /\ StoredPage(id).content # p.content
Differs(p) ==
    LET id == pinned[<<p.snapshot, p.slug>>]
    IN id # None /\ (StoredPage(id).content # p.content \/ StoredPage(id).locale # p.locale)

StaleWhenOlder(p) == Latest(p.locale, p.slug) > p.number

Stale(p) == Latest(p.locale, p.slug) >= p.number

SavePublication(c) ==
    LET w == generator[c].command
        new == generator[c].pages
        was == JobFor(w.key)
        pageOf(slug) == CHOOSE p \in new : p.slug = slug
    IN /\ generator[c].pc = "save"
       /\ \/ /\ was # None
             /\ Leave(c, IF SameKnowledge(was, w) THEN "announce" ELSE "conflict")
             /\ UNCHANGED <<pages, latestPage, pinned, wikiJobs>>
          \/ /\ was = None /\ \E p \in new : Differs(p) \/ Stale(p)
             /\ Leave(c, "conflict")
             /\ UNCHANGED <<pages, latestPage, pinned, wikiJobs>>
          \/ /\ was = None /\ ~\E p \in new : Differs(p) \/ Stale(p)
             /\ pages' = pages \cup new
             /\ latestPage' = [k \in DOMAIN latestPage |->
                    IF k[1] = w.locale /\ k[2] \in ToSet(w.slugs) THEN pageOf(k[2]).number ELSE latestPage[k]]
             /\ pinned' = [k \in DOMAIN pinned |->
                    IF k[1] = w.snapshot /\ k[2] \in ToSet(w.slugs) THEN PageId(pageOf(k[2])) ELSE pinned[k]]
             /\ wikiJobs' = [wikiJobs EXCEPT ![w.key] = generator[c].job]
             /\ Leave(c, "announce")
       /\ UNCHANGED announced

WikiEvent(job) == [type |-> "wiki", id |-> job.id, snapshot |-> job.snapshot, content |-> job.graphRevision]
AnnounceWiki(c) ==
    /\ generator[c].pc = "announce"
    /\ \/ announced' = announced \cup {WikiEvent(generator[c].job)} /\ Leave(c, "done")
       \/ Leave(c, "failed") /\ UNCHANGED announced
    /\ UNCHANGED <<pages, latestPage, pinned, wikiJobs>>

(* The context of the caller ends.                                         *)
CancelGeneration(c) ==
    /\ generator[c].pc \in {"read", "pages", "save"}
    /\ Leave(c, "failed")
    /\ UNCHANGED <<pages, latestPage, pinned, wikiJobs, announced>>

WikiNext ==
    \E c \in WikiCalls :
        \/ \E w \in Commands : StartGeneration(c, w)
        \/ \E draft \in Drafts : ReadKnowledge(c, draft)
        \/ BuildPage(c) \/ SavePublication(c) \/ AnnounceWiki(c) \/ CancelGeneration(c)
=============================================================================
