------------------------------- MODULE RagIndex -------------------------------
(***************************************************************************)
(* Index revisions and the searches that read them while they are          *)
(* replaced. A revision is immutable; the last one saved for a snapshot is *)
(* the one new searches take. A call of Index saves at most one revision,  *)
(* whose id is the call's.                                                 *)
(*                                                                         *)
(*   input  Seq([artifact, commit, hash, sourceHash, language, kind, path, *)
(*               terms, text])                                             *)
(***************************************************************************)
EXTENDS RagRetrieval, LegacyGraph

CONSTANTS
    IndexCalls, Searches,
    Inputs, Requests,
    MaxDocuments,
    Rerankers    \* the repository's is "identity"

VARIABLES
    revisions,    \* RAGRepository.revisions
    current,      \* RAGRepository.bySnapshot: snapshot -> revision id
    indexer,      \* call of Index -> [pc, revision]
    searcher      \* call of Search -> [pc, request, snapshot, revision, answer]

indexVars == <<revisions, current, indexer, searcher>>

NoRevision == [id |-> None, snapshot |-> None, content |-> {}, documents |-> {}]
NoSearch == [pc |-> "idle", request |-> None, snapshot |-> None, revision |-> None, rerank |-> None, answer |-> None]
IndexInit ==
    /\ revisions = {}
    /\ current = [s \in Snapshots |-> None]
    /\ indexer = [c \in IndexCalls |-> [pc |-> "idle", revision |-> NoRevision]]
    /\ searcher = [q \in Searches |-> NoSearch]

(* buildDocuments: unique artifacts of one commit whose hashes agree. The  *)
(* id of a document is a digest of its artifact and its content.           *)
Indexable(input) ==
    /\ Len(input) <= MaxDocuments
    /\ Cardinality({a.artifact : a \in ToSet(input)}) = Len(input)
    /\ Cardinality({a.commit : a \in ToSet(input)}) <= 1
    /\ \A a \in ToSet(input) : a.hash = a.sourceHash
DocumentId(a) == 10 * Digest[a.artifact] + a.hash

(* Digests differ where what they digest does; the text of a document      *)
(* begins with its artifact's name, which buildDocuments requires.         *)
ASSUME InputsAssumption ==
    \A input \in Inputs :
        /\ input \in Seq(ToSet(input))
        /\ \A a \in ToSet(input) : a.artifact \in Nat /\ DocumentId(a) \in Nat
        /\ \A a \in ToSet(input) : a.text \in Seq(ToSet(a.text)) /\ a.text # <<>>
        /\ \A a, b \in ToSet(input) : DocumentId(a) = DocumentId(b) => a.artifact = b.artifact
BuildDocuments(input) ==
    {[id |-> DocumentId(a), artifact |-> a.artifact, commit |-> a.commit, language |-> a.language, kind |-> a.kind,
      path |-> a.path, terms |-> a.terms, text |-> a.text] : a \in ToSet(input)}

(* A request can be compared with every document: the vectorizer returns a *)
(* number for the two.                                                     *)
ASSUME RequestsAssumption ==
    \A r \in Requests :
        /\ r.query \in Seq(ToSet(r.query))
        /\ \A input \in Inputs : \A d \in BuildDocuments(input) : Cosine(r.query, d) \in Int
RevisionHash(documents) == {d.id : d \in documents}

Stored(id) == CHOOSE r \in revisions : r.id = id
IndexEvent(r) == [type |-> "index", id |-> r.id, snapshot |-> r.snapshot, content |-> r.content]

(* Index up to Save: the revision a snapshot has already may be the same.  *)
(* The call fails when its context ends or the vectorizer does.            *)
StartIndex(c, s, input) ==
    LET documents == BuildDocuments(input)
        fresh == [id |-> c, snapshot |-> s, content |-> RevisionHash(documents), documents |-> documents]
        enter(pc, r) == indexer' = [indexer EXCEPT ![c] = [pc |-> pc, revision |-> r]]
    IN /\ indexer[c].pc = "idle"
       /\ IF ~Indexable(input) THEN enter("refused", NoRevision)
          ELSE IF current[s] # None /\ Stored(current[s]).content = fresh.content
          THEN enter("announce", Stored(current[s]))
          ELSE enter("save", fresh) \/ enter("failed", NoRevision)
       /\ UNCHANGED <<revisions, current, searcher, announced>>

(* RAGRepository.Save: no error and no change when the same content became *)
(* current since Index looked.                                             *)
SaveIndexInPlace(c) ==
    LET r == indexer[c].revision
    IN /\ indexer[c].pc = "save"
       /\ revisions' = {o \in revisions : o.snapshot # r.snapshot} \cup {r}
       /\ current' = [current EXCEPT ![r.snapshot] = r.id]
       /\ indexer' = [indexer EXCEPT ![c].pc = "announce"]
       /\ UNCHANGED <<searcher, announced>>

SaveIndex(c) ==
    LET r == indexer[c].revision
        present == current[r.snapshot] # None /\ Stored(current[r.snapshot]).content = r.content
    IN /\ indexer[c].pc = "save"
       /\ revisions' = IF present THEN revisions ELSE revisions \cup {r}
       /\ current' = IF present THEN current ELSE [current EXCEPT ![r.snapshot] = r.id]
       /\ indexer' = [indexer EXCEPT ![c].pc = "announce"]
       /\ UNCHANGED <<searcher, announced>>

SaveErrorIgnored(c) ==
    /\ indexer[c].pc = "save"
    /\ indexer' = [indexer EXCEPT ![c].pc = "announce"]
    /\ UNCHANGED <<revisions, current, searcher, announced>>

SaveFails(c) ==
    /\ indexer[c].pc = "save"
    /\ indexer' = [indexer EXCEPT ![c].pc = "failed"]
    /\ UNCHANGED <<revisions, current, searcher, announced>>

AnnounceIndex(c) ==
    /\ indexer[c].pc = "announce"
    /\ \/ /\ announced' = announced \cup {IndexEvent(indexer[c].revision)}
          /\ indexer' = [indexer EXCEPT ![c].pc = "done"]
       \/ indexer' = [indexer EXCEPT ![c].pc = "failed"] /\ UNCHANGED announced
    /\ UNCHANGED <<revisions, current, searcher>>

(* Search takes the current revision in one call of the repository and its *)
(* documents in the next.                                                  *)
StartSearch(q, s, r) ==
    /\ searcher[q].pc = "idle"
    /\ searcher' = [searcher EXCEPT ![q] =
           [NoSearch EXCEPT !.request = r, !.snapshot = s, !.revision = current[s],
                !.pc = IF ~ValidRequest(r) THEN "invalid" ELSE IF current[s] = None THEN "not found" ELSE "load"]]
    /\ UNCHANGED <<revisions, current, indexer, announced>>

Holding(s, id) == {r \in revisions : r.id = id /\ r.snapshot = s}
Search(q, reranker) ==
    LET was == searcher[q]
        found == Holding(was.snapshot, was.revision)
    IN /\ was.pc = "load"
       /\ searcher' = [searcher EXCEPT
              ![q].pc = IF found = {} THEN "documents not found" ELSE "done",
              ![q].rerank = reranker,
              ![q].answer = IF found = {} THEN None
                            ELSE Retrieve(was.request, Stored(was.revision).documents, GraphAt(was.snapshot), reranker)]
       /\ UNCHANGED <<revisions, current, indexer, announced>>

IndexNext ==
    \/ \E c \in IndexCalls :
          \/ \E s \in Snapshots, input \in Inputs : StartIndex(c, s, input)
          \/ SaveIndex(c) \/ SaveFails(c) \/ AnnounceIndex(c)
    \/ \E q \in Searches :
          \/ \E s \in Snapshots, r \in Requests : StartSearch(q, s, r)
          \/ \E reranker \in Rerankers : Search(q, reranker)
=============================================================================
