---------------------------- MODULE GraphCandidate ----------------------------
(***************************************************************************)
(* The data plane of one graph build attempt: the worker reads the parser  *)
(* result page by page, leaves out the records the quality policy          *)
(* tolerates, writes the rest to Neo4j in batches and seals the candidate; *)
(* the database loses answers, the parser result is replaced under the     *)
(* reader, the lease is lost and the reconciler deletes the candidate      *)
(* between two steps, even between the check and the write of one batch.   *)
(*                                                                         *)
(* A parser result is a record                                             *)
(*   [checksum, matches, artifactCount, relationCount,                     *)
(*    artifacts : Seq([id, type, identity, valid, size]),                  *)
(*    relations : Seq([id, from, status, targets, kind, identity, valid,   *)
(*                     size])]                                             *)
(* where `matches` says that its commit and version are the job's, and     *)
(* `identity` and `valid` stand for the field checks of a record.          *)
(***************************************************************************)
EXTENDS CodeGraph

CONSTANTS
    Results,                            \* parser results the source may hold
    PageSize, BatchSize, MaxBatchBytes,
    MaxRecordBytes,                     \* at most MaxBatchBytes
    MaxRevisionBytes, MaxArtifacts, MaxRelations,
    MaxInvalidArtifacts, MaxInvalidRelations,
    MaxInvalidPercent,                  \* both ratios of the quality policy
    SourceAttempts, BatchAttempts,      \* retries of a page and of a batch
    Queries,                            \* queries put to the active revision
    MaxFaults                           \* bound: failing calls

ASSUME CandidateAssumption ==
    /\ {PageSize, BatchSize, MaxBatchBytes, MaxRecordBytes, SourceAttempts, BatchAttempts} \subseteq Nat \ {0}
    /\ MaxRecordBytes <= MaxBatchBytes
    /\ {MaxRevisionBytes, MaxArtifacts, MaxRelations, MaxInvalidArtifacts, MaxInvalidRelations, MaxInvalidPercent, MaxFaults} \subseteq Nat

Statuses == {"RESOLVED", "AMBIGUOUS", "UNRESOLVED", "EXTERNAL"}
Artifacts == [id : Int, type : STRING, identity : BOOLEAN, valid : BOOLEAN, size : Nat]
Relations == [id : Int, from : Int, status : Statuses, targets : SUBSET Int, kind : STRING,
              identity : BOOLEAN, valid : BOOLEAN, size : Nat]

(* The shape of what the parser's API returns; the content may be anything. *)
ASSUME ResultsAssumption == \A s \in Results :
    /\ s.artifacts \in Seq(Artifacts) /\ s.relations \in Seq(Relations)
    /\ {s.artifactCount, s.relationCount} \subseteq Nat

(* graph.GraphQuery after its validation; the digests of two identities    *)
(* are taken to differ.                                                    *)
ASSUME QueriesAssumption == \A q \in Queries : {q.depth, q.limit} \subseteq Nat
ASSUME DigestAssumption == \A s \in Results : \A a, b \in ToSet(s.artifacts) :
    Digest[a.id] \in Int /\ (Digest[a.id] = Digest[b.id] => a.id = b.id)

VARIABLES
    source,       \* the parser result the source holds now
    replaced,     \* it is not the first one
    lease,        \* the worker's lease is valid
    candidate,    \* the GraphRevision node and every row of its revision
    worker,       \* the worker's local variables
    faults

vars == <<source, replaced, lease, candidate, worker, faults>>

NoTally == [artifacts |-> 0, invalidArtifacts |-> 0, relations |-> 0, invalidRelations |-> 0,
            unresolved |-> 0, ambiguous |-> 0]
NoCandidate == [exists |-> FALSE, stage |-> "WRITING", status |-> "STAGING",
                nodes |-> {}, edges |-> {}, stats |-> NoTally, quality |-> "NONE"]

Init ==
    /\ source \in Results
    /\ replaced = FALSE
    /\ lease = TRUE
    /\ candidate = NoCandidate
    /\ worker = [pc |-> "metadata", tries |-> 0, metadata |-> source, cursor |-> 0, pending |-> <<>>,
                 checked |-> FALSE, isolated |-> {}, bytes |-> 0, quality |-> NoTally]
    /\ faults = 0

Fail(why) == worker' = [worker EXCEPT !.pc = why, !.pending = <<>>, !.checked = FALSE]

(* A call whose answer is lost is repeated up to its number of attempts.   *)
Retried(attempts) ==
    /\ faults < MaxFaults
    /\ faults' = faults + 1
    /\ IF worker.tries + 1 < attempts
       THEN worker' = [worker EXCEPT !.tries = @ + 1, !.checked = FALSE]
       ELSE Fail("retryable")

(* Every phase renews the lease first; its retries do not.                 *)
Renewed == worker.tries > 0 \/ lease
LeaseRefused ==
    /\ worker.pc \in {"create", "write artifacts", "complete", "write relations", "seal", "activate"}
    /\ worker.tries = 0 /\ ~worker.checked /\ ~lease
    /\ worker.pc \in {"write artifacts", "write relations"} => worker.pending # <<>>
    /\ Fail("lease")
    /\ UNCHANGED <<source, replaced, lease, candidate, faults>>
-----------------------------------------------------------------------------
(* Reading the parser result: it has to be the one the job was made for,   *)
(* and within the capacity of a build.                                     *)
ReadMetadata ==
    /\ worker.pc = "metadata"
    /\ IF ~source.matches THEN Fail("changed")
       ELSE IF source.artifactCount > MaxArtifacts \/ source.relationCount > MaxRelations THEN Fail("invalid")
       ELSE worker' = [worker EXCEPT !.pc = "create", !.tries = 0, !.metadata = source]
    /\ UNCHANGED <<source, replaced, lease, candidate, faults>>

StrictlyOrdered(records) == \A i \in 1..Len(records) - 1 : records[i].id < records[i + 1].id
Page(records) == SubSeq(records, worker.cursor + 1, Least(worker.cursor + PageSize, Len(records)))
UpToPage(records) == Take(records, worker.cursor + PageSize)

(* PageIdentity.Validate and the bounds: the page belongs to the result    *)
(* whose metadata was read, and the count it declared is not exceeded.     *)
PageChangedInSize(records, declared) == worker.cursor + Len(Page(records)) > declared
PageChanged(records, declared) ==
    \/ source.checksum # worker.metadata.checksum
    \/ worker.cursor + Len(Page(records)) > declared

LastPage(records) == worker.cursor >= Len(records)

ExceedsQualityThreshold(invalid, total, maximum) ==
    invalid > maximum \/ (total > 0 /\ invalid * 100 > MaxInvalidPercent * total)

References(relation) ==
    {relation.from} \cup (IF relation.status \in {"RESOLVED", "AMBIGUOUS"} THEN relation.targets ELSE {})

(* classifyArtifact and classifyRelation: the soft error that leaves a     *)
(* record out. A relation of a left-out artifact is left out as well.      *)
ValidArtifact(a) == a.valid
ValidRelation(r) == References(r) \cap worker.isolated = {} /\ r.valid

SizeOf(records) == FoldSeq(LAMBDA r, sum : r.size + sum, 0, records)
PageRefused(records) ==
    \/ ~StrictlyOrdered(UpToPage(records))
    \/ \E r \in ToSet(Page(records)) : ~r.identity \/ r.size > MaxRecordBytes
    \/ worker.bytes + SizeOf(Page(records)) > MaxRevisionBytes

CountStatus(records, status) == Cardinality({i \in DOMAIN records : records[i].status = status})

(* The whole of one page is read, classified and counted before its first  *)
(* batch; nothing of it is written when the quality threshold is exceeded. *)
ReadArtifactPage ==
    LET page == Page(source.artifacts)
        valid == Kept(page, ValidArtifact)
        invalid == worker.quality.invalidArtifacts + Len(page) - Len(valid)
    IN /\ worker.pc = "read artifacts"
       /\ IF PageChanged(source.artifacts, worker.metadata.artifactCount) THEN Fail("changed")
          ELSE IF \/ PageRefused(source.artifacts)
                  \/ invalid > worker.quality.invalidArtifacts
                     /\ ExceedsQualityThreshold(invalid, worker.metadata.artifactCount, MaxInvalidArtifacts)
          THEN Fail("invalid")
          ELSE worker' = [worker EXCEPT !.pc = "write artifacts", !.tries = 0, !.pending = valid,
                              !.cursor = @ + Len(page), !.bytes = @ + SizeOf(page),
                              !.isolated = @ \cup {a.id : a \in ToSet(page) \ ToSet(valid)},
                              !.quality.invalidArtifacts = invalid]
       /\ UNCHANGED <<source, replaced, lease, candidate, faults>>

ReadRelationPage ==
    LET page == Page(source.relations)
        valid == Kept(page, ValidRelation)
        invalid == worker.quality.invalidRelations + Len(page) - Len(valid)
    IN /\ worker.pc = "read relations"
       /\ IF PageChanged(source.relations, worker.metadata.relationCount) THEN Fail("changed")
          ELSE IF \/ PageRefused(source.relations)
                  \/ invalid > worker.quality.invalidRelations
                     /\ ExceedsQualityThreshold(invalid, worker.metadata.relationCount, MaxInvalidRelations)
          THEN Fail("invalid")
          ELSE worker' = [worker EXCEPT !.pc = "write relations", !.tries = 0, !.pending = valid,
                              !.cursor = @ + Len(page), !.bytes = @ + SizeOf(page),
                              !.quality.invalidRelations = invalid,
                              !.quality.unresolved = @ + CountStatus(valid, "UNRESOLVED"),
                              !.quality.ambiguous = @ + CountStatus(valid, "AMBIGUOUS")]
       /\ UNCHANGED <<source, replaced, lease, candidate, faults>>

PageUnavailable ==
    /\ worker.pc \in {"metadata", "read artifacts", "read relations"}
    /\ Retried(SourceAttempts)
    /\ UNCHANGED <<source, replaced, lease, candidate>>

(* After the last batch of a page: the next page, or the next phase when   *)
(* the source has no cursor left and the declared count was reached.       *)
TurnPage(records, declared, again, next) ==
    IF ~LastPage(records) THEN worker' = [worker EXCEPT !.pc = again, !.tries = 0]
    ELSE IF worker.cursor # declared THEN Fail("changed")
    ELSE worker' = [worker EXCEPT !.pc = next, !.tries = 0, !.cursor = 0]

ArtifactsWritten ==
    /\ worker.pc = "write artifacts" /\ worker.pending = <<>>
    /\ TurnPage(worker.metadata.artifacts, worker.metadata.artifactCount, "read artifacts", "complete")
    /\ UNCHANGED <<source, replaced, lease, candidate, faults>>

(* graph.EvaluateQuality, after the last relation page.                    *)
QualityRefused ==
    \/ ExceedsQualityThreshold(worker.quality.invalidArtifacts, worker.metadata.artifactCount, MaxInvalidArtifacts)
    \/ ExceedsQualityThreshold(worker.quality.invalidRelations, worker.metadata.relationCount, MaxInvalidRelations)
Quality ==
    IF worker.quality.invalidArtifacts + worker.quality.invalidRelations > 0 THEN "DEGRADED" ELSE "HEALTHY"

RelationsWritten ==
    /\ worker.pc = "write relations" /\ worker.pending = <<>>
    /\ IF LastPage(worker.metadata.relations) /\ worker.cursor = worker.metadata.relationCount /\ QualityRefused
       THEN Fail("invalid")
       ELSE TurnPage(worker.metadata.relations, worker.metadata.relationCount, "read relations", "seal")
    /\ UNCHANGED <<source, replaced, lease, candidate, faults>>
-----------------------------------------------------------------------------
(***************************************************************************)
(* Database calls. A call takes effect and is answered, or its answer is   *)
(* lost, and then it may or may not have taken effect.                     *)
(***************************************************************************)
CreateCandidate ==
    LET created == IF candidate.exists THEN candidate ELSE [candidate EXCEPT !.exists = TRUE]
    IN /\ worker.pc = "create" /\ Renewed
       /\ \/ /\ candidate' = created
             /\ worker' = [worker EXCEPT !.pc = "read artifacts", !.tries = 0]
             /\ UNCHANGED faults
          \/ candidate' \in {candidate, created} /\ Retried(BatchAttempts)
       /\ UNCHANGED <<source, replaced, lease>>

(* boundedBatchEnd: as many records as the count and the bytes allow.      *)
Batch ==
    LET fits(n) == n <= BatchSize /\ SizeOf(SubSeq(worker.pending, 1, n)) <= MaxBatchBytes
        ends == {n \in 0..Len(worker.pending) : \A k \in 1..n : fits(k)}
    IN SubSeq(worker.pending, 1, CHOOSE n \in ends : \A k \in ends : k <= n)

(* requireCandidateStage, the first statement of a batch's transaction.    *)
(* The row it reads is not locked.                                         *)
CheckStage ==
    LET stage == IF worker.pc = "write artifacts" THEN "WRITING" ELSE "COMPLETE"
    IN /\ worker.pc \in {"write artifacts", "write relations"}
       /\ worker.pending # <<>> /\ ~worker.checked /\ Renewed
       /\ IF candidate.exists /\ candidate.status = "STAGING" /\ candidate.stage = stage
          THEN worker' = [worker EXCEPT !.checked = TRUE]
          ELSE Fail("invalid")
       /\ UNCHANGED <<source, replaced, lease, candidate, faults>>

Conflicts(rows, stored) == \E r \in rows, s \in stored : r.id = s.id /\ r # s

(* The batch is committed and counted, refused as a whole, or its answer   *)
(* is lost with the transaction committed or rolled back.                  *)
Commit(written, refused, counted) ==
    /\ worker.checked
    /\ \/ /\ ~refused
          /\ candidate' = written
          /\ worker' = [worker EXCEPT !.pending = SubSeq(@, Len(Batch) + 1, Len(@)), !.tries = 0,
                            !.checked = FALSE, !.quality = counted]
          /\ UNCHANGED faults
       \/ refused /\ Fail("invalid") /\ UNCHANGED <<candidate, faults>>
       \/ candidate' \in (IF refused THEN {candidate} ELSE {candidate, written}) /\ Retried(BatchAttempts)
    /\ UNCHANGED <<source, replaced, lease>>

WriteArtifactBatch ==
    /\ worker.pc = "write artifacts"
    /\ Commit([candidate EXCEPT !.nodes = @ \cup ToSet(Batch)], Conflicts(ToSet(Batch), candidate.nodes),
              [worker.quality EXCEPT !.artifacts = @ + Len(Batch)])

(* A statement per group of relations; each fails when it wrote fewer rows *)
(* than it was given, because a source or a target is not an entity.       *)
Written(artifact) == \E n \in candidate.nodes : n.id = artifact
FactMissing(r) ==
    /\ r.status \in {"RESOLVED", "EXTERNAL"}
    /\ ~Written(r.from) \/ (r.status = "RESOLVED" /\ \E a \in r.targets : ~Written(a))
AmbiguousMissing(r) == r.status = "AMBIGUOUS" /\ (~Written(r.from) \/ \E a \in r.targets : ~Written(a))
UnresolvedMissing(r) == r.status = "UNRESOLVED" /\ ~Written(r.from)

WriteRelationBatch ==
    /\ worker.pc = "write relations"
    /\ Commit([candidate EXCEPT !.edges = @ \cup ToSet(Batch)],
              \/ Conflicts(ToSet(Batch), candidate.edges)
              \/ \E r \in ToSet(Batch) : FactMissing(r) \/ AmbiguousMissing(r) \/ UnresolvedMissing(r),
              [worker.quality EXCEPT !.relations = @ + Len(Batch)])

CompleteArtifactStage ==
    LET refused == \/ ~candidate.exists
                   \/ Cardinality(candidate.nodes) # worker.quality.artifacts
                   \/ candidate.stage # "COMPLETE" /\ candidate.status # "STAGING"
        complete == [candidate EXCEPT !.stage = "COMPLETE"]
    IN /\ worker.pc = "complete" /\ Renewed
       /\ \/ /\ ~refused
             /\ candidate' = complete
             /\ worker' = [worker EXCEPT !.pc = "read relations", !.tries = 0]
             /\ UNCHANGED faults
          \/ refused /\ Fail("invalid") /\ UNCHANGED <<candidate, faults>>
          \/ candidate' \in (IF refused THEN {candidate} ELSE {candidate, complete}) /\ Retried(BatchAttempts)
       /\ UNCHANGED <<source, replaced, lease>>

(* SealCandidate: the rows are counted again inside the transaction; a     *)
(* sealed candidate with the same metadata is sealed once more.            *)
Counts(c) ==
    LET with(status) == Cardinality({e \in c.edges : e.status = status})
    IN [nodes |-> Cardinality(c.nodes), edges |-> Cardinality(c.edges),
        unresolved |-> with("UNRESOLVED"), ambiguous |-> with("AMBIGUOUS")]
Expected ==
    [nodes |-> worker.quality.artifacts, edges |-> worker.quality.relations,
     unresolved |-> worker.quality.unresolved, ambiguous |-> worker.quality.ambiguous]

SealRefusedTwice == candidate.status # "STAGING" \/ Counts(candidate) # Expected
SealRefused ==
    \/ ~candidate.exists \/ Counts(candidate) # Expected \/ candidate.stage # "COMPLETE"
    \/ candidate.status = "SEALED" /\ (candidate.stats # worker.quality \/ candidate.quality # Quality)

Sealed ==
    [candidate EXCEPT !.status = "SEALED", !.stats = worker.quality, !.quality = Quality]

(* A lost answer of the seal is followed by a CandidateStatus read, which  *)
(* may be lost as well: only a status that says SEALED ends the retries.   *)
SealCandidate ==
    /\ worker.pc = "seal" /\ Renewed
    /\ \/ /\ ~SealRefused
          /\ candidate' = Sealed
          /\ worker' = [worker EXCEPT !.pc = "activate", !.tries = 0]
          /\ UNCHANGED faults
       \/ SealRefused /\ Fail("invalid") /\ UNCHANGED <<candidate, faults>>
       \/ candidate' \in (IF SealRefused THEN {candidate} ELSE {candidate, Sealed}) /\ Retried(BatchAttempts)
       \/ /\ ~SealRefused /\ faults < MaxFaults /\ faults' = faults + 1
          /\ candidate' = Sealed
          /\ worker' = [worker EXCEPT !.pc = "activate", !.tries = 0]
    /\ UNCHANGED <<source, replaced, lease>>

(* ActivateGraphRevision needs the lease; the control plane's own model    *)
(* has its other conditions.                                               *)
Activate ==
    /\ worker.pc = "activate" /\ lease
    /\ worker' = [worker EXCEPT !.pc = "active"]
    /\ UNCHANGED <<source, replaced, lease, candidate, faults>>
-----------------------------------------------------------------------------
(* The environment.                                                        *)
ReplaceResult ==
    /\ ~replaced
    /\ replaced' = TRUE
    /\ source' \in {s \in Results : s.checksum # source.checksum}
    /\ UNCHANGED <<lease, candidate, worker, faults>>

Failures == {"invalid", "changed", "retryable", "lease"}
LoseLease ==
    /\ lease /\ worker.pc # "active"
    /\ lease' = FALSE
    /\ UNCHANGED <<source, replaced, candidate, worker, faults>>

(* The heartbeat that meets a lost lease cancels the build's context.      *)
Cancelled ==
    /\ ~lease /\ worker.pc \notin Failures \cup {"active"}
    /\ Fail("lease")
    /\ UNCHANGED <<source, replaced, lease, candidate, faults>>

(* DeleteCandidate: the reconciler removes the node of an attempt that is  *)
(* over, and the rows that are committed by then.                          *)
DeleteCandidate ==
    /\ candidate.exists /\ worker.pc # "active"
    /\ ~lease \/ worker.pc \in Failures
    /\ candidate' = NoCandidate
    /\ UNCHANGED <<source, replaced, lease, worker, faults>>

Build ==
    \/ ReadMetadata \/ ReadArtifactPage \/ ReadRelationPage \/ ArtifactsWritten \/ RelationsWritten
    \/ CreateCandidate \/ CheckStage \/ WriteArtifactBatch \/ WriteRelationBatch
    \/ CompleteArtifactStage \/ SealCandidate \/ Activate \/ LeaseRefused
Next ==
    \/ Build \/ PageUnavailable \/ ReplaceResult \/ LoseLease \/ Cancelled \/ DeleteCandidate

(* The worker goroutine keeps running; the environment owes nothing.       *)
Spec == Init /\ [][Next]_vars /\ WF_vars(Build)
-----------------------------------------------------------------------------
(* QueryService.Query: the active pointer, VerifyRevision, QueryRevision.  *)
GraphOf(c) ==
    [nodes |-> {n.id : n \in c.nodes},
     type |-> [i \in {n.id : n \in c.nodes} |-> (CHOOSE n \in c.nodes : n.id = i).type],
     facts |-> UNION {{[id |-> e.id, from |-> e.from, to |-> t, kind |-> e.kind] : t \in e.targets} :
                         e \in {r \in c.edges : r.status = "RESOLVED"}}]

VerifyRevision ==
    /\ candidate.exists /\ candidate.status = "SEALED"
    /\ candidate.stats = worker.quality /\ candidate.quality = Quality

QueryActive(q) ==
    IF worker.pc # "active" THEN Refused("not found")
    ELSE IF ~VerifyRevision THEN Refused("inconsistent")
    ELSE Neo4jQuery(GraphOf(candidate), q)

(* What a candidate built from one parser result has to hold.              *)
LeftOut(s) == {a.id : a \in {b \in ToSet(s.artifacts) : ~b.valid}}
WantedNodes(s) == {a \in ToSet(s.artifacts) : a.valid}
WantedEdges(s) == {r \in ToSet(s.relations) : r.valid /\ References(r) \cap LeftOut(s) = {}}

(* A parser result every record of which can be written or tolerated.      *)
Acceptable(s) ==
    LET records == s.artifacts \o s.relations
        invalidArtifacts == Len(s.artifacts) - Cardinality(WantedNodes(s))
        invalidRelations == Len(s.relations) - Cardinality(WantedEdges(s))
    IN /\ s.matches /\ s.artifactCount <= MaxArtifacts /\ s.relationCount <= MaxRelations
       /\ Len(s.artifacts) = s.artifactCount /\ Len(s.relations) = s.relationCount
       /\ StrictlyOrdered(s.artifacts) /\ StrictlyOrdered(s.relations)
       /\ \A i \in DOMAIN records : records[i].identity /\ records[i].size <= MaxRecordBytes
       /\ SizeOf(records) <= MaxRevisionBytes
       /\ ~ExceedsQualityThreshold(invalidArtifacts, s.artifactCount, MaxInvalidArtifacts)
       /\ ~ExceedsQualityThreshold(invalidRelations, s.relationCount, MaxInvalidRelations)
       /\ \A r \in WantedEdges(s) : References(r) \subseteq {n.id : n \in WantedNodes(s)}

(* A sealed candidate is exactly one acceptable parser result: every valid *)
(* record once, none of another version of the result although it was read *)
(* over many pages, and the statistics a query verifies it by.             *)
SealedIsExact ==
    candidate.exists /\ candidate.status = "SEALED" =>
        \E s \in Results :
            /\ s.checksum = worker.metadata.checksum /\ Acceptable(s)
            /\ candidate.nodes = WantedNodes(s) /\ candidate.edges = WantedEdges(s)
            /\ candidate.stats.invalidArtifacts = Cardinality(LeftOut(s))
            /\ candidate.quality = "HEALTHY" <=>
                  WantedNodes(s) = ToSet(s.artifacts) /\ WantedEdges(s) = ToSet(s.relations)

(* An active revision answers every query, within its budgets, with what   *)
(* the query means, and with what the in-memory store would answer.        *)
QueriesAgree ==
    worker.pc = "active" => \A q \in Queries :
        LET g == GraphOf(candidate)
            answer == QueryActive(q)
            reference == MemoryQuery(g, q)
        IN answer.error # "budget" =>
              /\ answer.error = "none" <=> reference.error = "none"
              /\ answer.error = "none" => Faithful(g, q, answer) /\ Faithful(g, q, reference)
              /\ ~answer.truncated => ToSet(answer.nodes) = ToSet(reference.nodes)
                                        /\ answer.facts = reference.facts

(* An acceptable result that stays in place is built, whatever answers are *)
(* lost, unless the lease goes or one operation runs out of attempts.      *)
AcceptableIsBuilt ==
    Acceptable(source) ~> \/ worker.pc = "active"
                          \/ replaced \/ ~lease \/ worker.pc = "retryable"
=============================================================================
