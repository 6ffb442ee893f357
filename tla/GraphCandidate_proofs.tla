-------------------------- MODULE GraphCandidate_proofs --------------------------
(***************************************************************************)
(* Proofs about the data plane of one build. A candidate that is sealed is *)
(* exactly one parser result; the induction says, for every point of the   *)
(* build, which prefix of that result has been read, what of it is pending *)
(* and what of it is stored.                                               *)
(***************************************************************************)
EXTENDS GraphCandidate, CodeGraph_proofs

Records == Artifacts \cup Relations
Tallies == [artifacts : Nat, invalidArtifacts : Nat, relations : Nat, invalidRelations : Nat,
            unresolved : Nat, ambiguous : Nat]

Workers ==
    [pc : {"metadata", "create", "read artifacts", "write artifacts", "complete", "read relations",
           "write relations", "seal", "activate", "active"} \cup Failures,
     tries : Nat, metadata : Results, cursor : Nat, pending : Seq(Records), checked : BOOLEAN,
     isolated : SUBSET Int, bytes : Nat, quality : Tallies]
Candidates ==
    [exists : BOOLEAN, stage : {"WRITING", "COMPLETE"}, status : {"STAGING", "SEALED"},
     nodes : SUBSET Records, edges : SUBSET Records, stats : Tallies,
     quality : {"NONE", "HEALTHY", "DEGRADED"}]
DataTypes ==
    /\ source \in Results /\ replaced \in BOOLEAN /\ lease \in BOOLEAN
    /\ worker \in Workers /\ candidate \in Candidates

(* The result whose checksum was read is the one that is there.            *)
OneResult ==
    /\ ~replaced => source = worker.metadata
    /\ source.checksum = worker.metadata.checksum => source = worker.metadata

Sizes(records) == [i \in DOMAIN records |-> records[i].size]
CheckedUpTo(records, n) ==
    /\ n \in 0..Len(records)
    /\ \A i \in 1..n - 1 : records[i].id < records[i + 1].id
    /\ \A i \in 1..n : records[i].identity /\ records[i].size <= MaxRecordBytes

GoodArtifacts(s, n) == {i \in 1..n : s.artifacts[i].valid}
BadArtifacts(s, n) == {i \in 1..n : ~s.artifacts[i].valid}
GoodRelations(s, n) == {i \in 1..n : s.relations[i].valid /\ References(s.relations[i]) \cap LeftOut(s) = {}}
BadRelations(s, n) == {i \in 1..n : ~(s.relations[i].valid /\ References(s.relations[i]) \cap LeftOut(s) = {})}

ArtifactsRead(s, n) ==
    /\ CheckedUpTo(s.artifacts, n)
    /\ worker.isolated = {a.id : a \in At(s.artifacts, BadArtifacts(s, n))}
    /\ worker.quality.invalidArtifacts = Cardinality(BadArtifacts(s, n))
RelationsRead(s, n) ==
    /\ CheckedUpTo(s.relations, n)
    /\ worker.quality.invalidRelations = Cardinality(BadRelations(s, n))

(* The rows of a prefix are stored, up to those that are still pending.    *)
Stored(rows, wanted) ==
    /\ ToSet(worker.pending) \subseteq wanted
    /\ candidate.exists => rows \subseteq wanted /\ wanted \subseteq rows \cup ToSet(worker.pending)

Fits(s) == s.matches /\ s.artifactCount <= MaxArtifacts /\ s.relationCount <= MaxRelations
AllArtifacts(s) ==
    /\ Len(s.artifacts) = s.artifactCount /\ ArtifactsRead(s, Len(s.artifacts))
    /\ candidate.exists => candidate.nodes = WantedNodes(s)
EndpointsWritten == candidate.exists =>
    \A r \in candidate.edges : References(r) \subseteq {n.id : n \in candidate.nodes}
AllRelations(s) ==
    /\ Len(s.relations) = s.relationCount /\ RelationsRead(s, Len(s.relations))
    /\ candidate.exists => candidate.edges = WantedEdges(s)
BytesRead(s, n, k) ==
    /\ worker.bytes = Total(Sizes(s.artifacts), 1..n) + Total(Sizes(s.relations), 1..k)
    /\ worker.bytes <= MaxRevisionBytes

Everything(s) ==
    /\ Fits(s) /\ AllArtifacts(s) /\ AllRelations(s) /\ EndpointsWritten
    /\ BytesRead(s, Len(s.artifacts), Len(s.relations)) /\ ~QualityRefused

AtStart == worker.pc \in {"metadata", "create"} =>
    /\ worker.cursor = 0 /\ worker.isolated = {} /\ worker.bytes = 0 /\ worker.quality = NoTally
    /\ candidate.nodes = {} /\ candidate.edges = {} /\ candidate.status = "STAGING"
    /\ worker.pc = "create" => Fits(worker.metadata)
InArtifacts == worker.pc \in {"read artifacts", "write artifacts"} =>
    LET s == worker.metadata IN
    /\ Fits(s) /\ ArtifactsRead(s, worker.cursor) /\ BytesRead(s, worker.cursor, 0)
    /\ Stored(candidate.nodes, At(s.artifacts, GoodArtifacts(s, worker.cursor)))
    /\ candidate.edges = {} /\ candidate.status = "STAGING" /\ worker.quality.invalidRelations = 0
AtComplete == worker.pc = "complete" =>
    LET s == worker.metadata IN
    /\ Fits(s) /\ AllArtifacts(s) /\ BytesRead(s, Len(s.artifacts), 0) /\ worker.cursor = 0
    /\ candidate.edges = {} /\ candidate.status = "STAGING" /\ worker.quality.invalidRelations = 0
InRelations == worker.pc \in {"read relations", "write relations"} =>
    LET s == worker.metadata IN
    /\ Fits(s) /\ AllArtifacts(s) /\ RelationsRead(s, worker.cursor) /\ EndpointsWritten
    /\ BytesRead(s, Len(s.artifacts), worker.cursor)
    /\ Stored(candidate.edges, At(s.relations, GoodRelations(s, worker.cursor)))
    /\ candidate.status = "STAGING"
AtEnd == worker.pc \in {"seal", "activate", "active"} => Everything(worker.metadata)

NothingPending ==
    worker.pc \notin {"write artifacts", "write relations"} => worker.pending = <<>>

(* What was sealed stays what was read, and is never written to again.     *)
SealedIsEverything == candidate.exists /\ candidate.status = "SEALED" =>
    /\ worker.pc \in {"seal", "activate", "active"} \cup Failures
    /\ Everything(worker.metadata)
    /\ candidate.stats = worker.quality /\ candidate.quality = Quality

DataInv ==
    /\ DataTypes /\ OneResult /\ NothingPending
    /\ AtStart /\ InArtifacts /\ AtComplete /\ InRelations /\ AtEnd /\ SealedIsEverything

-----------------------------------------------------------------------------
LEMMA SizeIsTotal ==
    ASSUME NEW q, IsFiniteSet(DOMAIN q), NEW f, f = [i \in DOMAIN q |-> q[i].size], \A i \in DOMAIN q : q[i].size \in Nat
    PROVE  SizeOf(q) = Total(f, DOMAIN q)
<1> DEFINE IsFold(fold) == fold = [s \in SUBSET DOMAIN q |->
                 IF s = {} THEN 0 ELSE q[CHOOSE x \in s : TRUE].size + fold[s \ {CHOOSE x \in s : TRUE}]]
<1>1. SizeOf(q) = (CHOOSE fold : IsFold(fold))[DOMAIN q]
    BY DEF SizeOf, FoldSeq, FoldFunction, FoldFunctionOnSet, MapThenFoldSet
<1>2. \A s \in SUBSET DOMAIN q : s # {} => f[Pick(s)] = q[CHOOSE x \in s : TRUE].size
    BY DEF Pick
<1>3. \A fold : IsFold(fold) <=> Folds(fold, f, DOMAIN q)
    BY <1>2 DEF Folds, Pick
<1>4. IsFold(CHOOSE fold : IsFold(fold))
    <2>1. \A x \in DOMAIN q : f[x] \in Nat
        OBVIOUS
    <2>2. \E fold : Folds(fold, f, DOMAIN q)
        BY <2>1, FoldExists
    <2> HIDE DEF IsFold
    <2>3. \E fold : IsFold(fold)
        BY <2>2, <1>3
    <2> QED BY <2>3
<1>5. PICK fold : fold = (CHOOSE g : IsFold(g))
    OBVIOUS
<1> HIDE DEF IsFold
<1>6. Folds(fold, f, DOMAIN q)
    BY <1>3, <1>4, <1>5
<1> QED BY <1>1, <1>5, <1>6, FoldIsTotal

PageOf(recs, c, n, page) ==
    /\ c \in Nat /\ n \in c..Len(recs)
    /\ page \in Seq(Records) /\ Len(page) = n - c
    /\ \A k \in 1..n - c : page[k] = recs[c + k]

LEMMA PageIsNext ==
    ASSUME NEW recs \in Seq(Records), worker.cursor \in 0..Len(recs)
    PROVE  \E n : /\ PageOf(recs, worker.cursor, n, Page(recs))
                  /\ UpToPage(recs) = SubSeq(recs, 1, n)
<1>1. PageSize \in Nat /\ Len(recs) \in Nat
    BY CandidateAssumption
<1>2. PICK n : n = Least(worker.cursor + PageSize, Len(recs))
    OBVIOUS
<1>3. n \in worker.cursor..Len(recs)
    BY <1>1, <1>2 DEF Least
<1>4. PICK c \in Nat : c = worker.cursor
    OBVIOUS
<1>5. \A i \in c + 1..n : recs[i] \in Records
    BY <1>1, <1>3, <1>4
<1>6. /\ SubSeq(recs, c + 1, n) \in Seq(Records)
      /\ Len(SubSeq(recs, c + 1, n)) = IF c + 1 <= n THEN n - (c + 1) + 1 ELSE 0
      /\ \A i \in 1..n - (c + 1) + 1 : SubSeq(recs, c + 1, n)[i] = recs[c + 1 + i - 1]
    <2>1. c + 1 \in Int /\ n \in Int
        BY <1>3, <1>4
    <2> QED BY <1>5, <2>1, SubSeqProperties
<1>7. PICK page : page = Page(recs)
    OBVIOUS
<1>8. page = SubSeq(recs, c + 1, n)
    BY <1>2, <1>4, <1>7 DEF Page
<1>9. PageOf(recs, c, n, page)
    <2>1. PICK m : m = n - c
        OBVIOUS
    <2>2. page \in Seq(Records) /\ Len(page) = m
        BY <1>3, <1>4, <1>6, <1>8, <2>1
    <2>3. ASSUME NEW k \in 1..m PROVE page[k] = recs[c + k]
        <3>1. k \in 1..n - (c + 1) + 1 /\ c + 1 + k - 1 = c + k
            BY <1>3, <1>4, <2>1
        <3> QED BY <1>6, <1>8, <3>1
    <2>4. n \in c..Len(recs)
        BY <1>3, <1>4
    <2> QED BY <2>1, <2>2, <2>3, <2>4 DEF PageOf
<1>10. UpToPage(recs) = SubSeq(recs, 1, n)
    BY <1>2 DEF UpToPage, Take
<1> QED BY <1>4, <1>7, <1>9, <1>10

LEMMA SizeOfSequence ==
    ASSUME NEW q \in Seq(Records)
    PROVE  SizeOf(q) = Total(Sizes(q), 1..Len(q)) /\ SizeOf(q) \in Nat
<1>1. DOMAIN q = 1..Len(q) /\ Len(q) \in Nat /\ \A i \in DOMAIN q : q[i].size \in Nat
    BY DEF Records, Artifacts, Relations
<1>2. IsFiniteSet(DOMAIN q)
    BY <1>1, FS_Interval
<1>3. PICK f : f = [i \in DOMAIN q |-> q[i].size]
    OBVIOUS
<1>4. SizeOf(q) = Total(f, DOMAIN q)
    BY <1>1, <1>2, <1>3, SizeIsTotal
<1>5. \A i \in DOMAIN q : f[i] \in Nat
    BY <1>1, <1>3
<1>6. Total(f, DOMAIN q) \in Nat
    BY <1>2, <1>5, TotalType
<1> QED BY <1>1, <1>3, <1>4, <1>6 DEF Sizes

LEMMA PageSizes ==
    ASSUME NEW recs \in Seq(Records), NEW c, NEW n, NEW page, PageOf(recs, c, n, page)
    PROVE  /\ SizeOf(page) \in Nat
           /\ Total(Sizes(recs), 1..n) = Total(Sizes(recs), 1..c) + SizeOf(page)
<1>1. c \in Nat /\ n \in Nat /\ c <= n /\ n <= Len(recs) /\ page \in Seq(Records) /\ Len(page) = n - c
    BY DEF PageOf
<1>2. SizeOf(page) = Total(Sizes(page), 1..n - c) /\ SizeOf(page) \in Nat
    BY <1>1, SizeOfSequence
<1>3. PICK g : g = Sizes(recs)
    OBVIOUS
<1>4. PICK f : f = Sizes(page)
    OBVIOUS
<1>5. \A i \in 1..n : g[i] = recs[i].size /\ g[i] \in Nat
    BY <1>1, <1>3 DEF Sizes, Records, Artifacts, Relations
<1>6. \A k \in 1..n - c : f[k] = g[c + k] /\ f[k] \in Nat
    <2> SUFFICES ASSUME NEW k \in 1..n - c PROVE f[k] = g[c + k] /\ f[k] \in Nat
        OBVIOUS
    <2>1. c + k \in 1..n /\ page[k] = recs[c + k] /\ k \in DOMAIN page
        BY <1>1 DEF PageOf
    <2>2. f[k] = page[k].size
        BY <2>1, <1>4 DEF Sizes
    <2> QED BY <1>5, <2>1, <2>2
<1>7. PICK h : h = [k \in 1..n - c |-> c + k]
    OBVIOUS
<1>8. PICK S : S = 1..n - c
    OBVIOUS
<1>9. PICK T : T = c + 1..n
    OBVIOUS
<1>10. T = {h[k] : k \in S}
    <2>1. \A i \in T : i - c \in S /\ h[i - c] = i
        BY <1>1, <1>7, <1>8, <1>9
    <2>2. \A k \in S : h[k] \in T
        BY <1>1, <1>7, <1>8, <1>9
    <2> QED BY <2>1, <2>2
<1>11. IsFiniteSet(S) /\ IsFiniteSet(T) /\ IsFiniteSet(1..c)
    BY <1>1, <1>8, <1>9, FS_Interval
<1>12. Total(g, T) = Total(f, S)
    <2>1. \A x, y \in S : h[x] = h[y] => x = y
        BY <1>1, <1>7, <1>8
    <2>2. \A x \in S : g[h[x]] = f[x]
        BY <1>6, <1>7, <1>8
    <2>3. \A x \in S : f[x] \in Nat
        BY <1>6, <1>8
    <2>4. Renames(S, f, h, T, g)
        BY <1>10, <2>1, <2>2, <2>3 DEF Renames
    <2> QED BY <1>11, <2>4, TotalRenamed
<1>13. Total(g, (1..c) \cup T) = Total(g, 1..c) + Total(g, T)
    <2>1. PICK U : U = 1..c
        OBVIOUS
    <2>2. U \cap T = {} /\ \A x \in U \cup T : g[x] \in Nat
        BY <1>1, <1>5, <1>9, <2>1
    <2>3. IsFiniteSet(U)
        BY <1>11, <2>1
    <2> QED BY <1>11, <2>1, <2>2, <2>3, TotalUnion
<1>14. (1..c) \cup T = 1..n
    BY <1>1, <1>9
<1> QED BY <1>2, <1>3, <1>4, <1>8, <1>12, <1>13, <1>14

(* K are the places on the page of the records of I.                       *)
OnPage(I, K, c, n) ==
    /\ I \in SUBSET (1..n) /\ K \in SUBSET (1..n - c)
    /\ \A k \in 1..n - c : k \in K <=> c + k \in I

(* A page adds as many records to those left out as it does not keep.      *)
KeptFrom(recs, c, n, page, I, kept) ==
    /\ kept \in Seq(Records)
    /\ ToSet(kept) = At(recs, I \ (1..c))
    /\ Len(page) - Len(kept) \in Nat
    /\ Cardinality((1..n) \ I) = Cardinality((1..c) \ I) + Len(page) - Len(kept)

LEMMA PageKept ==
    ASSUME NEW recs \in Seq(Records), NEW c, NEW n, NEW page, PageOf(recs, c, n, page),
           NEW I, NEW K, OnPage(I, K, c, n), NEW kept, kept = KeptAt(page, K)
    PROVE  KeptFrom(recs, c, n, page, I, kept)
<1> /\ I \in SUBSET (1..n) /\ K \in SUBSET (1..n - c)
    /\ \A k \in 1..n - c : k \in K <=> c + k \in I
    BY DEF OnPage
<1>1. c \in Nat /\ n \in Nat /\ c <= n /\ n <= Len(recs) /\ page \in Seq(Records) /\ Len(page) = n - c
    BY DEF PageOf
<1>2. PICK P : P = 1..n - c
    OBVIOUS
<1>3. IsFiniteSet(P) /\ Cardinality(P) = n - c
    <2>1. PICK m \in Nat : m = n - c
        BY <1>1
    <2>2. P = 1..m
        BY <1>2, <2>1
    <2>3. IsFiniteSet(1..m) /\ Cardinality(1..m) = m
        BY FS_Interval
    <2> QED BY <2>1, <2>2, <2>3
<1>4. K \in SUBSET P /\ K \in SUBSET Int
    BY <1>2
<1>5. IsFiniteSet(K) /\ Cardinality(K) \in Nat /\ Cardinality(K) <= n - c
    BY <1>3, <1>4, FS_Subset, FS_CardinalityType
<1>6. kept \in Seq(At(page, K)) /\ Len(kept) = Cardinality(K) /\ ToSet(kept) = At(page, K)
    BY <1>4, <1>5, KeptRecords
<1>7. \A k \in P : page[k] = recs[c + k] /\ page[k] \in Records
    BY <1>1, <1>2 DEF PageOf
<1>8. kept \in Seq(Records)
    <2>1. At(page, K) \subseteq Records
        BY <1>4, <1>7 DEF At
    <2> QED BY <1>6, <2>1, SeqMonotonic
<1>9. ToSet(kept) = At(recs, I \ (1..c))
    <2>1. \A k \in K : page[k] = recs[c + k] /\ c + k \in I \ (1..c)
        BY <1>1, <1>2, <1>4, <1>7
    <2>2. \A i \in I \ (1..c) : i - c \in K /\ page[i - c] = recs[i]
        <3> SUFFICES ASSUME NEW i \in I \ (1..c) PROVE i - c \in K /\ page[i - c] = recs[i]
            OBVIOUS
        <3>1. i \in 1..n /\ i - c \in 1..n - c /\ c + (i - c) = i
            BY <1>1
        <3> QED BY <3>1, <1>2, <1>7
    <2>3. \A v \in At(page, K) : v \in At(recs, I \ (1..c))
        BY <2>1 DEF At
    <2>4. \A v \in At(recs, I \ (1..c)) : v \in At(page, K)
        BY <2>2 DEF At
    <2> QED BY <1>6, <2>3, <2>4
<1>10. PICK L : L = P \ K
    OBVIOUS
<1>11. IsFiniteSet(L) /\ Cardinality(L) = n - c - Cardinality(K)
    <2>1. IsFiniteSet(L) /\ Cardinality(L) = Cardinality(P) - Cardinality(P \cap K)
        BY <1>3, <1>5, <1>10, FS_Difference
    <2>2. P \cap K = K
        BY <1>4
    <2> QED BY <2>1, <2>2, <1>3
<1>12. PICK h : h = [k \in P |-> c + k]
    OBVIOUS
<1>13. PICK B : B = {h[k] : k \in L}
    OBVIOUS
<1>14. IsFiniteSet(B) /\ Cardinality(B) = Cardinality(L)
    <2>1. \A x, y \in L : h[x] = h[y] => x = y
        BY <1>1, <1>2, <1>10, <1>12
    <2> QED BY <1>11, <1>13, <2>1, CountImage
<1>15. PICK A : A = (1..c) \ I
    OBVIOUS
<1>16. IsFiniteSet(A)
    <2>1. IsFiniteSet(1..c) /\ A \in SUBSET (1..c)
        BY <1>1, <1>15, FS_Interval
    <2> QED BY <2>1, FS_Subset
<1>17. A \cap B = {} /\ A \cup B = (1..n) \ I
    <2>1. \A k \in L : h[k] \in ((1..n) \ I) \ (1..c)
        BY <1>1, <1>2, <1>10, <1>12
    <2>2. \A i \in ((1..n) \ I) \ (1..c) : i - c \in L /\ h[i - c] = i
        BY <1>1, <1>2, <1>10, <1>12
    <2>3. \A i \in (1..c) : i \in 1..n
        BY <1>1
    <2>4. B = ((1..n) \ I) \ (1..c)
        BY <1>13, <2>1, <2>2
    <2> QED BY <1>15, <2>3, <2>4
<1>18. Cardinality(A \cup B) = Cardinality(A) + Cardinality(B)
    <2>1. Cardinality(A \cup B) = Cardinality(A) + Cardinality(B) - Cardinality(A \cap B)
        BY <1>14, <1>16, FS_Union
    <2>2. Cardinality(A \cap B) = 0
        BY <1>17, FS_EmptySet
    <2>3. Cardinality(A) \in Nat /\ Cardinality(B) \in Nat
        BY <1>14, <1>16, FS_CardinalityType
    <2> QED BY <2>1, <2>2, <2>3
<1>19. PICK N : N = (1..n) \ I
    OBVIOUS
<1>20. Cardinality(N) = Cardinality(A) + (n - c - Cardinality(K))
    BY <1>11, <1>14, <1>17, <1>18, <1>19
<1>21. Cardinality(A) \in Nat
    BY <1>16, FS_CardinalityType
<1>22. Cardinality((1..n) \ I) = Cardinality((1..c) \ I) + Len(page) - Len(kept)
    BY <1>1, <1>5, <1>6, <1>15, <1>19, <1>20, <1>21
<1>23. Len(page) - Len(kept) \in Nat
    BY <1>1, <1>5, <1>6
<1> QED BY <1>8, <1>9, <1>22, <1>23 DEF KeptFrom

-----------------------------------------------------------------------------
(***************************************************************************)
(* Steps that leave what the invariant looks at alone, and failures.       *)
(***************************************************************************)
SameProgress ==
    /\ worker'.metadata = worker.metadata /\ worker'.isolated = worker.isolated
    /\ worker'.bytes = worker.bytes /\ worker'.quality = worker.quality
SameRows ==
    /\ candidate'.exists = candidate.exists /\ candidate'.nodes = candidate.nodes
    /\ candidate'.edges = candidate.edges /\ candidate'.status = candidate.status
    /\ candidate'.stats = candidate.stats /\ candidate'.quality = candidate.quality

LEMMA ProgressKept ==
    ASSUME SameProgress
    PROVE  /\ \A s, n : ArtifactsRead(s, n)' <=> ArtifactsRead(s, n)
           /\ \A s, n : RelationsRead(s, n)' <=> RelationsRead(s, n)
           /\ \A s, n, k : BytesRead(s, n, k)' <=> BytesRead(s, n, k)
           /\ QualityRefused' <=> QualityRefused
           /\ Quality' = Quality
<1>1. \A s, n : ArtifactsRead(s, n)' <=> ArtifactsRead(s, n)
    BY DEF SameProgress, ArtifactsRead
<1>2. \A s, n : RelationsRead(s, n)' <=> RelationsRead(s, n)
    BY DEF SameProgress, RelationsRead
<1>3. \A s, n, k : BytesRead(s, n, k)' <=> BytesRead(s, n, k)
    BY DEF SameProgress, BytesRead
<1>4. (QualityRefused' <=> QualityRefused) /\ Quality' = Quality
    BY DEF SameProgress, QualityRefused, Quality
<1> QED BY <1>1, <1>2, <1>3, <1>4

LEMMA RowsKept ==
    ASSUME SameProgress, SameRows
    PROVE  /\ \A s : AllArtifacts(s)' <=> AllArtifacts(s)
           /\ \A s : AllRelations(s)' <=> AllRelations(s)
           /\ EndpointsWritten' <=> EndpointsWritten
           /\ \A s : Everything(s)' <=> Everything(s)
<1>1. \A s : AllArtifacts(s)' <=> AllArtifacts(s)
    BY ProgressKept DEF AllArtifacts, SameRows
<1>2. \A s : AllRelations(s)' <=> AllRelations(s)
    BY ProgressKept DEF AllRelations, SameRows
<1>3. EndpointsWritten' <=> EndpointsWritten
    BY DEF EndpointsWritten, SameRows
<1>4. \A s : Everything(s)' <=> Everything(s)
    BY <1>1, <1>2, <1>3, ProgressKept DEF Everything
<1> QED BY <1>1, <1>2, <1>3, <1>4

LEMMA SameView ==
    ASSUME DataInv, DataTypes', SameProgress, SameRows, UNCHANGED <<source, replaced>>,
           worker'.pc = worker.pc, worker'.cursor = worker.cursor, worker'.pending = worker.pending
    PROVE  DataInv'
<1>1. OneResult'
    BY DEF OneResult, DataInv, SameProgress
<1>2. NothingPending'
    BY DEF NothingPending, DataInv
<1>3. AtStart'
    BY DEF AtStart, DataInv, SameProgress, SameRows
<1>4. InArtifacts'
    BY ProgressKept DEF InArtifacts, DataInv, SameProgress, SameRows, Stored
<1>5. AtComplete'
    BY ProgressKept, RowsKept DEF AtComplete, DataInv, SameProgress, SameRows
<1>6. InRelations'
    BY ProgressKept, RowsKept DEF InRelations, DataInv, SameProgress, SameRows, Stored
<1>7. AtEnd'
    BY RowsKept DEF AtEnd, DataInv, SameProgress
<1>8. SealedIsEverything'
    BY ProgressKept, RowsKept DEF SealedIsEverything, DataInv, SameProgress, SameRows
<1> QED BY <1>1, <1>2, <1>3, <1>4, <1>5, <1>6, <1>7, <1>8 DEF DataInv

LEMMA FailedView ==
    ASSUME DataInv, DataTypes', SameProgress, UNCHANGED <<source, replaced>>,
           worker'.pc \in Failures, worker'.pending = <<>>,
           \/ SameRows
           \/ ~candidate'.exists \/ candidate'.status = "STAGING"
    PROVE  DataInv'
<1>1. OneResult'
    BY DEF OneResult, DataInv, SameProgress
<1>2. NothingPending'
    BY DEF NothingPending
<1>3. AtStart' /\ InArtifacts' /\ AtComplete' /\ InRelations' /\ AtEnd'
    BY DEF AtStart, InArtifacts, AtComplete, InRelations, AtEnd, Failures
<1>4. SealedIsEverything'
    <2>1. CASE SameRows
        BY <2>1, ProgressKept, RowsKept DEF SealedIsEverything, DataInv, SameProgress, SameRows
    <2>2. CASE ~candidate'.exists \/ candidate'.status = "STAGING"
        BY <2>2 DEF SealedIsEverything
    <2> QED BY <2>1, <2>2
<1> QED BY <1>1, <1>2, <1>3, <1>4 DEF DataInv

LEMMA DeletedView ==
    ASSUME DataInv, DataTypes', UNCHANGED <<source, replaced, worker>>, candidate' = NoCandidate
    PROVE  DataInv'
<1>0. SameProgress
    BY DEF SameProgress
<1>1. OneResult' /\ NothingPending'
    BY DEF OneResult, DataInv, NothingPending
<1>2. /\ ~candidate'.exists /\ candidate'.nodes = {} /\ candidate'.edges = {} /\ candidate'.status = "STAGING"
    BY DEF NoCandidate
<1>3. AtStart'
    BY <1>2 DEF AtStart, DataInv
<1>4. InArtifacts'
    BY <1>0, <1>2, ProgressKept DEF InArtifacts, DataInv, Stored
<1>5. \A s : AllArtifacts(s) => AllArtifacts(s)'
    BY <1>0, <1>2, ProgressKept DEF AllArtifacts
<1>6. \A s : AllRelations(s) => AllRelations(s)'
    BY <1>0, <1>2, ProgressKept DEF AllRelations
<1>7. EndpointsWritten'
    BY <1>2 DEF EndpointsWritten
<1>8. \A s : Everything(s) => Everything(s)'
    BY <1>0, <1>5, <1>6, <1>7, ProgressKept DEF Everything
<1>9. AtComplete'
    BY <1>0, <1>2, <1>5, ProgressKept DEF AtComplete, DataInv
<1>10. InRelations'
    BY <1>0, <1>2, <1>5, <1>7, ProgressKept DEF InRelations, DataInv, Stored
<1>11. AtEnd'
    BY <1>8 DEF AtEnd, DataInv
<1>12. SealedIsEverything'
    BY <1>2 DEF SealedIsEverything
<1> QED BY <1>1, <1>3, <1>4, <1>9, <1>10, <1>11, <1>12 DEF DataInv


LEMMA FailSteps ==
    ASSUME DataInv, NEW why \in Failures, Fail(why), UNCHANGED <<source, replaced, lease>>,
           candidate' \in Candidates,
           candidate' = candidate \/ ~candidate'.exists \/ candidate'.status = "STAGING"
    PROVE  DataInv'
<1>1. DataTypes /\ worker \in Workers
    BY DEF DataInv, DataTypes
<1>2. worker' \in Workers
    <2>1. <<>> \in Seq(Records)
        BY EmptySeq
    <2>2. worker' = [worker EXCEPT !.pc = why, !.pending = <<>>, !.checked = FALSE]
        BY DEF Fail
    <2> QED BY <1>1, <2>1, <2>2 DEF Workers
<1>3. SameProgress /\ worker'.pc = why /\ worker'.pending = <<>>
    BY <1>1 DEF Fail, Workers, SameProgress
<1>4. DataTypes'
    BY <1>1, <1>2 DEF DataTypes
<1>5. SameRows \/ ~candidate'.exists \/ candidate'.status = "STAGING"
    BY DEF SameRows
<1> QED BY <1>3, <1>4, <1>5, FailedView

LEMMA RetryOutcome ==
    ASSUME worker \in Workers, NEW attempts, Retried(attempts)
    PROVE  \/ Fail("retryable")
           \/ /\ worker' \in Workers /\ SameProgress /\ worker'.pc = worker.pc
              /\ worker'.cursor = worker.cursor /\ worker'.pending = worker.pending
<1> SUFFICES ASSUME worker' = [worker EXCEPT !.tries = @ + 1, !.checked = FALSE]
             PROVE  /\ worker' \in Workers /\ SameProgress /\ worker'.pc = worker.pc
                    /\ worker'.cursor = worker.cursor /\ worker'.pending = worker.pending
    BY DEF Retried
<1>1. worker.tries \in Nat
    BY DEF Workers
<1>2. PICK t \in Nat : t = worker.tries + 1
    BY <1>1
<1>3. worker' = [worker EXCEPT !.tries = t, !.checked = FALSE]
    BY <1>2
<1> QED BY <1>3 DEF Workers, SameProgress

LEMMA RetrySteps ==
    ASSUME DataInv, NEW attempts, Retried(attempts), UNCHANGED <<source, replaced, lease, candidate>>
    PROVE  DataInv'
<1>1. DataTypes /\ worker \in Workers /\ candidate' \in Candidates
    BY DEF DataInv, DataTypes
<1>2. CASE Fail("retryable")
    BY <1>1, <1>2, FailSteps DEF Failures
<1>3. CASE ~Fail("retryable")
    <2>1. /\ worker' \in Workers /\ SameProgress /\ worker'.pc = worker.pc
          /\ worker'.cursor = worker.cursor /\ worker'.pending = worker.pending
        BY <1>1, <1>3, RetryOutcome
    <2>2. DataTypes' /\ SameRows
        BY <1>1, <2>1 DEF DataTypes, SameRows
    <2> QED BY <2>1, <2>2, SameView
<1> QED BY <1>2, <1>3

(* The steps that read, check or lose something without a new row.         *)
LEMMA QuietSteps ==
    ASSUME DataInv,
           PageUnavailable \/ ReplaceResult \/ LoseLease \/ Cancelled \/ LeaseRefused \/ CheckStage \/ Activate
    PROVE  DataInv'
<1>1. DataTypes /\ worker \in Workers /\ candidate \in Candidates
    BY DEF DataInv, DataTypes
<1>2. CASE PageUnavailable
    BY <1>2, RetrySteps DEF PageUnavailable
<1>3. CASE ReplaceResult
    <2>1. DataTypes' /\ OneResult'
        BY <1>1, <1>3 DEF ReplaceResult, DataTypes, OneResult, DataInv
    <2>2. SameProgress /\ SameRows /\ worker' = worker
        BY <1>3 DEF ReplaceResult, SameProgress, SameRows
    <2>3. NothingPending' /\ AtStart'
        BY <1>3 DEF ReplaceResult, NothingPending, AtStart, DataInv
    <2>4. InArtifacts' /\ AtComplete'
        BY <2>2, ProgressKept, RowsKept DEF InArtifacts, AtComplete, DataInv, SameRows, Stored
    <2>5. InRelations'
        BY <2>2, ProgressKept, RowsKept DEF InRelations, DataInv, SameRows, Stored
    <2>6. AtEnd' /\ SealedIsEverything'
        BY <2>2, ProgressKept, RowsKept DEF AtEnd, SealedIsEverything, DataInv, SameRows
    <2> QED BY <2>1, <2>3, <2>4, <2>5, <2>6 DEF DataInv
<1>4. CASE LoseLease
    <2>1. DataTypes' /\ SameProgress /\ SameRows
        BY <1>1, <1>4 DEF LoseLease, DataTypes, SameProgress, SameRows
    <2> QED BY <1>4, <2>1, SameView DEF LoseLease
<1>5. CASE Cancelled \/ LeaseRefused
    <2>1. Fail("lease") /\ UNCHANGED <<source, replaced, lease, candidate>>
        BY <1>5 DEF Cancelled, LeaseRefused
    <2> QED BY <1>1, <2>1, FailSteps DEF Failures
<1>6. CASE CheckStage
    <2>1. CASE Fail("invalid")
        BY <1>1, <1>6, <2>1, FailSteps DEF CheckStage, Failures
    <2>2. CASE worker' = [worker EXCEPT !.checked = TRUE]
        <3>1. worker' \in Workers
            BY <1>1, <2>2 DEF Workers
        <3>2. SameProgress /\ worker'.pc = worker.pc /\ worker'.cursor = worker.cursor /\ worker'.pending = worker.pending
            BY <1>1, <2>2 DEF Workers, SameProgress
        <3>3. DataTypes' /\ SameRows /\ UNCHANGED <<source, replaced>>
            BY <1>1, <1>6, <3>1 DEF DataTypes, SameRows, CheckStage
        <3> QED BY <3>2, <3>3, SameView
    <2> QED BY <1>6, <2>1, <2>2 DEF CheckStage
<1>7. CASE Activate
    <2>0. worker' = [worker EXCEPT !.pc = "active"] /\ worker.pc = "activate"
          /\ UNCHANGED <<source, replaced, lease, candidate>>
        BY <1>7 DEF Activate
    <2>1. worker' \in Workers
        BY <1>1, <2>0 DEF Workers
    <2>2. SameProgress /\ worker'.pc = "active" /\ worker'.pending = worker.pending
        BY <1>1, <2>0 DEF Workers, SameProgress
    <2>3. DataTypes' /\ SameRows
        BY <1>1, <2>0, <2>1 DEF DataTypes, SameRows
    <2>4. OneResult' /\ NothingPending'
        BY <2>0, <2>2 DEF OneResult, NothingPending, DataInv, SameProgress
    <2>5. AtStart' /\ InArtifacts' /\ AtComplete' /\ InRelations'
        BY <2>2 DEF AtStart, InArtifacts, AtComplete, InRelations
    <2>6. AtEnd'
        BY <2>0, <2>2, <2>3, RowsKept DEF AtEnd, DataInv, SameProgress
    <2>7. SealedIsEverything'
        BY <2>0, <2>2, <2>3, ProgressKept, RowsKept DEF SealedIsEverything, DataInv, SameProgress, SameRows
    <2> QED BY <2>3, <2>4, <2>5, <2>6, <2>7 DEF DataInv
<1> QED BY <1>2, <1>3, <1>4, <1>5, <1>6, <1>7


LEMMA NothingRead ==
    ASSUME NEW s \in Results
    PROVE  /\ CheckedUpTo(s.artifacts, 0) /\ CheckedUpTo(s.relations, 0)
           /\ GoodArtifacts(s, 0) = {} /\ BadArtifacts(s, 0) = {}
           /\ GoodRelations(s, 0) = {} /\ BadRelations(s, 0) = {}
           /\ Total(Sizes(s.artifacts), 1..0) = 0 /\ Total(Sizes(s.relations), 1..0) = 0
           /\ Cardinality({}) = 0 /\ \A q : At(q, {}) = {}
<1>1. 1..0 = {}
    OBVIOUS
<1>2. Cardinality({}) = 0
    BY FS_EmptySet
<1>3. \A q : At(q, {}) = {}
    BY DEF At
<1>4. Total(Sizes(s.artifacts), 1..0) = 0 /\ Total(Sizes(s.relations), 1..0) = 0
    BY <1>1, TotalEmpty
<1>5. s.artifacts \in Seq(Artifacts) /\ s.relations \in Seq(Relations)
    BY ResultsAssumption
<1>6. CheckedUpTo(s.artifacts, 0) /\ CheckedUpTo(s.relations, 0)
    BY <1>5 DEF CheckedUpTo
<1> QED BY <1>2, <1>3, <1>4, <1>6 DEF GoodArtifacts, BadArtifacts, GoodRelations, BadRelations

LEMMA InitData == Init => DataInv
<1> SUFFICES ASSUME Init PROVE DataInv
    OBVIOUS
<1>1. <<>> \in Seq(Records)
    BY EmptySeq
<1>2. worker \in Workers /\ candidate \in Candidates
    BY <1>1 DEF Init, Workers, Candidates, NoTally, NoCandidate, Tallies
<1>3. DataTypes /\ OneResult /\ NothingPending /\ AtStart
    BY <1>2 DEF Init, DataTypes, OneResult, NothingPending, AtStart, NoCandidate
<1>4. InArtifacts /\ AtComplete /\ InRelations /\ AtEnd /\ SealedIsEverything
    BY DEF Init, InArtifacts, AtComplete, InRelations, AtEnd, SealedIsEverything, NoCandidate
<1> QED BY <1>3, <1>4 DEF DataInv

LEMMA ReadMetadataStep == DataInv /\ ReadMetadata => DataInv'
<1> SUFFICES ASSUME DataInv, ReadMetadata PROVE DataInv'
    OBVIOUS
<1>1. DataTypes /\ worker \in Workers /\ candidate \in Candidates
    BY DEF DataInv, DataTypes
<1>2. worker.pc = "metadata" /\ UNCHANGED <<source, replaced, lease, candidate>>
    BY DEF ReadMetadata
<1>3. CASE Fail("changed") \/ Fail("invalid")
    BY <1>1, <1>2, <1>3, FailSteps DEF Failures
<1>4. CASE /\ worker' = [worker EXCEPT !.pc = "create", !.tries = 0, !.metadata = source]
           /\ source.matches /\ ~(source.artifactCount > MaxArtifacts \/ source.relationCount > MaxRelations)
    <2>1. worker' \in Workers
        BY <1>1, <1>4 DEF Workers, DataTypes
    <2>2. worker'.pc = "create" /\ worker'.metadata = source /\ worker'.cursor = worker.cursor
          /\ worker'.pending = worker.pending /\ worker'.isolated = worker.isolated
          /\ worker'.bytes = worker.bytes /\ worker'.quality = worker.quality
        BY <1>1, <1>4 DEF Workers
    <2>3. DataTypes' /\ OneResult' /\ NothingPending'
        BY <1>1, <1>2, <2>1, <2>2 DEF DataTypes, OneResult, NothingPending, DataInv
    <2>4. Fits(source)
        <3>1. {source.artifactCount, source.relationCount, MaxArtifacts, MaxRelations} \subseteq Nat
            BY <1>1, ResultsAssumption, CandidateAssumption DEF DataTypes
        <3> QED BY <1>4, <3>1 DEF Fits
    <2>5. AtStart'
        BY <1>2, <2>2, <2>4 DEF AtStart, DataInv, Fits
    <2>6. InArtifacts' /\ AtComplete' /\ InRelations' /\ AtEnd'
        BY <2>2 DEF InArtifacts, AtComplete, InRelations, AtEnd
    <2>7. SealedIsEverything'
        BY <1>2 DEF SealedIsEverything, AtStart, DataInv
    <2> QED BY <2>3, <2>5, <2>6, <2>7 DEF DataInv
<1> QED BY <1>3, <1>4 DEF ReadMetadata

LEMMA CreateCandidateStep == DataInv /\ CreateCandidate => DataInv'
<1> SUFFICES ASSUME DataInv, CreateCandidate PROVE DataInv'
    OBVIOUS
<1>1. DataTypes /\ worker \in Workers /\ candidate \in Candidates
    BY DEF DataInv, DataTypes
<1>2. worker.pc = "create" /\ UNCHANGED <<source, replaced, lease>>
    BY DEF CreateCandidate
<1>3. /\ candidate'.nodes = {} /\ candidate'.edges = {} /\ candidate'.status = "STAGING"
      /\ candidate' \in Candidates
    <2>1. candidate' \in {candidate, [candidate EXCEPT !.exists = TRUE]}
        BY DEF CreateCandidate
    <2>2. candidate.nodes = {} /\ candidate.edges = {} /\ candidate.status = "STAGING"
        BY <1>2 DEF AtStart, DataInv
    <2> QED BY <1>1, <2>1, <2>2 DEF Candidates
<1>4. CASE Fail("retryable")
    BY <1>1, <1>2, <1>3, <1>4, FailSteps DEF Failures
<1>5. ASSUME worker' \in Workers, SameProgress, worker'.pc \in {"create", "read artifacts"},
             worker'.cursor = worker.cursor, worker'.pending = worker.pending
      PROVE  DataInv'
    <2>1. DataTypes' /\ OneResult' /\ NothingPending'
        BY <1>1, <1>2, <1>3, <1>5 DEF DataTypes, OneResult, NothingPending, DataInv, SameProgress
    <2>2. AtStart'
        BY <1>2, <1>3, <1>5 DEF AtStart, DataInv, SameProgress
    <2>3. InArtifacts'
        <3>1. PICK s \in Results : s = worker.metadata
            BY <1>1 DEF Workers
        <3>2. ArtifactsRead(s, 0) /\ BytesRead(s, 0, 0)
            <4>1. worker.isolated = {} /\ worker.quality = NoTally /\ worker.bytes = 0
                BY <1>2 DEF AtStart, DataInv
            <4>2. NoTally.invalidArtifacts = 0 /\ 0 <= MaxRevisionBytes
                BY CandidateAssumption DEF NoTally
            <4> QED BY <4>1, <4>2, NothingRead DEF ArtifactsRead, BytesRead
        <3>3. worker.cursor = 0 /\ worker.pending = <<>> /\ Fits(s) /\ worker.quality.invalidRelations = 0
            BY <1>2, <3>1 DEF AtStart, DataInv, NothingPending, NoTally
        <3>4. Stored(candidate.nodes, At(s.artifacts, GoodArtifacts(s, worker.cursor)))'
            <4>1. ToSet(<<>>) = {}
                BY DEF ToSet
            <4>2. worker'.cursor = 0 /\ worker'.pending = <<>>
                BY <3>3, <1>5
            <4> QED BY <1>3, <3>3, <4>1, <4>2, NothingRead DEF Stored
        <3>5. ArtifactsRead(s, 0)' /\ BytesRead(s, 0, 0)'
            BY <1>5, <3>2, ProgressKept
        <3>6. worker'.metadata = s /\ worker'.cursor = 0 /\ worker'.quality.invalidRelations = 0
            BY <1>5, <3>1, <3>3 DEF SameProgress
        <3> QED BY <1>3, <3>3, <3>4, <3>5, <3>6 DEF InArtifacts
    <2>4. AtComplete' /\ InRelations' /\ AtEnd'
        BY <1>5 DEF AtComplete, InRelations, AtEnd
    <2>5. SealedIsEverything'
        BY <1>3 DEF SealedIsEverything
    <2> QED BY <2>1, <2>2, <2>3, <2>4, <2>5 DEF DataInv
<1>6. CASE Retried(BatchAttempts)
    BY <1>1, <1>2, <1>4, <1>5, <1>6, RetryOutcome
<1>7. CASE worker' = [worker EXCEPT !.pc = "read artifacts", !.tries = 0]
    <2>1. worker' \in Workers /\ SameProgress /\ worker'.pc = "read artifacts"
          /\ worker'.cursor = worker.cursor /\ worker'.pending = worker.pending
        BY <1>1, <1>7 DEF Workers, SameProgress
    <2> QED BY <1>5, <2>1
<1> QED BY <1>6, <1>7 DEF CreateCandidate


LEMMA WholeResult ==
    ASSUME NEW s \in Results
    PROVE  /\ At(s.artifacts, GoodArtifacts(s, Len(s.artifacts))) = WantedNodes(s)
           /\ {a.id : a \in At(s.artifacts, BadArtifacts(s, Len(s.artifacts)))} = LeftOut(s)
           /\ At(s.relations, GoodRelations(s, Len(s.relations))) = WantedEdges(s)
<1>1. s.artifacts \in Seq(Artifacts) /\ s.relations \in Seq(Relations)
    BY ResultsAssumption
<1>2. PICK A \in Seq(Artifacts) : A = s.artifacts
    BY <1>1
<1>3. PICK R \in Seq(Relations) : R = s.relations
    BY <1>1
<1>4. ToSet(A) = {A[i] : i \in 1..Len(A)}
    <2>1. DOMAIN A = 1..Len(A)
        OBVIOUS
    <2> QED BY <2>1 DEF ToSet
<1>5. ToSet(R) = {R[i] : i \in 1..Len(R)}
    <2>1. DOMAIN R = 1..Len(R)
        OBVIOUS
    <2> QED BY <2>1 DEF ToSet
<1>6. \A a : a \in WantedNodes(s) <=> \E i \in 1..Len(A) : A[i].valid /\ a = A[i]
    BY <1>2, <1>4 DEF WantedNodes
<1>7. \A a : a \in At(A, GoodArtifacts(s, Len(A))) <=> \E i \in 1..Len(A) : A[i].valid /\ a = A[i]
    BY <1>2 DEF At, GoodArtifacts
<1>8. \A a : (a \in ToSet(A) /\ ~a.valid) <=> \E i \in 1..Len(A) : ~A[i].valid /\ a = A[i]
    BY <1>4
<1>9. \A a : a \in At(A, BadArtifacts(s, Len(A))) <=> \E i \in 1..Len(A) : ~A[i].valid /\ a = A[i]
    BY <1>2 DEF At, BadArtifacts
<1>10. {b \in ToSet(A) : ~b.valid} = At(A, BadArtifacts(s, Len(A)))
    BY <1>8, <1>9
<1>11. LeftOut(s) = {a.id : a \in At(A, BadArtifacts(s, Len(A)))}
    BY <1>2, <1>10 DEF LeftOut
<1>12. PICK L : L = LeftOut(s)
    OBVIOUS
<1>13. \A r : r \in WantedEdges(s) <=>
           \E i \in 1..Len(R) : R[i].valid /\ References(R[i]) \cap L = {} /\ r = R[i]
    BY <1>3, <1>5, <1>12 DEF WantedEdges
<1>14. \A r : r \in At(R, GoodRelations(s, Len(R))) <=>
           \E i \in 1..Len(R) : R[i].valid /\ References(R[i]) \cap L = {} /\ r = R[i]
    BY <1>3, <1>12 DEF At, GoodRelations
<1>15. At(A, GoodArtifacts(s, Len(A))) = WantedNodes(s)
    <2>1. PICK X, Y : X = At(A, GoodArtifacts(s, Len(A))) /\ Y = WantedNodes(s)
        OBVIOUS
    <2>2. \A a : a \in X <=> a \in Y
        BY <1>6, <1>7, <2>1
    <2> QED BY <2>1, <2>2
<1>16. At(R, GoodRelations(s, Len(R))) = WantedEdges(s)
    <2>1. PICK X, Y : X = At(R, GoodRelations(s, Len(R))) /\ Y = WantedEdges(s)
        OBVIOUS
    <2>2. \A r : r \in X <=> r \in Y
        BY <1>13, <1>14, <2>1
    <2> QED BY <2>1, <2>2
<1> QED BY <1>2, <1>3, <1>11, <1>15, <1>16

LEMMA ArtifactsWrittenStep == DataInv /\ ArtifactsWritten => DataInv'
<1> SUFFICES ASSUME DataInv, ArtifactsWritten PROVE DataInv'
    OBVIOUS
<1>1. DataTypes /\ worker \in Workers /\ candidate \in Candidates
    BY DEF DataInv, DataTypes
<1>2. /\ worker.pc = "write artifacts" /\ worker.pending = <<>>
      /\ UNCHANGED <<source, replaced, lease, candidate>> /\ SameRows
    BY DEF ArtifactsWritten, SameRows
<1>3. CASE Fail("changed")
    BY <1>1, <1>2, <1>3, FailSteps DEF Failures
<1>4. CASE worker' = [worker EXCEPT !.pc = "read artifacts", !.tries = 0]
    <2>1. /\ worker' \in Workers /\ SameProgress /\ worker'.pc = "read artifacts"
          /\ worker'.cursor = worker.cursor /\ worker'.pending = worker.pending
        BY <1>1, <1>4 DEF Workers, SameProgress
    <2>2. DataTypes' /\ OneResult' /\ NothingPending'
        BY <1>1, <1>2, <2>1 DEF DataTypes, OneResult, NothingPending, DataInv, SameProgress
    <2>3. InArtifacts'
        BY <1>2, <2>1, ProgressKept DEF InArtifacts, DataInv, SameProgress, SameRows, Stored
    <2>4. AtStart' /\ AtComplete' /\ InRelations' /\ AtEnd'
        BY <2>1 DEF AtStart, AtComplete, InRelations, AtEnd
    <2>5. SealedIsEverything'
        BY <1>2 DEF SealedIsEverything, InArtifacts, DataInv
    <2> QED BY <2>2, <2>3, <2>4, <2>5 DEF DataInv
<1>5. CASE /\ worker' = [worker EXCEPT !.pc = "complete", !.tries = 0, !.cursor = 0]
           /\ worker.cursor = worker.metadata.artifactCount /\ LastPage(worker.metadata.artifacts)
    <2>1. /\ worker' \in Workers /\ SameProgress /\ worker'.pc = "complete"
          /\ worker'.cursor = 0 /\ worker'.pending = worker.pending
        BY <1>1, <1>5 DEF Workers, SameProgress
    <2>2. DataTypes' /\ OneResult' /\ NothingPending'
        BY <1>1, <1>2, <2>1 DEF DataTypes, OneResult, NothingPending, DataInv, SameProgress
    <2>3. AtComplete'
        <3>1. PICK s \in Results : s = worker.metadata
            BY <1>1 DEF Workers
        <3>2. /\ Fits(s) /\ ArtifactsRead(s, worker.cursor) /\ BytesRead(s, worker.cursor, 0)
              /\ Stored(candidate.nodes, At(s.artifacts, GoodArtifacts(s, worker.cursor)))
              /\ candidate.edges = {} /\ candidate.status = "STAGING" /\ worker.quality.invalidRelations = 0
            BY <1>2, <3>1 DEF InArtifacts, DataInv
        <3>3. worker.cursor = Len(s.artifacts) /\ Len(s.artifacts) = s.artifactCount
            <4>1. s.artifacts \in Seq(Artifacts) /\ worker.cursor \in 0..Len(s.artifacts)
                BY <3>2, ResultsAssumption DEF ArtifactsRead, CheckedUpTo
            <4> QED BY <1>5, <3>1, <4>1 DEF LastPage
        <3>4. AllArtifacts(s)
            <4>1. candidate.exists => candidate.nodes = WantedNodes(s)
                <5>1. ToSet(<<>>) = {}
                    BY DEF ToSet
                <5> QED BY <1>2, <3>2, <3>3, <5>1, WholeResult DEF Stored
            <4> QED BY <3>2, <3>3, <4>1 DEF AllArtifacts
        <3>5. AllArtifacts(s)' /\ BytesRead(s, Len(s.artifacts), 0)'
            BY <1>2, <2>1, <3>2, <3>3, <3>4, RowsKept, ProgressKept
        <3> QED BY <1>2, <2>1, <3>1, <3>2, <3>5 DEF AtComplete, SameProgress
    <2>4. AtStart' /\ InArtifacts' /\ InRelations' /\ AtEnd'
        BY <2>1 DEF AtStart, InArtifacts, InRelations, AtEnd
    <2>5. SealedIsEverything'
        BY <1>2 DEF SealedIsEverything, InArtifacts, DataInv
    <2> QED BY <2>2, <2>3, <2>4, <2>5 DEF DataInv
<1> QED BY <1>3, <1>4, <1>5 DEF ArtifactsWritten, TurnPage

LEMMA DeleteCandidateStep == DataInv /\ DeleteCandidate => DataInv'
<1> SUFFICES ASSUME DataInv, DeleteCandidate PROVE DataInv'
    OBVIOUS
<1>1. DataTypes /\ NoCandidate \in Candidates
    BY DEF DataInv, Candidates, NoCandidate, NoTally, Tallies
<1>2. DataTypes' /\ candidate' = NoCandidate /\ UNCHANGED <<source, replaced, worker>>
    BY <1>1 DEF DeleteCandidate, DataTypes
<1> QED BY <1>2, DeletedView

LEMMA CompleteArtifactStageStep == DataInv /\ CompleteArtifactStage => DataInv'
<1> SUFFICES ASSUME DataInv, CompleteArtifactStage PROVE DataInv'
    OBVIOUS
<1>1. DataTypes /\ worker \in Workers /\ candidate \in Candidates
    BY DEF DataInv, DataTypes
<1>2. worker.pc = "complete" /\ UNCHANGED <<source, replaced, lease>>
    BY DEF CompleteArtifactStage
<1>3. candidate' \in Candidates /\ SameRows /\ candidate'.status = "STAGING" /\ candidate'.edges = {}
    <2>1. candidate' \in {candidate, [candidate EXCEPT !.stage = "COMPLETE"]}
        BY DEF CompleteArtifactStage
    <2>2. candidate.status = "STAGING" /\ candidate.edges = {}
        BY <1>2 DEF AtComplete, DataInv
    <2> QED BY <1>1, <2>1, <2>2 DEF Candidates, SameRows
<1>4. CASE Fail("retryable") \/ Fail("invalid")
    BY <1>2, <1>3, <1>4, FailSteps DEF Failures
<1>5. CASE Retried(BatchAttempts)
    <2>1. CASE ~Fail("retryable")
        <3>1. /\ worker' \in Workers /\ SameProgress /\ worker'.pc = worker.pc
              /\ worker'.cursor = worker.cursor /\ worker'.pending = worker.pending
            BY <1>1, <1>5, <2>1, RetryOutcome
        <3>2. DataTypes'
            BY <1>1, <1>2, <1>3, <3>1 DEF DataTypes
        <3> QED BY <1>2, <1>3, <3>1, <3>2, SameView
    <2> QED BY <1>4, <2>1
<1>6. CASE worker' = [worker EXCEPT !.pc = "read relations", !.tries = 0]
    <2>1. /\ worker' \in Workers /\ SameProgress /\ worker'.pc = "read relations"
          /\ worker'.cursor = worker.cursor /\ worker'.pending = worker.pending
        BY <1>1, <1>6 DEF Workers, SameProgress
    <2>2. DataTypes' /\ OneResult' /\ NothingPending'
        BY <1>1, <1>2, <1>3, <2>1 DEF DataTypes, OneResult, NothingPending, DataInv, SameProgress
    <2>3. InRelations'
        <3>1. PICK s \in Results : s = worker.metadata
            BY <1>1 DEF Workers
        <3>2. /\ Fits(s) /\ AllArtifacts(s) /\ BytesRead(s, Len(s.artifacts), 0) /\ worker.cursor = 0
              /\ worker.pending = <<>> /\ worker.quality.invalidRelations = 0
            BY <1>2, <3>1 DEF AtComplete, DataInv, NothingPending
        <3>3. RelationsRead(s, 0)
            BY <3>2, NothingRead DEF RelationsRead
        <3>4. AllArtifacts(s)' /\ RelationsRead(s, 0)' /\ BytesRead(s, Len(s.artifacts), 0)'
            BY <1>3, <2>1, <3>2, <3>3, RowsKept, ProgressKept
        <3>5. Stored(candidate.edges, At(s.relations, GoodRelations(s, worker.cursor)))'
            <4>1. ToSet(<<>>) = {}
                BY DEF ToSet
            <4>2. worker'.cursor = 0 /\ worker'.pending = <<>>
                BY <2>1, <3>2
            <4> QED BY <1>3, <4>1, <4>2, NothingRead DEF Stored
        <3>6. EndpointsWritten'
            BY <1>3 DEF EndpointsWritten
        <3>7. worker'.metadata = s /\ worker'.cursor = 0
            BY <2>1, <3>1, <3>2 DEF SameProgress
        <3> QED BY <1>3, <3>2, <3>4, <3>5, <3>6, <3>7 DEF InRelations
    <2>4. AtStart' /\ InArtifacts' /\ AtComplete' /\ AtEnd'
        BY <2>1 DEF AtStart, InArtifacts, AtComplete, AtEnd
    <2>5. SealedIsEverything'
        BY <1>3 DEF SealedIsEverything
    <2> QED BY <2>2, <2>3, <2>4, <2>5 DEF DataInv
<1> QED BY <1>4, <1>5, <1>6 DEF CompleteArtifactStage


LEMMA RelationsWrittenStep == DataInv /\ RelationsWritten => DataInv'
<1> SUFFICES ASSUME DataInv, RelationsWritten PROVE DataInv'
    OBVIOUS
<1>1. DataTypes /\ worker \in Workers /\ candidate \in Candidates
    BY DEF DataInv, DataTypes
<1>2. /\ worker.pc = "write relations" /\ worker.pending = <<>>
      /\ UNCHANGED <<source, replaced, lease, candidate>> /\ SameRows
    BY DEF RelationsWritten, SameRows
<1>3. CASE Fail("changed") \/ Fail("invalid")
    BY <1>1, <1>2, <1>3, FailSteps DEF Failures
<1>4. CASE worker' = [worker EXCEPT !.pc = "read relations", !.tries = 0]
    <2>1. /\ worker' \in Workers /\ SameProgress /\ worker'.pc = "read relations"
          /\ worker'.cursor = worker.cursor /\ worker'.pending = worker.pending
        BY <1>1, <1>4 DEF Workers, SameProgress
    <2>2. DataTypes' /\ OneResult' /\ NothingPending'
        BY <1>1, <1>2, <2>1 DEF DataTypes, OneResult, NothingPending, DataInv, SameProgress
    <2>3. InRelations'
        BY <1>2, <2>1, ProgressKept, RowsKept DEF InRelations, DataInv, SameProgress, SameRows, Stored
    <2>4. AtStart' /\ InArtifacts' /\ AtComplete' /\ AtEnd'
        BY <2>1 DEF AtStart, InArtifacts, AtComplete, AtEnd
    <2>5. SealedIsEverything'
        BY <1>2 DEF SealedIsEverything, InRelations, DataInv
    <2> QED BY <2>2, <2>3, <2>4, <2>5 DEF DataInv
<1>5. CASE /\ worker' = [worker EXCEPT !.pc = "seal", !.tries = 0, !.cursor = 0]
           /\ worker.cursor = worker.metadata.relationCount /\ LastPage(worker.metadata.relations)
           /\ ~QualityRefused
    <2>1. /\ worker' \in Workers /\ SameProgress /\ worker'.pc = "seal"
          /\ worker'.cursor = 0 /\ worker'.pending = worker.pending
        BY <1>1, <1>5 DEF Workers, SameProgress
    <2>2. DataTypes' /\ OneResult' /\ NothingPending'
        BY <1>1, <1>2, <2>1 DEF DataTypes, OneResult, NothingPending, DataInv, SameProgress
    <2>3. AtEnd'
        <3>1. PICK s \in Results : s = worker.metadata
            BY <1>1 DEF Workers
        <3>2. /\ Fits(s) /\ AllArtifacts(s) /\ RelationsRead(s, worker.cursor) /\ EndpointsWritten
              /\ BytesRead(s, Len(s.artifacts), worker.cursor)
              /\ Stored(candidate.edges, At(s.relations, GoodRelations(s, worker.cursor)))
            BY <1>2, <3>1 DEF InRelations, DataInv
        <3>3. worker.cursor = Len(s.relations) /\ Len(s.relations) = s.relationCount
            <4>1. s.relations \in Seq(Relations) /\ worker.cursor \in 0..Len(s.relations)
                BY <3>2, ResultsAssumption DEF RelationsRead, CheckedUpTo
            <4> QED BY <1>5, <3>1, <4>1 DEF LastPage
        <3>4. AllRelations(s)
            <4>1. candidate.exists => candidate.edges = WantedEdges(s)
                <5>1. ToSet(<<>>) = {}
                    BY DEF ToSet
                <5> QED BY <1>2, <3>2, <3>3, <5>1, WholeResult DEF Stored
            <4> QED BY <3>2, <3>3, <4>1 DEF AllRelations
        <3>5. Everything(s)
            BY <1>5, <3>2, <3>3, <3>4 DEF Everything
        <3>6. Everything(s)'
            BY <1>2, <2>1, <3>5, RowsKept
        <3> QED BY <2>1, <3>1, <3>6 DEF AtEnd, SameProgress
    <2>4. AtStart' /\ InArtifacts' /\ AtComplete' /\ InRelations'
        BY <2>1 DEF AtStart, InArtifacts, AtComplete, InRelations
    <2>5. SealedIsEverything'
        BY <1>2 DEF SealedIsEverything, InRelations, DataInv
    <2> QED BY <2>2, <2>3, <2>4, <2>5 DEF DataInv
<1> QED BY <1>3, <1>4, <1>5 DEF RelationsWritten, TurnPage

LEMMA SealCandidateStep == DataInv /\ SealCandidate => DataInv'
<1> SUFFICES ASSUME DataInv, SealCandidate PROVE DataInv'
    OBVIOUS
<1>1. DataTypes /\ worker \in Workers /\ candidate \in Candidates
    BY DEF DataInv, DataTypes
<1>2. worker.pc = "seal" /\ UNCHANGED <<source, replaced, lease>>
    BY DEF SealCandidate
<1>3. PICK s \in Results : s = worker.metadata
    BY <1>1 DEF Workers
<1>4. Everything(s) /\ worker.pending = <<>>
    BY <1>2, <1>3 DEF AtEnd, DataInv, NothingPending
<1>5. CASE candidate' = candidate /\ (Fail("retryable") \/ Fail("invalid"))
    BY <1>1, <1>2, <1>5, FailSteps DEF Failures
<1>6. CASE candidate' = candidate /\ Retried(BatchAttempts)
    <2>1. UNCHANGED <<source, replaced, lease, candidate>>
        BY <1>2, <1>6
    <2> QED BY <1>6, <2>1, RetrySteps
<1>7. ASSUME candidate' = Sealed, worker' \in Workers, SameProgress, worker'.pending = <<>>,
             worker'.pc \in {"seal", "activate"} \cup Failures
      PROVE  DataInv'
    <2>1. /\ candidate' \in Candidates /\ candidate'.exists = candidate.exists
          /\ candidate'.nodes = candidate.nodes /\ candidate'.edges = candidate.edges
          /\ candidate'.stats = worker.quality /\ candidate'.quality = Quality
        BY <1>1, <1>7 DEF Sealed, Candidates, Workers, Quality
    <2>2. Everything(s)'
        <3>1. AllArtifacts(s)' /\ AllRelations(s)' /\ EndpointsWritten'
            BY <1>4, <1>7, <2>1, ProgressKept DEF Everything, AllArtifacts, AllRelations, EndpointsWritten
        <3> QED BY <1>4, <1>7, <3>1, ProgressKept DEF Everything
    <2>3. DataTypes' /\ OneResult' /\ NothingPending'
        BY <1>1, <1>2, <1>7, <2>1 DEF DataTypes, OneResult, NothingPending, DataInv, SameProgress
    <2>4. AtStart' /\ InArtifacts' /\ AtComplete' /\ InRelations'
        BY <1>7 DEF AtStart, InArtifacts, AtComplete, InRelations, Failures
    <2>5. worker'.metadata = s /\ worker'.quality = worker.quality /\ Quality' = Quality
        BY <1>3, <1>7, ProgressKept DEF SameProgress
    <2>6. AtEnd' /\ SealedIsEverything'
        BY <1>7, <2>1, <2>2, <2>5 DEF AtEnd, SealedIsEverything
    <2> QED BY <2>3, <2>4, <2>6 DEF DataInv
<1>8. CASE candidate' = Sealed /\ worker' = [worker EXCEPT !.pc = "activate", !.tries = 0]
    <2>1. worker' \in Workers /\ SameProgress /\ worker'.pending = <<>> /\ worker'.pc = "activate"
        BY <1>1, <1>4, <1>8 DEF Workers, SameProgress
    <2> QED BY <1>7, <1>8, <2>1
<1>9. CASE candidate' = Sealed /\ Retried(BatchAttempts)
    <2>1. CASE Fail("retryable")
        <3>1. <<>> \in Seq(Records)
            BY EmptySeq
        <3>2. worker' \in Workers /\ SameProgress /\ worker'.pending = <<>> /\ worker'.pc = "retryable"
            BY <1>1, <2>1, <3>1 DEF Fail, Workers, SameProgress, Failures
        <3> QED BY <1>7, <1>9, <3>2 DEF Failures
    <2>2. CASE ~Fail("retryable")
        <3>1. /\ worker' \in Workers /\ SameProgress /\ worker'.pc = worker.pc
              /\ worker'.pending = worker.pending
            BY <1>1, <1>9, <2>2, RetryOutcome
        <3> QED BY <1>2, <1>4, <1>7, <1>9, <3>1
    <2> QED BY <2>1, <2>2
<1> QED BY <1>5, <1>6, <1>8, <1>9 DEF SealCandidate


(* A page that passes PageRefused extends the checked prefix.              *)
LEMMA PageChecked ==
    ASSUME NEW recs \in Seq(Records), worker.cursor \in Nat, worker.bytes \in Nat,
           CheckedUpTo(recs, worker.cursor), NEW n, NEW page, page = Page(recs),
           PageOf(recs, worker.cursor, n, page), UpToPage(recs) = SubSeq(recs, 1, n), ~PageRefused(recs)
    PROVE  /\ CheckedUpTo(recs, n)
           /\ worker.bytes + SizeOf(page) <= MaxRevisionBytes
<1>1. PICK c \in Nat : c = worker.cursor
    OBVIOUS
<1>2. n \in c..Len(recs) /\ Len(recs) \in Nat /\ page \in Seq(Records) /\ Len(page) = n - c
      /\ \A k \in 1..n - c : page[k] = recs[c + k]
    <2>1. PageOf(recs, c, n, page)
        BY <1>1, Zenon
    <2>2. Len(recs) \in Nat
        BY LenProperties
    <2>3. \A k \in 1..n - c : page[k] = recs[c + k]
        BY <2>1, Zenon DEF PageOf
    <2> QED BY <2>1, <2>2, <2>3, Zenon DEF PageOf
<1>3. /\ StrictlyOrdered(SubSeq(recs, 1, n))
      /\ \A r \in ToSet(page) : r.identity /\ ~(r.size > MaxRecordBytes)
      /\ ~(worker.bytes + SizeOf(page) > MaxRevisionBytes)
    BY DEF PageRefused
<1>4. \A i \in 1..n : recs[i] \in Records /\ recs[i].size \in Nat
    BY <1>2 DEF Records, Artifacts, Relations
<1>5. \A i \in 1..n - 1 : recs[i].id < recs[i + 1].id
    <2>1. PICK t : t = SubSeq(recs, 1, n)
        OBVIOUS
    <2>2. Len(t) = n /\ \A i \in 1..n : t[i] = recs[i]
        <3>1. 1 \in Int /\ n \in Int
            BY <1>2
        <3>2. /\ Len(SubSeq(recs, 1, n)) = IF 1 <= n THEN n - 1 + 1 ELSE 0
              /\ \A i \in 1..n - 1 + 1 : SubSeq(recs, 1, n)[i] = recs[1 + i - 1]
            BY <1>4, <3>1, SubSeqProperties
        <3> QED BY <1>2, <2>1, <3>2
    <2>3. \A i \in 1..n - 1 : t[i].id < t[i + 1].id
        BY <1>3, <2>1, <2>2 DEF StrictlyOrdered
    <2>4. \A i \in 1..n - 1 : i \in 1..n /\ i + 1 \in 1..n
        BY <1>2
    <2> QED BY <2>2, <2>3, <2>4
<1>6. \A i \in 1..n : recs[i].identity /\ recs[i].size <= MaxRecordBytes
    <2> SUFFICES ASSUME NEW i \in 1..n PROVE recs[i].identity /\ recs[i].size <= MaxRecordBytes
        OBVIOUS
    <2>1. CASE i <= c
        BY <1>1, <1>2, <2>1 DEF CheckedUpTo
    <2>2. CASE i > c
        <3>1. i - c \in 1..n - c /\ c + (i - c) = i
            BY <1>2, <2>2
        <3>2. page[i - c] = recs[i] /\ i - c \in DOMAIN page
            BY <1>2, <3>1
        <3>3. recs[i] \in ToSet(page)
            BY <3>2 DEF ToSet
        <3>4. recs[i].identity /\ ~(recs[i].size > MaxRecordBytes)
            BY <1>3, <3>3
        <3>5. MaxRecordBytes \in Nat /\ recs[i].size \in Nat
            BY <1>4, CandidateAssumption
        <3> QED BY <3>4, <3>5
    <2> QED BY <1>2, <2>1, <2>2
<1>7. SizeOf(page) \in Nat
    BY <1>2, SizeOfSequence
<1>8. worker.bytes + SizeOf(page) <= MaxRevisionBytes
    <2>1. PICK size \in Nat : size = SizeOf(page)
        BY <1>7
    <2>2. MaxRevisionBytes \in Nat /\ worker.bytes \in Nat
        BY CandidateAssumption
    <2>3. ~(worker.bytes + size > MaxRevisionBytes)
        BY <1>3, <2>1
    <2>4. worker.bytes + size <= MaxRevisionBytes
        BY <2>2, <2>3
    <2> QED BY <2>1, <2>4
<1> QED BY <1>2, <1>5, <1>6, <1>8 DEF CheckedUpTo

LEMMA ReadArtifactPageStep == DataInv /\ ReadArtifactPage => DataInv'
<1> SUFFICES ASSUME DataInv, ReadArtifactPage PROVE DataInv'
    OBVIOUS
<1>1. DataTypes /\ worker \in Workers /\ candidate \in Candidates
    BY DEF DataInv, DataTypes
<1>2. /\ worker.pc = "read artifacts" /\ UNCHANGED <<source, replaced, lease, candidate>>
    BY DEF ReadArtifactPage
<1>3. CASE Fail("changed") \/ Fail("invalid")
    BY <1>1, <1>2, <1>3, FailSteps DEF Failures
<1>4. ASSUME ~(Fail("changed") \/ Fail("invalid")) PROVE DataInv'
    <2>1. PICK s \in Results : s = worker.metadata
        BY <1>1 DEF Workers
    <2>2. source = s
        BY <1>4, <2>1 DEF ReadArtifactPage, PageChanged, OneResult, DataInv
    <2>3. PICK A \in Seq(Records) : A = s.artifacts
        <3>1. s.artifacts \in Seq(Artifacts) /\ Artifacts \subseteq Records
            BY ResultsAssumption DEF Records
        <3> QED BY <3>1, SeqMonotonic
    <2>4. PICK c \in Nat : c = worker.cursor
        BY <1>1 DEF Workers
    <2>5. /\ Fits(s) /\ ArtifactsRead(s, c) /\ BytesRead(s, c, 0) /\ candidate.edges = {}
          /\ candidate.status = "STAGING" /\ worker.quality.invalidRelations = 0
          /\ Stored(candidate.nodes, At(A, GoodArtifacts(s, c))) /\ worker.pending = <<>>
        BY <1>2, <2>1, <2>3, <2>4 DEF InArtifacts, DataInv, NothingPending
    <2>6. worker.cursor \in 0..Len(A) /\ CheckedUpTo(A, worker.cursor)
        BY <2>3, <2>4, <2>5 DEF ArtifactsRead, CheckedUpTo
    <2>7. PICK page : page = Page(A)
        OBVIOUS
    <2>8. PICK n : PageOf(A, c, n, page) /\ UpToPage(A) = SubSeq(A, 1, n)
        BY <2>4, <2>6, <2>7, PageIsNext
    <2>9. PICK valid : valid = Kept(page, ValidArtifact)
        OBVIOUS
    <2>10. PICK I : I = GoodArtifacts(s, n)
        OBVIOUS
    <2>11. PICK K \in SUBSET (1..n - c) : K = {k \in 1..n - c : c + k \in I}
        OBVIOUS
    <2>12. c <= n /\ n \in Nat /\ n <= Len(A) /\ Len(page) = n - c /\ page \in Seq(Records)
           /\ \A k \in 1..n - c : page[k] = A[c + k]
        BY <2>8 DEF PageOf
    <2>13. I \in SUBSET (1..n) /\ \A i \in 1..n : i \in I <=> A[i].valid
        BY <2>3, <2>10 DEF GoodArtifacts
    <2>14. valid = KeptAt(page, K)
        <3>1. DOMAIN page = 1..n - c
            BY <2>12
        <3>2. \A k \in 1..n - c : c + k \in I <=> page[k].valid
            <4>1. \A k \in 1..n - c : c + k \in 1..n
                BY <2>12
            <4> QED BY <2>12, <2>13, <4>1
        <3>3. {k \in DOMAIN page : page[k].valid} = K
            BY <2>11, <3>1, <3>2
        <3>4. valid = KeptAt(page, {k \in DOMAIN page : page[k].valid})
            BY <2>9 DEF Kept, KeptAt, ById, ValidArtifact
        <3> QED BY <3>3, <3>4
    <2>15. /\ valid \in Seq(Records)
           /\ ToSet(valid) = At(A, I \ (1..c))
           /\ Len(page) - Len(valid) \in Nat
           /\ Cardinality((1..n) \ I) = Cardinality((1..c) \ I) + Len(page) - Len(valid)
        <3>1. OnPage(I, K, c, n)
            BY <2>11, <2>13 DEF OnPage
        <3>2. PageOf(A, c, n, page)
            BY <2>8
        <3>3. KeptFrom(A, c, n, page, I, valid)
            BY <2>14, <3>1, <3>2, PageKept
        <3> QED BY <3>3 DEF KeptFrom
    <2>16. /\ worker' = [worker EXCEPT !.pc = "write artifacts", !.tries = 0, !.pending = valid,
                              !.cursor = @ + Len(page), !.bytes = @ + SizeOf(page),
                              !.isolated = @ \cup {a.id : a \in ToSet(page) \ ToSet(valid)},
                              !.quality.invalidArtifacts = worker.quality.invalidArtifacts + Len(page) - Len(valid)]
           /\ ~PageRefused(A)
        BY <1>4, <2>2, <2>3, <2>7, <2>9 DEF ReadArtifactPage
    <2>17. CheckedUpTo(A, n) /\ worker.bytes + SizeOf(page) <= MaxRevisionBytes
        <3>1. worker.bytes \in Nat
            BY <1>1 DEF Workers
        <3> QED BY <2>4, <2>6, <2>7, <2>8, <2>16, <3>1, PageChecked
    <2>18. /\ SizeOf(page) \in Nat
           /\ Total(Sizes(A), 1..n) = Total(Sizes(A), 1..c) + SizeOf(page)
        BY <2>8, PageSizes
    <2>19. /\ BadArtifacts(s, n) = (1..n) \ I /\ BadArtifacts(s, c) = (1..c) \ I
           /\ GoodArtifacts(s, c) = I \cap (1..c)
        BY <2>3, <2>12, <2>13 DEF BadArtifacts, GoodArtifacts
    <2>20. PICK q \in Nat : q = worker.quality.invalidArtifacts + Len(page) - Len(valid)
           /\ q = Cardinality(BadArtifacts(s, n))
        <3>1. worker.quality.invalidArtifacts = Cardinality((1..c) \ I)
            BY <2>5, <2>19 DEF ArtifactsRead
        <3>2. worker.quality.invalidArtifacts \in Nat /\ Len(valid) \in Nat
            <4>1. worker.quality \in Tallies
                BY <1>1 DEF Workers
            <4>2. worker.quality.invalidArtifacts \in Nat
                BY <4>1 DEF Tallies
            <4>3. Len(valid) \in Nat
                BY <2>15
            <4> QED BY <4>2, <4>3
        <3>3. PICK e \in Nat : e = Len(page) - Len(valid)
            BY <2>15
        <3>4. Len(page) \in Nat
            BY <2>12
        <3> QED BY <2>15, <2>19, <3>1, <3>2, <3>3, <3>4
    <2>21. PICK ids \in SUBSET Int : ids = {a.id : a \in ToSet(page) \ ToSet(valid)}
        <3>1. ToSet(page) \subseteq Records
            BY <2>12 DEF ToSet
        <3>2. \A a \in Records : a.id \in Int
            BY DEF Records, Artifacts, Relations
        <3> QED BY <3>1, <3>2
    <2>22. PICK b \in Nat : b = worker.bytes + SizeOf(page)
        <3>1. worker.bytes \in Nat
            BY <1>1 DEF Workers
        <3> QED BY <2>18, <3>1
    <2>23. worker.cursor + Len(page) = n
        BY <2>4, <2>12
    <2>24. worker' = [worker EXCEPT !.pc = "write artifacts", !.tries = 0, !.pending = valid,
                              !.cursor = n, !.bytes = b, !.isolated = worker.isolated \cup ids,
                              !.quality.invalidArtifacts = q]
        BY <2>16, <2>20, <2>21, <2>22, <2>23
    <2>25. /\ worker' \in Workers /\ worker'.metadata = s /\ worker'.pc = "write artifacts"
           /\ worker'.pending = valid /\ worker'.cursor = n /\ worker'.bytes = b
           /\ worker'.isolated = worker.isolated \cup ids
           /\ worker'.quality.invalidArtifacts = q
           /\ worker'.quality.invalidRelations = worker.quality.invalidRelations
        BY <1>1, <2>1, <2>12, <2>15, <2>24 DEF Workers, Tallies
    <2>26. DataTypes' /\ OneResult' /\ NothingPending'
        BY <1>1, <1>2, <2>1, <2>2, <2>25 DEF DataTypes, OneResult, NothingPending, DataInv
    <2>27. ArtifactsRead(s, n)'
        <3>1. worker'.isolated = {a.id : a \in At(A, BadArtifacts(s, n))}
            <4>1. worker.isolated = {a.id : a \in At(A, BadArtifacts(s, c))}
                BY <2>3, <2>5 DEF ArtifactsRead
            <4>2. \A a : a \in ToSet(page) \ ToSet(valid) <=> a \in At(A, ((1..n) \ I) \ (1..c))
                <5>1. ToSet(page) = At(A, (1..n) \ (1..c))
                    <6>1. DOMAIN page = 1..n - c
                        BY <2>12
                    <6>2. \A k \in 1..n - c : c + k \in (1..n) \ (1..c)
                        BY <2>12
                    <6>3. \A i \in (1..n) \ (1..c) : i - c \in 1..n - c /\ c + (i - c) = i
                        BY <2>12
                    <6>4. \A v \in ToSet(page) : v \in At(A, (1..n) \ (1..c))
                        BY <2>12, <6>1, <6>2 DEF ToSet, At
                    <6>5. \A v \in At(A, (1..n) \ (1..c)) : v \in ToSet(page)
                        <7> SUFFICES ASSUME NEW i \in (1..n) \ (1..c) PROVE A[i] \in ToSet(page)
                            BY DEF At
                        <7>1. i - c \in DOMAIN page /\ page[i - c] = A[i]
                            BY <2>12, <6>1, <6>3
                        <7> QED BY <7>1 DEF ToSet
                    <6> QED BY <6>4, <6>5
                <5>2. ToSet(valid) = At(A, I \ (1..c))
                    BY <2>15
                <5> QED BY <5>1, <5>2, <2>13 DEF At
            <4>3. \A a : a \in At(A, BadArtifacts(s, n)) <=>
                         a \in At(A, BadArtifacts(s, c)) \/ a \in ToSet(page) \ ToSet(valid)
                <5>1. BadArtifacts(s, n) = BadArtifacts(s, c) \cup (((1..n) \ I) \ (1..c))
                    BY <2>12, <2>19
                <5> QED BY <4>2, <5>1 DEF At
            <4> QED BY <2>21, <2>25, <4>1, <4>3
        <3>2. worker'.quality.invalidArtifacts = Cardinality(BadArtifacts(s, n))
            BY <2>20, <2>25
        <3> QED BY <2>3, <2>17, <3>1, <3>2 DEF ArtifactsRead
    <2>28. BytesRead(s, n, 0)'
        <3>1. worker.bytes = Total(Sizes(A), 1..c) + Total(Sizes(s.relations), 1..0)
            BY <2>3, <2>5 DEF BytesRead
        <3>2. Total(Sizes(s.relations), 1..0) = 0
            BY NothingRead
        <3>3. Total(Sizes(A), 1..n) \in Nat /\ Total(Sizes(A), 1..c) \in Nat
            <4>1. worker.bytes \in Nat
                BY <1>1 DEF Workers
            <4>2. Total(Sizes(A), 1..c) \in Nat
                <5>1. IsFiniteSet(1..c)
                    BY FS_Interval
                <5>2. \A i \in 1..c : Sizes(A)[i] \in Nat
                    BY <2>12 DEF Sizes, Records, Artifacts, Relations
                <5> QED BY <5>1, <5>2, TotalType
            <4> QED BY <2>18, <4>2
        <3>4. b = Total(Sizes(A), 1..n) + Total(Sizes(s.relations), 1..0) /\ b <= MaxRevisionBytes
            BY <2>17, <2>18, <2>22, <3>1, <3>2, <3>3
        <3> QED BY <2>3, <2>25, <3>4 DEF BytesRead
    <2>29. Stored(candidate.nodes, At(A, I))'
        <3>1. ToSet(<<>>) = {}
            BY DEF ToSet
        <3>2. At(A, I) = At(A, GoodArtifacts(s, c)) \cup ToSet(valid)
            <4>1. I = GoodArtifacts(s, c) \cup (I \ (1..c))
                BY <2>19
            <4>2. ToSet(valid) = At(A, I \ (1..c))
                BY <2>15
            <4> QED BY <4>1, <4>2 DEF At
        <3> QED BY <1>2, <2>5, <2>25, <3>1, <3>2 DEF Stored
    <2>30. InArtifacts'
        BY <1>2, <2>3, <2>5, <2>10, <2>25, <2>27, <2>28, <2>29 DEF InArtifacts
    <2>31. AtStart' /\ AtComplete' /\ InRelations' /\ AtEnd'
        BY <2>25 DEF AtStart, AtComplete, InRelations, AtEnd
    <2>32. SealedIsEverything'
        BY <1>2, <2>5 DEF SealedIsEverything
    <2> QED BY <2>26, <2>30, <2>31, <2>32 DEF DataInv
<1> QED BY <1>3, <1>4


LEMMA ReadRelationPageStep == DataInv /\ ReadRelationPage => DataInv'
<1> SUFFICES ASSUME DataInv, ReadRelationPage PROVE DataInv'
    OBVIOUS
<1>1. DataTypes /\ worker \in Workers /\ candidate \in Candidates
    BY DEF DataInv, DataTypes
<1>2. /\ worker.pc = "read relations" /\ UNCHANGED <<source, replaced, lease, candidate>> /\ SameRows
    BY DEF ReadRelationPage, SameRows
<1>3. CASE Fail("changed") \/ Fail("invalid")
    BY <1>1, <1>2, <1>3, FailSteps DEF Failures
<1>4. ASSUME ~(Fail("changed") \/ Fail("invalid")) PROVE DataInv'
    <2>1. PICK s \in Results : s = worker.metadata
        BY <1>1 DEF Workers
    <2>2. source = s
        BY <1>4, <2>1 DEF ReadRelationPage, PageChanged, OneResult, DataInv
    <2>3. PICK R \in Seq(Records) : R = s.relations
        <3>1. s.relations \in Seq(Relations) /\ Relations \subseteq Records
            BY ResultsAssumption DEF Records
        <3> QED BY <3>1, SeqMonotonic
    <2>4. PICK c \in Nat : c = worker.cursor
        BY <1>1 DEF Workers
    <2>5. /\ Fits(s) /\ AllArtifacts(s) /\ RelationsRead(s, c) /\ EndpointsWritten
          /\ BytesRead(s, Len(s.artifacts), c) /\ candidate.status = "STAGING"
          /\ Stored(candidate.edges, At(R, GoodRelations(s, c))) /\ worker.pending = <<>>
        BY <1>2, <2>1, <2>3, <2>4 DEF InRelations, DataInv, NothingPending
    <2>6. worker.cursor \in 0..Len(R) /\ CheckedUpTo(R, worker.cursor)
        BY <2>3, <2>4, <2>5 DEF RelationsRead, CheckedUpTo
    <2>7. PICK page : page = Page(R)
        OBVIOUS
    <2>8. PICK n : PageOf(R, c, n, page) /\ UpToPage(R) = SubSeq(R, 1, n)
        BY <2>4, <2>6, <2>7, PageIsNext
    <2>9. PICK valid : valid = Kept(page, ValidRelation)
        OBVIOUS
    <2>10. PICK I : I = GoodRelations(s, n)
        OBVIOUS
    <2>11. PICK K \in SUBSET (1..n - c) : K = {k \in 1..n - c : c + k \in I}
        OBVIOUS
    <2>12. c <= n /\ n \in Nat /\ n <= Len(R) /\ Len(page) = n - c /\ page \in Seq(Records)
           /\ \A k \in 1..n - c : page[k] = R[c + k]
        BY <2>8 DEF PageOf
    <2>13. I \in SUBSET (1..n) /\ \A i \in 1..n : i \in I <=> R[i].valid /\ References(R[i]) \cap LeftOut(s) = {}
        BY <2>3, <2>10 DEF GoodRelations
    <2>isolated. worker.isolated = LeftOut(s)
        BY <2>5, WholeResult DEF AllArtifacts, ArtifactsRead
    <2>14. valid = KeptAt(page, K)
        <3>1. DOMAIN page = 1..n - c
            BY <2>12
        <3>2. \A k \in 1..n - c : c + k \in I <=> page[k].valid /\ References(page[k]) \cap LeftOut(s) = {}
            <4>1. \A k \in 1..n - c : c + k \in 1..n
                BY <2>12
            <4> QED BY <2>12, <2>13, <4>1
        <3>3. {k \in DOMAIN page : References(page[k]) \cap worker.isolated = {} /\ page[k].valid} = K
            BY <2>11, <2>isolated, <3>1, <3>2
        <3>4. valid = KeptAt(page, {k \in DOMAIN page : References(page[k]) \cap worker.isolated = {} /\ page[k].valid})
            BY <2>9 DEF Kept, KeptAt, ById, ValidRelation
        <3> QED BY <3>3, <3>4
    <2>15. /\ valid \in Seq(Records)
           /\ ToSet(valid) = At(R, I \ (1..c))
           /\ Len(page) - Len(valid) \in Nat
           /\ Cardinality((1..n) \ I) = Cardinality((1..c) \ I) + Len(page) - Len(valid)
        <3>1. OnPage(I, K, c, n)
            BY <2>11, <2>13 DEF OnPage
        <3>2. PageOf(R, c, n, page)
            BY <2>8
        <3>3. KeptFrom(R, c, n, page, I, valid)
            BY <2>14, <3>1, <3>2, PageKept
        <3> QED BY <3>3 DEF KeptFrom
    <2>16. /\ worker' = [worker EXCEPT !.pc = "write relations", !.tries = 0, !.pending = valid,
                              !.cursor = @ + Len(page), !.bytes = @ + SizeOf(page),
                              !.quality.invalidRelations = worker.quality.invalidRelations + Len(page) - Len(valid),
                              !.quality.unresolved = @ + CountStatus(valid, "UNRESOLVED"),
                              !.quality.ambiguous = @ + CountStatus(valid, "AMBIGUOUS")]
           /\ ~PageRefused(R)
        BY <1>4, <2>2, <2>3, <2>7, <2>9 DEF ReadRelationPage
    <2>17. CheckedUpTo(R, n) /\ worker.bytes + SizeOf(page) <= MaxRevisionBytes
        <3>1. worker.bytes \in Nat
            BY <1>1 DEF Workers
        <3> QED BY <2>4, <2>6, <2>7, <2>8, <2>16, <3>1, PageChecked
    <2>18. /\ SizeOf(page) \in Nat
           /\ Total(Sizes(R), 1..n) = Total(Sizes(R), 1..c) + SizeOf(page)
        BY <2>8, PageSizes
    <2>19. /\ BadRelations(s, n) = (1..n) \ I /\ BadRelations(s, c) = (1..c) \ I
           /\ GoodRelations(s, c) = I \cap (1..c)
        BY <2>3, <2>12, <2>13 DEF BadRelations, GoodRelations
    <2>quality. worker.quality \in Tallies
        BY <1>1 DEF Workers
    <2>20. PICK q \in Nat : q = worker.quality.invalidRelations + Len(page) - Len(valid)
           /\ q = Cardinality(BadRelations(s, n))
        <3>1. worker.quality.invalidRelations = Cardinality((1..c) \ I)
            BY <2>5, <2>19 DEF RelationsRead
        <3>2. worker.quality.invalidRelations \in Nat
            BY <2>quality DEF Tallies
        <3>3. PICK e \in Nat : e = Len(page) - Len(valid)
            BY <2>15
        <3>4. Len(page) \in Nat /\ Len(valid) \in Nat
            BY <2>12, <2>15
        <3> QED BY <2>15, <2>19, <3>1, <3>2, <3>3, <3>4
    <2>counts. \A status : CountStatus(valid, status) \in Nat
        <3> SUFFICES ASSUME NEW status PROVE CountStatus(valid, status) \in Nat
            OBVIOUS
        <3>1. PICK D : D = {i \in DOMAIN valid : valid[i].status = status}
            OBVIOUS
        <3>2. DOMAIN valid = 1..Len(valid) /\ Len(valid) \in Nat
            BY <2>15
        <3>3. IsFiniteSet(1..Len(valid)) /\ D \in SUBSET (1..Len(valid))
            BY <3>1, <3>2, FS_Interval
        <3>4. IsFiniteSet(D)
            BY <3>3, FS_Subset
        <3>5. Cardinality(D) \in Nat
            BY <3>4, FS_CardinalityType
        <3> QED BY <3>1, <3>5 DEF CountStatus
    <2>21. PICK u \in Nat : u = worker.quality.unresolved + CountStatus(valid, "UNRESOLVED")
        <3>1. worker.quality.unresolved \in Nat
            BY <2>quality DEF Tallies
        <3> QED BY <2>counts, <3>1
    <2>21a. PICK a \in Nat : a = worker.quality.ambiguous + CountStatus(valid, "AMBIGUOUS")
        <3>1. worker.quality.ambiguous \in Nat
            BY <2>quality DEF Tallies
        <3> QED BY <2>counts, <3>1
    <2>22. PICK b \in Nat : b = worker.bytes + SizeOf(page)
        <3>1. worker.bytes \in Nat
            BY <1>1 DEF Workers
        <3> QED BY <2>18, <3>1
    <2>23. worker.cursor + Len(page) = n
        BY <2>4, <2>12
    <2>24. worker' = [worker EXCEPT !.pc = "write relations", !.tries = 0, !.pending = valid,
                              !.cursor = n, !.bytes = b, !.quality.invalidRelations = q,
                              !.quality.unresolved = u, !.quality.ambiguous = a]
        BY <2>16, <2>20, <2>21, <2>21a, <2>22, <2>23, <2>quality DEF Tallies
    <2>25. /\ worker' \in Workers /\ worker'.metadata = s /\ worker'.pc = "write relations"
           /\ worker'.pending = valid /\ worker'.cursor = n /\ worker'.bytes = b
           /\ worker'.isolated = worker.isolated
           /\ worker'.quality.invalidRelations = q
           /\ worker'.quality.invalidArtifacts = worker.quality.invalidArtifacts
        <3>1. PICK t : t = [worker.quality EXCEPT !.invalidRelations = q, !.unresolved = u, !.ambiguous = a]
            OBVIOUS
        <3>2. /\ t \in Tallies /\ t.invalidRelations = q
              /\ t.invalidArtifacts = worker.quality.invalidArtifacts
            BY <2>quality, <3>1 DEF Tallies
        <3>3. worker' = [worker EXCEPT !.pc = "write relations", !.tries = 0, !.pending = valid,
                                  !.cursor = n, !.bytes = b, !.quality = t]
            BY <1>1, <2>24, <3>1 DEF Workers
        <3>4. n \in Nat /\ valid \in Seq(Records)
            BY <2>12, <2>15
        <3>5. worker' \in Workers
            BY <1>1, <3>2, <3>3, <3>4 DEF Workers
        <3>6. /\ worker'.metadata = s /\ worker'.pc = "write relations"
              /\ worker'.pending = valid /\ worker'.cursor = n /\ worker'.bytes = b
              /\ worker'.isolated = worker.isolated /\ worker'.quality = t
            BY <1>1, <2>1, <3>3 DEF Workers
        <3> QED BY <3>2, <3>5, <3>6
    <2>26. DataTypes' /\ OneResult' /\ NothingPending'
        BY <1>1, <1>2, <2>1, <2>2, <2>25 DEF DataTypes, OneResult, NothingPending, DataInv
    <2>27. RelationsRead(s, n)'
        BY <2>3, <2>17, <2>20, <2>25 DEF RelationsRead
    <2>27a. AllArtifacts(s)' /\ EndpointsWritten'
        BY <1>2, <2>5, <2>25 DEF AllArtifacts, ArtifactsRead, EndpointsWritten
    <2>28. BytesRead(s, Len(s.artifacts), n)'
        <3>1. worker.bytes = Total(Sizes(s.artifacts), 1..Len(s.artifacts)) + Total(Sizes(R), 1..c)
            BY <2>3, <2>5 DEF BytesRead
        <3>2. Total(Sizes(s.artifacts), 1..Len(s.artifacts)) \in Nat
            <4>1. s.artifacts \in Seq(Artifacts)
                BY ResultsAssumption
            <4>0. PICK A \in Seq(Artifacts) : A = s.artifacts
                BY <4>1
            <4>2a. Len(A) \in Nat /\ \A i \in 1..Len(A) : Sizes(A)[i] \in Nat
                <5>1. DOMAIN A = 1..Len(A) /\ Len(A) \in Nat /\ \A i \in 1..Len(A) : A[i] \in Artifacts
                    OBVIOUS
                <5>2. \A i \in 1..Len(A) : Sizes(A)[i] = A[i].size
                    BY <5>1 DEF Sizes
                <5> QED BY <5>1, <5>2 DEF Artifacts
            <4>2. Len(s.artifacts) \in Nat /\ \A i \in 1..Len(s.artifacts) : Sizes(s.artifacts)[i] \in Nat
                BY <4>0, <4>2a
            <4>3. IsFiniteSet(1..Len(s.artifacts))
                BY <4>2, FS_Interval
            <4> QED BY <4>2, <4>3, TotalType
        <3>3. Total(Sizes(R), 1..c) \in Nat
            <4>1. IsFiniteSet(1..c)
                BY FS_Interval
            <4>2. \A i \in 1..c : Sizes(R)[i] \in Nat
                BY <2>12 DEF Sizes, Records, Artifacts, Relations
            <4> QED BY <4>1, <4>2, TotalType
        <3>4. /\ b = Total(Sizes(s.artifacts), 1..Len(s.artifacts)) + Total(Sizes(R), 1..n)
              /\ b <= MaxRevisionBytes
            BY <2>17, <2>18, <2>22, <3>1, <3>2, <3>3
        <3> QED BY <2>3, <2>25, <3>4 DEF BytesRead
    <2>29. Stored(candidate.edges, At(R, I))'
        <3>1. ToSet(<<>>) = {}
            BY DEF ToSet
        <3>2. At(R, I) = At(R, GoodRelations(s, c)) \cup ToSet(valid)
            <4>1. I = GoodRelations(s, c) \cup (I \ (1..c))
                BY <2>19
            <4>2. ToSet(valid) = At(R, I \ (1..c))
                BY <2>15
            <4> QED BY <4>1, <4>2 DEF At
        <3> QED BY <1>2, <2>5, <2>25, <3>1, <3>2 DEF Stored
    <2>30. InRelations'
        BY <1>2, <2>3, <2>5, <2>10, <2>25, <2>27, <2>27a, <2>28, <2>29 DEF InRelations
    <2>31. AtStart' /\ InArtifacts' /\ AtComplete' /\ AtEnd'
        BY <2>25 DEF AtStart, InArtifacts, AtComplete, AtEnd
    <2>32. SealedIsEverything'
        BY <1>2, <2>5 DEF SealedIsEverything
    <2> QED BY <2>26, <2>30, <2>31, <2>32 DEF DataInv
<1> QED BY <1>3, <1>4

(* boundedBatchEnd returns an end: a batch is a first part of what is left. *)
LEMMA BatchIsFirst ==
    ASSUME worker.pending \in Seq(Records)
    PROVE  \E n \in 0..Len(worker.pending) : Batch = SubSeq(worker.pending, 1, n)
<1> DEFINE fits(n) == n <= BatchSize /\ SizeOf(SubSeq(worker.pending, 1, n)) <= MaxBatchBytes
           ends == {n \in 0..Len(worker.pending) : \A k \in 1..n : fits(k)}
           last == CHOOSE n \in ends : \A k \in ends : k <= n
<1>1. 0 \in ends /\ ends \subseteq 0..Len(worker.pending)
    OBVIOUS
<1>2. Batch = SubSeq(worker.pending, 1, last)
    BY DEF Batch
<1> HIDE DEF ends
<1>3. PICK l \in Nat : l = Len(worker.pending)
    OBVIOUS
<1>4. PICK T \in SUBSET Nat : T = {l - n : n \in ends}
    <2>1. \A n \in ends : l - n \in Nat
        BY <1>1, <1>3
    <2> QED BY <2>1
<1>5. PICK m \in T : \A k \in T : m <= k
    <2>1. T # {}
        BY <1>1, <1>4
    <2> QED BY <2>1, LeastNumber
<1>6. \E n \in ends : \A k \in ends : k <= n
    <2>1. PICK n \in ends : m = l - n
        BY <1>4, <1>5
    <2>2. \A k \in ends : l - n <= l - k
        BY <1>4, <1>5, <2>1
    <2>3. \A k \in ends : k <= n
        BY <1>1, <1>3, <2>2
    <2> QED BY <2>3
<1>7. last \in ends
    BY <1>6
<1> HIDE DEF last
<1> QED BY <1>1, <1>2, <1>7

LEMMA BatchParts ==
    ASSUME worker.pending \in Seq(Records),
           NEW rest, rest = SubSeq(worker.pending, Len(Batch) + 1, Len(worker.pending))
    PROVE  /\ rest \in Seq(Records)
           /\ Len(Batch) \in Nat
           /\ ToSet(Batch) \cup ToSet(rest) = ToSet(worker.pending)
           /\ ToSet(worker.pending) \subseteq Records
<1>1. PICK q \in Seq(Records) : q = worker.pending
    OBVIOUS
<1>2. PICK n \in 0..Len(q) : Batch = SubSeq(q, 1, n)
    BY <1>1, BatchIsFirst
<1>3. PICK l \in Nat : l = Len(q)
    OBVIOUS
<1>4. DOMAIN q = 1..l /\ \A i \in 1..l : q[i] \in Records
    BY <1>3
<1>5. PICK batch : batch = Batch
    OBVIOUS
<1>6. batch \in Seq(Records) /\ Len(batch) = n /\ \A i \in 1..n : batch[i] = q[i]
    BY <1>2, <1>3, <1>4, <1>5
<1>7. rest = SubSeq(q, n + 1, l)
    BY <1>1, <1>3, <1>5, <1>6
<1>8. rest \in Seq(Records) /\ Len(rest) = l - n /\ \A i \in 1..l - n : rest[i] = q[n + i]
    <2>0. n + 1 \in Int /\ l \in Int /\ n \in Nat /\ n <= l
        BY <1>2, <1>3
    <2>1. \A i \in n + 1..l : q[i] \in Records
        BY <1>4, <2>0
    <2>2. /\ SubSeq(q, n + 1, l) \in Seq(Records)
          /\ Len(SubSeq(q, n + 1, l)) = IF n + 1 <= l THEN l - (n + 1) + 1 ELSE 0
          /\ \A i \in 1..l - (n + 1) + 1 : SubSeq(q, n + 1, l)[i] = q[n + 1 + i - 1]
        BY <2>0, <2>1, SubSeqProperties
    <2>3. rest \in Seq(Records) /\ Len(rest) = l - n
        <3>1. Len(rest) = IF n + 1 <= l THEN l - (n + 1) + 1 ELSE 0
            BY <1>7, <2>2
        <3>2. Len(rest) = l - n
            <4>1. CASE n + 1 <= l
                <5>1. Len(rest) = l - (n + 1) + 1
                    BY <3>1, <4>1
                <5> QED BY <2>0, <5>1
            <4>2. CASE ~(n + 1 <= l)
                <5>1. Len(rest) = 0 /\ l - n = 0
                    BY <2>0, <3>1, <4>2
                <5> QED BY <5>1
            <4> QED BY <4>1, <4>2
        <3>3. rest \in Seq(Records)
            BY <1>7, <2>2
        <3> QED BY <3>2, <3>3
    <2>4. \A i \in 1..l - n : rest[i] = q[n + i]
        <3> SUFFICES ASSUME NEW i \in 1..l - n PROVE rest[i] = q[n + i]
            OBVIOUS
        <3>1. i \in 1..l - (n + 1) + 1 /\ n + 1 + i - 1 = n + i
            BY <2>0
        <3> QED BY <1>7, <2>2, <3>1
    <2> QED BY <2>3, <2>4
<1>9. ToSet(batch) \cup ToSet(rest) = ToSet(q)
    <2>1. ToSet(batch) = {q[i] : i \in 1..n}
        <3>1. DOMAIN batch = 1..n
            BY <1>6
        <3> QED BY <1>6, <3>1 DEF ToSet
    <2>2. ToSet(rest) = {q[n + i] : i \in 1..l - n}
        <3>1. DOMAIN rest = 1..l - n
            BY <1>8
        <3> QED BY <1>8, <3>1 DEF ToSet
    <2>3. ToSet(q) = {q[i] : i \in 1..l}
        BY <1>4 DEF ToSet
    <2>4. \A i \in 1..l : i \in 1..n \/ (i - n \in 1..l - n /\ n + (i - n) = i)
        BY <1>2, <1>3
    <2>5. (\A i \in 1..n : i \in 1..l) /\ \A i \in 1..l - n : n + i \in 1..l
        BY <1>2, <1>3
    <2>6. ToSet(batch) \cup ToSet(rest) \subseteq ToSet(q)
        BY <2>1, <2>2, <2>3, <2>5
    <2>7. ToSet(q) \subseteq ToSet(batch) \cup ToSet(rest)
        <3> SUFFICES ASSUME NEW i \in 1..l PROVE q[i] \in ToSet(batch) \cup ToSet(rest)
            BY <2>3
        <3>1. CASE i \in 1..n
            BY <2>1, <3>1
        <3>2. CASE i \notin 1..n
            <4>1. i - n \in 1..l - n /\ n + (i - n) = i
                BY <2>4, <3>2
            <4> QED BY <2>2, <4>1
        <3> QED BY <3>1, <3>2
    <2> QED BY <2>6, <2>7
<1>10. ToSet(q) \subseteq Records
    BY <1>4 DEF ToSet
<1> QED BY <1>1, <1>2, <1>5, <1>6, <1>8, <1>9, <1>10


(* What Commit may do: count a batch, fail, or come back to it.            *)
LEMMA CommitOutcome ==
    ASSUME worker \in Workers, NEW written, NEW refused, NEW counted \in Tallies,
           Commit(written, refused, counted)
    PROVE  \/ /\ ~refused /\ candidate' = written
              /\ worker' \in Workers /\ worker'.pc = worker.pc /\ worker'.cursor = worker.cursor
              /\ worker'.metadata = worker.metadata /\ worker'.isolated = worker.isolated
              /\ worker'.bytes = worker.bytes /\ worker'.quality = counted
              /\ worker'.pending = SubSeq(worker.pending, Len(Batch) + 1, Len(worker.pending))
           \/ candidate' = candidate /\ (Fail("invalid") \/ Retried(BatchAttempts))
           \/ ~refused /\ candidate' = written /\ Retried(BatchAttempts)
<1>1. CASE /\ ~refused /\ candidate' = written
           /\ worker' = [worker EXCEPT !.pending = SubSeq(@, Len(Batch) + 1, Len(@)), !.tries = 0,
                            !.checked = FALSE, !.quality = counted]
    <2>1. PICK rest : rest = SubSeq(worker.pending, Len(Batch) + 1, Len(worker.pending))
        OBVIOUS
    <2>2. worker' = [worker EXCEPT !.pending = rest, !.tries = 0, !.checked = FALSE, !.quality = counted]
        BY <1>1, <2>1
    <2>3. worker.pending \in Seq(Records)
        BY DEF Workers
    <2>4. rest \in Seq(Records)
        BY <2>1, <2>3, BatchParts
    <2>5. /\ worker' \in Workers /\ worker'.pc = worker.pc /\ worker'.cursor = worker.cursor
          /\ worker'.metadata = worker.metadata /\ worker'.isolated = worker.isolated
          /\ worker'.bytes = worker.bytes /\ worker'.quality = counted /\ worker'.pending = rest
        BY <2>2, <2>4 DEF Workers
    <2> QED BY <1>1, <2>1, <2>5
<1>2. CASE refused /\ Fail("invalid") /\ UNCHANGED <<candidate, faults>>
    BY <1>2
<1>3. CASE candidate' \in (IF refused THEN {candidate} ELSE {candidate, written}) /\ Retried(BatchAttempts)
    BY <1>3
<1> QED BY <1>1, <1>2, <1>3 DEF Commit

LEMMA WriteArtifactBatchStep == DataInv /\ WriteArtifactBatch => DataInv'
<1> SUFFICES ASSUME DataInv, WriteArtifactBatch PROVE DataInv'
    OBVIOUS
<1>1. DataTypes /\ worker \in Workers /\ candidate \in Candidates
    BY DEF DataInv, DataTypes
<1>2. worker.pc = "write artifacts" /\ UNCHANGED <<source, replaced, lease>>
    BY DEF WriteArtifactBatch, Commit
<1>3. PICK s \in Results : s = worker.metadata
    BY <1>1 DEF Workers
<1>4. PICK wanted : wanted = At(s.artifacts, GoodArtifacts(s, worker.cursor))
    OBVIOUS
<1>5. /\ Fits(s) /\ ArtifactsRead(s, worker.cursor) /\ BytesRead(s, worker.cursor, 0)
      /\ Stored(candidate.nodes, wanted)
      /\ candidate.edges = {} /\ candidate.status = "STAGING" /\ worker.quality.invalidRelations = 0
    BY <1>2, <1>3, <1>4 DEF InArtifacts, DataInv
<1>6. PICK batch : batch = ToSet(Batch)
    OBVIOUS
<1>7. PICK rest : rest = SubSeq(worker.pending, Len(Batch) + 1, Len(worker.pending))
    OBVIOUS
<1>8. /\ rest \in Seq(Records) /\ Len(Batch) \in Nat /\ batch \cup ToSet(rest) = ToSet(worker.pending)
      /\ ToSet(worker.pending) \subseteq Records
    <2>1. worker.pending \in Seq(Records)
        BY <1>1 DEF Workers
    <2> QED BY <1>6, <1>7, <2>1, BatchParts
<1>9. PICK written : written = [candidate EXCEPT !.nodes = @ \cup batch]
    OBVIOUS
<1>10. /\ written \in Candidates /\ written.exists = candidate.exists /\ written.nodes = candidate.nodes \cup batch
       /\ written.edges = {} /\ written.status = "STAGING"
    BY <1>1, <1>5, <1>8, <1>9 DEF Candidates
<1>11. PICK counted : counted = [worker.quality EXCEPT !.artifacts = @ + Len(Batch)]
    OBVIOUS
<1>12. /\ counted \in Tallies /\ counted.invalidArtifacts = worker.quality.invalidArtifacts
       /\ counted.invalidRelations = worker.quality.invalidRelations
    <2>1. worker.quality \in Tallies
        BY <1>1 DEF Workers
    <2>2. PICK k \in Nat : k = worker.quality.artifacts + Len(Batch)
        <3>1. worker.quality.artifacts \in Nat
            BY <2>1 DEF Tallies
        <3> QED BY <1>8, <3>1
    <2>3. counted = [worker.quality EXCEPT !.artifacts = k]
        BY <1>11, <2>2
    <2> QED BY <2>1, <2>3 DEF Tallies
<1>13. PICK refused : refused = Conflicts(batch, candidate.nodes)
    OBVIOUS
<1>14. Commit(written, refused, counted)
    BY <1>6, <1>9, <1>11, <1>13 DEF WriteArtifactBatch
<1>15. CASE candidate' = candidate /\ (Fail("invalid") \/ Retried(BatchAttempts))
    <2>1. UNCHANGED <<source, replaced, lease, candidate>>
        BY <1>2, <1>15
    <2> QED BY <1>1, <1>15, <2>1, FailSteps, RetrySteps DEF Failures
<1>16. ASSUME candidate' = written, worker' \in Workers, worker'.pc = worker.pc, worker'.cursor = worker.cursor,
              worker'.metadata = worker.metadata, worker'.isolated = worker.isolated,
              worker'.bytes = worker.bytes,
              worker'.quality.invalidArtifacts = worker.quality.invalidArtifacts,
              worker'.quality.invalidRelations = worker.quality.invalidRelations,
              worker'.pending \in {worker.pending, rest}
       PROVE  DataInv'
    <2>1. DataTypes' /\ OneResult' /\ NothingPending'
        BY <1>1, <1>2, <1>10, <1>16 DEF DataTypes, OneResult, NothingPending, DataInv
    <2>2. ArtifactsRead(s, worker.cursor)' /\ BytesRead(s, worker.cursor, 0)'
        BY <1>5, <1>16 DEF ArtifactsRead, BytesRead
    <2>3. Stored(candidate.nodes, wanted)'
        BY <1>5, <1>8, <1>10, <1>16 DEF Stored
    <2>4. InArtifacts'
        BY <1>3, <1>4, <1>5, <1>10, <1>16, <2>2, <2>3 DEF InArtifacts
    <2>5. AtStart' /\ AtComplete' /\ InRelations' /\ AtEnd'
        BY <1>2, <1>16 DEF AtStart, AtComplete, InRelations, AtEnd
    <2>6. SealedIsEverything'
        BY <1>10, <1>16 DEF SealedIsEverything
    <2> QED BY <2>1, <2>4, <2>5, <2>6 DEF DataInv
<1>17. CASE candidate' = written /\ Retried(BatchAttempts)
    <2>1. CASE Fail("retryable")
        BY <1>2, <1>10, <1>17, <2>1, FailSteps DEF Failures
    <2>2. CASE ~Fail("retryable")
        <3>1. /\ worker' \in Workers /\ SameProgress /\ worker'.pc = worker.pc
              /\ worker'.cursor = worker.cursor /\ worker'.pending = worker.pending
            BY <1>1, <1>17, <2>2, RetryOutcome
        <3> QED BY <1>16, <1>17, <3>1 DEF SameProgress
    <2> QED BY <2>1, <2>2
<1>18. CASE /\ candidate' = written
            /\ worker' \in Workers /\ worker'.pc = worker.pc /\ worker'.cursor = worker.cursor
            /\ worker'.metadata = worker.metadata /\ worker'.isolated = worker.isolated
            /\ worker'.bytes = worker.bytes /\ worker'.quality = counted /\ worker'.pending = rest
    BY <1>12, <1>16, <1>18
<1> QED BY <1>1, <1>7, <1>12, <1>14, <1>15, <1>17, <1>18, CommitOutcome

LEMMA WriteRelationBatchStep == DataInv /\ WriteRelationBatch => DataInv'
<1> SUFFICES ASSUME DataInv, WriteRelationBatch PROVE DataInv'
    OBVIOUS
<1>1. DataTypes /\ worker \in Workers /\ candidate \in Candidates
    BY DEF DataInv, DataTypes
<1>2. worker.pc = "write relations" /\ UNCHANGED <<source, replaced, lease>>
    BY DEF WriteRelationBatch, Commit
<1>3. PICK s \in Results : s = worker.metadata
    BY <1>1 DEF Workers
<1>4. PICK wanted : wanted = At(s.relations, GoodRelations(s, worker.cursor))
    OBVIOUS
<1>5. /\ Fits(s) /\ AllArtifacts(s) /\ RelationsRead(s, worker.cursor) /\ EndpointsWritten
      /\ BytesRead(s, Len(s.artifacts), worker.cursor)
      /\ Stored(candidate.edges, wanted) /\ candidate.status = "STAGING"
    BY <1>2, <1>3, <1>4 DEF InRelations, DataInv
<1>6. PICK batch : batch = ToSet(Batch)
    OBVIOUS
<1>7. PICK rest : rest = SubSeq(worker.pending, Len(Batch) + 1, Len(worker.pending))
    OBVIOUS
<1>8. /\ rest \in Seq(Records) /\ Len(Batch) \in Nat /\ batch \cup ToSet(rest) = ToSet(worker.pending)
      /\ ToSet(worker.pending) \subseteq Records
    <2>1. worker.pending \in Seq(Records)
        BY <1>1 DEF Workers
    <2> QED BY <1>6, <1>7, <2>1, BatchParts
<1>9. PICK written : written = [candidate EXCEPT !.edges = @ \cup batch]
    OBVIOUS
<1>10. /\ written \in Candidates /\ written.exists = candidate.exists /\ written.edges = candidate.edges \cup batch
       /\ written.nodes = candidate.nodes /\ written.status = "STAGING"
    BY <1>1, <1>5, <1>8, <1>9 DEF Candidates
<1>11. PICK counted : counted = [worker.quality EXCEPT !.relations = @ + Len(Batch)]
    OBVIOUS
<1>12. /\ counted \in Tallies /\ counted.invalidArtifacts = worker.quality.invalidArtifacts
       /\ counted.invalidRelations = worker.quality.invalidRelations
    <2>1. worker.quality \in Tallies
        BY <1>1 DEF Workers
    <2>2. PICK k \in Nat : k = worker.quality.relations + Len(Batch)
        <3>1. worker.quality.relations \in Nat
            BY <2>1 DEF Tallies
        <3> QED BY <1>8, <3>1
    <2>3. counted = [worker.quality EXCEPT !.relations = k]
        BY <1>11, <2>2
    <2> QED BY <2>1, <2>3 DEF Tallies
<1>13. PICK refused : refused = \/ Conflicts(batch, candidate.edges)
                                \/ \E r \in batch : FactMissing(r) \/ AmbiguousMissing(r) \/ UnresolvedMissing(r)
    OBVIOUS
<1>14. Commit(written, refused, counted)
    BY <1>6, <1>9, <1>11, <1>13 DEF WriteRelationBatch
<1>15. CASE candidate' = candidate /\ (Fail("invalid") \/ Retried(BatchAttempts))
    <2>1. UNCHANGED <<source, replaced, lease, candidate>>
        BY <1>2, <1>15
    <2> QED BY <1>1, <1>15, <2>1, FailSteps, RetrySteps DEF Failures
<1>16. ASSUME ~refused, candidate' = written, worker' \in Workers, worker'.pc = worker.pc,
              worker'.cursor = worker.cursor,
              worker'.metadata = worker.metadata, worker'.isolated = worker.isolated,
              worker'.bytes = worker.bytes,
              worker'.quality.invalidArtifacts = worker.quality.invalidArtifacts,
              worker'.quality.invalidRelations = worker.quality.invalidRelations,
              worker'.pending \in {worker.pending, rest}
       PROVE  DataInv'
    <2>1. DataTypes' /\ OneResult' /\ NothingPending'
        BY <1>1, <1>2, <1>10, <1>16 DEF DataTypes, OneResult, NothingPending, DataInv
    <2>2. AllArtifacts(s)' /\ RelationsRead(s, worker.cursor)' /\ BytesRead(s, Len(s.artifacts), worker.cursor)'
        BY <1>5, <1>10, <1>16 DEF AllArtifacts, ArtifactsRead, RelationsRead, BytesRead
    <2>3. Stored(candidate.edges, wanted)'
        BY <1>5, <1>8, <1>10, <1>16 DEF Stored
    <2>4. EndpointsWritten'
        <3>1. \A r \in batch : References(r) \subseteq {n.id : n \in candidate.nodes}
            <4> SUFFICES ASSUME NEW r \in batch PROVE References(r) \subseteq {n.id : n \in candidate.nodes}
                OBVIOUS
            <4>1. ~FactMissing(r) /\ ~AmbiguousMissing(r) /\ ~UnresolvedMissing(r)
                BY <1>13, <1>16
            <4>2. r.status \in Statuses
                <5>1. r \in wanted
                    BY <1>5, <1>8 DEF Stored
                <5>2. s.relations \in Seq(Relations) /\ worker.cursor \in 0..Len(s.relations)
                    BY <1>5, ResultsAssumption DEF RelationsRead, CheckedUpTo
                <5>3. PICK i \in 1..worker.cursor : r = s.relations[i]
                    BY <1>4, <5>1 DEF At, GoodRelations
                <5>4. r \in Relations
                    BY <5>2, <5>3
                <5> QED BY <5>4 DEF Relations
            <4>3. Written(r.from)
                BY <4>1, <4>2 DEF FactMissing, AmbiguousMissing, UnresolvedMissing, Statuses
            <4>4. r.status \in {"RESOLVED", "AMBIGUOUS"} => \A a \in r.targets : Written(a)
                BY <4>1 DEF FactMissing, AmbiguousMissing
            <4>5. \A a \in References(r) : Written(a)
                BY <4>3, <4>4 DEF References
            <4> QED BY <4>5 DEF Written
        <3> QED BY <1>5, <1>10, <1>16, <3>1 DEF EndpointsWritten
    <2>5. InRelations'
        BY <1>3, <1>4, <1>5, <1>10, <1>16, <2>2, <2>3, <2>4 DEF InRelations
    <2>6. AtStart' /\ InArtifacts' /\ AtComplete' /\ AtEnd'
        BY <1>2, <1>16 DEF AtStart, InArtifacts, AtComplete, AtEnd
    <2>7. SealedIsEverything'
        BY <1>10, <1>16 DEF SealedIsEverything
    <2> QED BY <2>1, <2>5, <2>6, <2>7 DEF DataInv
<1>17. CASE ~refused /\ candidate' = written /\ Retried(BatchAttempts)
    <2>1. CASE Fail("retryable")
        BY <1>2, <1>10, <1>17, <2>1, FailSteps DEF Failures
    <2>2. CASE ~Fail("retryable")
        <3>1. /\ worker' \in Workers /\ SameProgress /\ worker'.pc = worker.pc
              /\ worker'.cursor = worker.cursor /\ worker'.pending = worker.pending
            BY <1>1, <1>17, <2>2, RetryOutcome
        <3> QED BY <1>16, <1>17, <3>1 DEF SameProgress
    <2> QED BY <2>1, <2>2
<1>18. CASE /\ ~refused /\ candidate' = written
            /\ worker' \in Workers /\ worker'.pc = worker.pc /\ worker'.cursor = worker.cursor
            /\ worker'.metadata = worker.metadata /\ worker'.isolated = worker.isolated
            /\ worker'.bytes = worker.bytes /\ worker'.quality = counted /\ worker'.pending = rest
    BY <1>12, <1>16, <1>18
<1> QED BY <1>1, <1>7, <1>12, <1>14, <1>15, <1>17, <1>18, CommitOutcome


LEMMA StepData == DataInv /\ [Next]_vars => DataInv'
<1> SUFFICES ASSUME DataInv, [Next]_vars PROVE DataInv'
    OBVIOUS
<1>1. CASE UNCHANGED vars
    <2>1. DataTypes' /\ SameProgress /\ SameRows
        BY <1>1 DEF vars, DataInv, DataTypes, SameProgress, SameRows
    <2>2. UNCHANGED <<source, replaced, worker>>
        BY <1>1 DEF vars
    <2> QED BY <2>1, <2>2, SameView
<1>2. CASE Build
    BY <1>2, ReadMetadataStep, ReadArtifactPageStep, ReadRelationPageStep, ArtifactsWrittenStep,
       RelationsWrittenStep, CreateCandidateStep, WriteArtifactBatchStep, WriteRelationBatchStep,
       CompleteArtifactStageStep, SealCandidateStep, QuietSteps DEF Build
<1>3. CASE PageUnavailable \/ ReplaceResult \/ LoseLease \/ Cancelled \/ DeleteCandidate
    BY <1>3, QuietSteps, DeleteCandidateStep
<1> QED BY <1>1, <1>2, <1>3 DEF Next

-----------------------------------------------------------------------------
(***************************************************************************)
(* From what was read to what the candidate has to hold.                   *)
(***************************************************************************)
LEMMA IdsIncrease ==
    ASSUME NEW q \in Seq(Records), NEW n \in 0..Len(q), \A i \in 1..n - 1 : q[i].id < q[i + 1].id
    PROVE  \A i, j \in 1..n : i < j => q[i].id < q[j].id
<1>1. PICK f : f = [i \in 1..n |-> q[i].id]
    OBVIOUS
<1>2. n \in Nat /\ \A i \in 1..n : f[i] \in Int
    <2>1. n \in Nat /\ \A i \in 1..n : q[i] \in Records
        OBVIOUS
    <2> QED BY <1>1, <2>1 DEF Records, Artifacts, Relations
<1>3. \A i \in 1..n - 1 : f[i] < f[i + 1]
    BY <1>1, <1>2
<1>4. PICK T : T = {d \in Nat : \E i \in 1..n : i + d + 1 <= n /\ ~(f[i] < f[i + d + 1])}
    OBVIOUS
<1>5. T = {}
    <2>1. SUFFICES ASSUME T # {} PROVE FALSE
        OBVIOUS
    <2>2. PICK d \in T : \A k \in T : d <= k
        BY <1>4, <2>1, LeastNumber
    <2>3. PICK i \in 1..n : i + d + 1 <= n /\ ~(f[i] < f[i + d + 1])
        BY <1>4, <2>2
    <2>4. d \in Nat /\ d # 0
        <3>1. d \in Nat
            BY <1>4, <2>2
        <3>2. CASE d = 0
            <4>1. i \in 1..n - 1 /\ i + d + 1 = i + 1
                BY <1>2, <2>3, <3>2
            <4> QED BY <1>3, <2>3, <4>1
        <3> QED BY <3>1, <3>2
    <2>5. d - 1 \in Nat /\ d - 1 \notin T
        <3>1. d - 1 \in Nat /\ ~(d <= d - 1)
            BY <2>4
        <3> QED BY <2>2, <3>1
    <2>6. f[i] < f[i + d]
        <3>1. i + (d - 1) + 1 = i + d /\ i + d <= n
            BY <1>2, <2>3, <2>4
        <3> QED BY <1>4, <2>5, <3>1
    <2>7. i + d \in 1..n - 1 /\ (i + d) + 1 = i + d + 1 /\ i + d + 1 \in 1..n /\ i + d \in 1..n
        BY <1>2, <2>3, <2>4
    <2>8. f[i + d] < f[i + d + 1]
        BY <1>3, <2>7
    <2> QED BY <1>2, <2>3, <2>6, <2>7, <2>8
<1>6. \A i, j \in 1..n : i < j => f[i] < f[j]
    <2> SUFFICES ASSUME NEW i \in 1..n, NEW j \in 1..n, i < j PROVE f[i] < f[j]
        OBVIOUS
    <2>1. j - i - 1 \in Nat /\ i + (j - i - 1) + 1 = j /\ j <= n
        BY <1>2
    <2> QED BY <1>4, <1>5, <2>1
<1> QED BY <1>1, <1>6

(* Ordered records differ: rows and identities are as many as the places.  *)
LEMMA RowsAreCounted ==
    ASSUME NEW q \in Seq(Records), CheckedUpTo(q, Len(q)), NEW I \in SUBSET (1..Len(q))
    PROVE  /\ IsFiniteSet(I) /\ Cardinality(I) \in Nat
           /\ Cardinality(At(q, I)) = Cardinality(I)
           /\ Cardinality({a.id : a \in At(q, I)}) = Cardinality(I)
           /\ Cardinality((1..Len(q)) \ I) = Len(q) - Cardinality(I)
<1>1. PICK n \in Nat : n = Len(q)
    OBVIOUS
<1>2. \A i \in 1..n : q[i] \in Records /\ q[i].id \in Int
    BY <1>1 DEF Records, Artifacts, Relations
<1>3. \A i, j \in 1..n : i < j => q[i].id < q[j].id
    <2>1. n \in 0..Len(q) /\ \A i \in 1..n - 1 : q[i].id < q[i + 1].id
        BY <1>1 DEF CheckedUpTo
    <2> QED BY <2>1, IdsIncrease
<1>4. \A i, j \in 1..n : q[i].id = q[j].id => i = j
    <2> SUFFICES ASSUME NEW i \in 1..n, NEW j \in 1..n, q[i].id = q[j].id, i # j PROVE FALSE
        OBVIOUS
    <2>1. i < j \/ j < i
        OBVIOUS
    <2>2. q[i].id < q[j].id \/ q[j].id < q[i].id
        BY <1>3, <2>1
    <2> QED BY <1>2, <2>2
<1>5. IsFiniteSet(1..n) /\ Cardinality(1..n) = n
    BY FS_Interval
<1>6. I \in SUBSET (1..n)
    BY <1>1
<1>7. IsFiniteSet(I) /\ Cardinality(I) \in Nat
    BY <1>5, <1>6, FS_Subset, FS_CardinalityType
<1>8. Cardinality(At(q, I)) = Cardinality(I)
    <2>1. \A x, y \in I : q[x] = q[y] => x = y
        BY <1>4, <1>6
    <2>2. Cardinality({q[x] : x \in I}) = Cardinality(I)
        BY <1>7, <2>1, CountImage
    <2>3. At(q, I) = {q[x] : x \in I}
        BY DEF At
    <2> QED BY <2>2, <2>3
<1>9. Cardinality({a.id : a \in At(q, I)}) = Cardinality(I)
    <2>1. PICK f : f = [i \in 1..n |-> q[i].id]
        OBVIOUS
    <2>2. \A x, y \in I : f[x] = f[y] => x = y
        BY <1>4, <1>6, <2>1
    <2>3. Cardinality({f[x] : x \in I}) = Cardinality(I)
        BY <1>7, <2>2, CountImage
    <2>4. \A v : v \in {a.id : a \in At(q, I)} <=> \E x \in I : v = q[x].id
        BY DEF At
    <2>5. \A v : v \in {f[x] : x \in I} <=> \E x \in I : v = q[x].id
        BY <1>6, <2>1
    <2>6. {a.id : a \in At(q, I)} = {f[x] : x \in I}
        BY <2>4, <2>5
    <2> QED BY <2>3, <2>6
<1>10. Cardinality((1..n) \ I) = n - Cardinality(I)
    <2>1. Cardinality((1..n) \ I) = Cardinality(1..n) - Cardinality((1..n) \cap I)
        BY <1>5, FS_Difference
    <2>2. (1..n) \cap I = I
        BY <1>6
    <2> QED BY <1>5, <2>1, <2>2
<1> QED BY <1>1, <1>7, <1>8, <1>9, <1>10


LEMMA SizeOfBoth ==
    ASSUME NEW q \in Seq(Records), NEW r \in Seq(Records)
    PROVE  SizeOf(q \o r) = Total(Sizes(q), 1..Len(q)) + Total(Sizes(r), 1..Len(r))
<1>1. PICK both \in Seq(Records) : both = q \o r
    <2>1. (q \o r) \in Seq(Records)
        BY ConcatProperties
    <2> QED BY <2>1
<1>2. PICK c \in Nat : c = Len(q)
    OBVIOUS
<1>3. PICK n \in Nat : n = Len(both)
    OBVIOUS
<1>4. n = c + Len(r) /\ Len(r) \in Nat /\ n - c = Len(r) /\ c <= n
    <2>1. Len(both) = Len(q) + Len(r)
        BY <1>1, ConcatProperties
    <2>2. Len(r) \in Nat
        OBVIOUS
    <2> QED BY <1>2, <1>3, <2>1, <2>2
<1>5. (\A i \in 1..c : both[i] = q[i]) /\ \A k \in 1..n - c : both[c + k] = r[k]
    <2>1. \A i \in 1..n : both[i] = IF i <= c THEN q[i] ELSE r[i - c]
        BY <1>1, <1>2, <1>4, ConcatProperties
    <2>2. \A i \in 1..c : i \in 1..n /\ i <= c
        BY <1>4
    <2>3. \A k \in 1..n - c : c + k \in 1..n /\ ~(c + k <= c) /\ (c + k) - c = k
        BY <1>4
    <2> QED BY <2>1, <2>2, <2>3
<1>6. PageOf(both, c, n, r)
    BY <1>3, <1>4, <1>5 DEF PageOf
<1>7. Total(Sizes(both), 1..n) = Total(Sizes(both), 1..c) + SizeOf(r)
    BY <1>6, PageSizes
<1>8. Total(Sizes(both), 1..c) = Total(Sizes(q), 1..c)
    <2>1. \A i \in 1..c : Sizes(both)[i] = Sizes(q)[i]
        <3>0. DOMAIN both = 1..n /\ DOMAIN q = 1..c
            BY <1>2, <1>3
        <3>1. \A i \in 1..c : i \in DOMAIN both /\ i \in DOMAIN q
            BY <1>4, <3>0
        <3> QED BY <1>5, <3>1 DEF Sizes
    <2> QED BY <2>1, TotalAgree
<1>9. SizeOf(both) = Total(Sizes(both), 1..n)
    BY <1>3, SizeOfSequence
<1>10. SizeOf(r) = Total(Sizes(r), 1..Len(r))
    BY SizeOfSequence
<1> QED BY <1>1, <1>2, <1>7, <1>8, <1>9, <1>10

LEMMA EverythingIsExact ==
    ASSUME DataInv, candidate.exists, candidate.status = "SEALED"
    PROVE  SealedIsExact
<1>1. worker \in Workers /\ candidate \in Candidates
    BY DEF DataInv, DataTypes
<1>2. PICK s \in Results : s = worker.metadata
    BY <1>1 DEF Workers
<1>3. Everything(s) /\ candidate.stats = worker.quality /\ candidate.quality = Quality
    BY <1>2 DEF SealedIsEverything, DataInv
<1>4. PICK A \in Seq(Records) : A = s.artifacts
    <2>1. s.artifacts \in Seq(Artifacts) /\ Artifacts \subseteq Records
        BY ResultsAssumption DEF Records
    <2> QED BY <2>1, SeqMonotonic
<1>5. PICK R \in Seq(Records) : R = s.relations
    <2>1. s.relations \in Seq(Relations) /\ Relations \subseteq Records
        BY ResultsAssumption DEF Records
    <2> QED BY <2>1, SeqMonotonic
<1>6. PICK GA : GA = GoodArtifacts(s, Len(A))
    OBVIOUS
<1>7. PICK GR : GR = GoodRelations(s, Len(R))
    OBVIOUS
<1>8. /\ GA \in SUBSET (1..Len(A)) /\ (1..Len(A)) \ GA = BadArtifacts(s, Len(A))
      /\ GR \in SUBSET (1..Len(R)) /\ (1..Len(R)) \ GR = BadRelations(s, Len(R))
    BY <1>4, <1>5, <1>6, <1>7 DEF GoodArtifacts, BadArtifacts, GoodRelations, BadRelations
<1>9. PICK ia : ia = worker.quality.invalidArtifacts
    OBVIOUS
<1>10. PICK ir : ir = worker.quality.invalidRelations
    OBVIOUS
<1>11. /\ CheckedUpTo(A, Len(A)) /\ CheckedUpTo(R, Len(R))
       /\ ia = Cardinality(BadArtifacts(s, Len(A))) /\ ir = Cardinality(BadRelations(s, Len(R)))
       /\ Len(A) = s.artifactCount /\ Len(R) = s.relationCount
       /\ candidate.nodes = WantedNodes(s) /\ candidate.edges = WantedEdges(s)
    BY <1>3, <1>4, <1>5, <1>9, <1>10 DEF Everything, AllArtifacts, AllRelations, ArtifactsRead, RelationsRead
<1>12. /\ At(A, GA) = WantedNodes(s) /\ At(R, GR) = WantedEdges(s)
       /\ {a.id : a \in At(A, BadArtifacts(s, Len(A)))} = LeftOut(s)
    BY <1>4, <1>5, <1>6, <1>7, WholeResult
<1>13. Len(A) - Cardinality(WantedNodes(s)) = ia
    <2>1. Cardinality(At(A, GA)) = Cardinality(GA) /\ Cardinality((1..Len(A)) \ GA) = Len(A) - Cardinality(GA)
        BY <1>8, <1>11, RowsAreCounted
    <2> QED BY <1>8, <1>11, <1>12, <2>1
<1>14. Len(R) - Cardinality(WantedEdges(s)) = ir
    <2>1. Cardinality(At(R, GR)) = Cardinality(GR) /\ Cardinality((1..Len(R)) \ GR) = Len(R) - Cardinality(GR)
        BY <1>8, <1>11, RowsAreCounted
    <2> QED BY <1>8, <1>11, <1>12, <2>1
<1>15. ia = Cardinality(LeftOut(s))
    <2>1. PICK B : B = BadArtifacts(s, Len(A))
        OBVIOUS
    <2>2. B \in SUBSET (1..Len(A))
        BY <1>8, <2>1
    <2>3. Cardinality({a.id : a \in At(A, B)}) = Cardinality(B)
        BY <1>11, <2>2, RowsAreCounted
    <2> QED BY <1>11, <1>12, <2>1, <2>3
<1>16. s.matches /\ s.artifactCount <= MaxArtifacts /\ s.relationCount <= MaxRelations
    BY <1>3 DEF Everything, Fits
<1>17. StrictlyOrdered(A) /\ StrictlyOrdered(R)
    BY <1>11 DEF CheckedUpTo, StrictlyOrdered
<1>18. \A i \in DOMAIN (A \o R) : (A \o R)[i].identity /\ (A \o R)[i].size <= MaxRecordBytes
    <2> SUFFICES ASSUME NEW i \in DOMAIN (A \o R)
                 PROVE (A \o R)[i].identity /\ (A \o R)[i].size <= MaxRecordBytes
        OBVIOUS
    <2>1. i \in 1..Len(A) + Len(R) /\ Len(A) \in Nat /\ Len(R) \in Nat
        <3>1. (A \o R) \in Seq(Records) /\ Len(A \o R) = Len(A) + Len(R)
            BY ConcatProperties
        <3>2. DOMAIN (A \o R) = 1..Len(A \o R)
            BY <3>1, LenProperties
        <3> QED BY <3>1, <3>2
    <2>2. (A \o R)[i] = IF i <= Len(A) THEN A[i] ELSE R[i - Len(A)]
        BY <2>1, ConcatProperties
    <2>3. CASE i <= Len(A)
        <3>1. i \in 1..Len(A) /\ (A \o R)[i] = A[i]
            BY <2>1, <2>2, <2>3
        <3> QED BY <1>11, <3>1 DEF CheckedUpTo
    <2>4. CASE ~(i <= Len(A))
        <3>1. i - Len(A) \in 1..Len(R) /\ (A \o R)[i] = R[i - Len(A)]
            BY <2>1, <2>2, <2>4
        <3> QED BY <1>11, <3>1 DEF CheckedUpTo
    <2> QED BY <2>3, <2>4
<1>19. SizeOf(A \o R) <= MaxRevisionBytes
    BY <1>3, <1>4, <1>5, SizeOfBoth DEF Everything, BytesRead
<1>20. /\ ~ExceedsQualityThreshold(ia, s.artifactCount, MaxInvalidArtifacts)
       /\ ~ExceedsQualityThreshold(ir, s.relationCount, MaxInvalidRelations)
    BY <1>2, <1>3, <1>9, <1>10 DEF Everything, QualityRefused
<1>21. \A r \in WantedEdges(s) : References(r) \subseteq {n.id : n \in WantedNodes(s)}
    BY <1>3, <1>11 DEF Everything, EndpointsWritten
<1>22. Acceptable(s)
    BY <1>4, <1>5, <1>11, <1>13, <1>14, <1>16, <1>17, <1>18, <1>19, <1>20, <1>21 DEF Acceptable
<1>23. candidate.quality = "HEALTHY" <=> WantedNodes(s) = ToSet(s.artifacts) /\ WantedEdges(s) = ToSet(s.relations)
    <2>1. ia \in Nat /\ ir \in Nat
        <3>1. worker.quality \in Tallies
            BY <1>1 DEF Workers
        <3> QED BY <1>9, <1>10, <3>1 DEF Tallies
    <2>2. candidate.quality = "HEALTHY" <=> ia = 0 /\ ir = 0
        BY <1>3, <1>9, <1>10, <2>1 DEF Quality
    <2>3. ia = 0 <=> (1..Len(A)) \ GA = {}
        <3>1. PICK B : B = (1..Len(A)) \ GA
            OBVIOUS
        <3>2. IsFiniteSet(B)
            BY <1>11, <3>1, RowsAreCounted
        <3> QED BY <1>8, <1>11, <3>1, <3>2, FS_EmptySet
    <2>4. ir = 0 <=> (1..Len(R)) \ GR = {}
        <3>1. PICK B : B = (1..Len(R)) \ GR
            OBVIOUS
        <3>2. IsFiniteSet(B)
            BY <1>11, <3>1, RowsAreCounted
        <3> QED BY <1>8, <1>11, <3>1, <3>2, FS_EmptySet
    <2>5. (1..Len(A)) \ GA = {} <=> WantedNodes(s) = ToSet(A)
        <3>1. ToSet(A) = {A[i] : i \in 1..Len(A)}
            BY DEF ToSet
        <3>2. \A i \in 1..Len(A) : i \in GA <=> A[i].valid
            BY <1>4, <1>6 DEF GoodArtifacts
        <3>3. \A a : a \in WantedNodes(s) <=> a \in ToSet(A) /\ a.valid
            BY <1>4 DEF WantedNodes
        <3> QED BY <1>8, <3>1, <3>2, <3>3
    <2>6. (1..Len(R)) \ GR = {} <=> WantedEdges(s) = ToSet(R)
        <3>1. ToSet(R) = {R[i] : i \in 1..Len(R)}
            BY DEF ToSet
        <3>2. \A i \in 1..Len(R) : i \in GR <=> R[i].valid /\ References(R[i]) \cap LeftOut(s) = {}
            BY <1>5, <1>7 DEF GoodRelations
        <3>3. \A r : r \in WantedEdges(s) <=> r \in ToSet(R) /\ r.valid /\ References(r) \cap LeftOut(s) = {}
            BY <1>5 DEF WantedEdges
        <3> QED BY <1>8, <3>1, <3>2, <3>3
    <2> QED BY <1>4, <1>5, <2>2, <2>3, <2>4, <2>5, <2>6
<1> QED BY <1>2, <1>3, <1>9, <1>11, <1>15, <1>22, <1>23 DEF SealedIsExact

(* The invariant of the build, for every parser result, every page and     *)
(* batch size, every failing call and every moment at which the result is  *)
(* replaced, the lease lost or the candidate deleted.                      *)
THEOREM BuildInvariant == Spec => []DataInv
<1> QED BY InitData, StepData, PTL DEF Spec

(* A sealed candidate is exactly one acceptable parser result: worker.go   *)
(* never seals a mixture of two results, a part of one, or a graph whose   *)
(* statistics a query could not verify.                                    *)
THEOREM SealedGraphsAreExact == Spec => []SealedIsExact
<1>1. DataInv => SealedIsExact
    BY EverythingIsExact DEF SealedIsExact
<1> QED BY <1>1, BuildInvariant, PTL

-----------------------------------------------------------------------------
(***************************************************************************)
(* Queries of the active revision. The candidate of a worker that is about *)
(* to activate it verifies: only without the lease can it be deleted.      *)
(***************************************************************************)
Verified == worker.pc = "active" \/ (worker.pc = "activate" /\ lease) => VerifyRevision
Elsewhere == worker.pc \notin {"activate", "active"}

LEMMA FailsElsewhere ==
    ASSUME worker \in Workers, NEW why \in Failures, Fail(why)
    PROVE  Elsewhere'
BY DEF Workers, Failures, Fail, Elsewhere

LEMMA RetriesElsewhere ==
    ASSUME worker \in Workers, Elsewhere, NEW attempts, Retried(attempts)
    PROVE  Elsewhere'
BY DEF Workers, Fail, Elsewhere, Retried

(* Most steps neither come from the end of a build nor lead to it.         *)
LEMMA MostStepsElsewhere ==
    ASSUME worker \in Workers,
           \/ ReadMetadata \/ ReadArtifactPage \/ ReadRelationPage \/ ArtifactsWritten \/ RelationsWritten
           \/ CreateCandidate \/ CheckStage \/ WriteArtifactBatch \/ WriteRelationBatch
           \/ CompleteArtifactStage \/ LeaseRefused \/ PageUnavailable \/ Cancelled
    PROVE  Elsewhere'
<1>1. \A why \in Failures : Fail(why) => Elsewhere'
    BY FailsElsewhere
<1>2. {"changed", "invalid", "retryable", "lease"} \subseteq Failures
    BY DEF Failures
<1>3. \A attempts : Elsewhere /\ Retried(attempts) => Elsewhere'
    BY RetriesElsewhere
<1>4. CASE ReadMetadata
    BY <1>1, <1>2, <1>4 DEF ReadMetadata, Workers, Elsewhere
<1>5. CASE ReadArtifactPage
    BY <1>1, <1>2, <1>5 DEF ReadArtifactPage, Workers, Elsewhere
<1>6. CASE ReadRelationPage
    BY <1>1, <1>2, <1>6 DEF ReadRelationPage, Workers, Elsewhere
<1>7. CASE ArtifactsWritten
    BY <1>1, <1>2, <1>7 DEF ArtifactsWritten, TurnPage, Workers, Elsewhere
<1>8. CASE RelationsWritten
    BY <1>1, <1>2, <1>8 DEF RelationsWritten, TurnPage, Workers, Elsewhere
<1>9. CASE CreateCandidate
    BY <1>3, <1>9 DEF CreateCandidate, Workers, Elsewhere
<1>10. CASE CheckStage
    BY <1>1, <1>2, <1>10 DEF CheckStage, Workers, Elsewhere
<1>11. ASSUME NEW written, NEW refused, NEW counted, Commit(written, refused, counted), Elsewhere PROVE Elsewhere'
    BY <1>1, <1>2, <1>3, <1>11 DEF Commit, Workers, Elsewhere
<1>12. CASE WriteArtifactBatch \/ WriteRelationBatch
    BY <1>11, <1>12 DEF WriteArtifactBatch, WriteRelationBatch, Elsewhere
<1>13. CASE CompleteArtifactStage
    <2>1. Elsewhere
        BY <1>13 DEF CompleteArtifactStage, Elsewhere
    <2>2. \/ worker' = [worker EXCEPT !.pc = "read relations", !.tries = 0]
          \/ Fail("invalid") \/ Retried(BatchAttempts)
        BY <1>13 DEF CompleteArtifactStage
    <2>3. worker' = [worker EXCEPT !.pc = "read relations", !.tries = 0] => Elsewhere'
        BY DEF Workers, Elsewhere
    <2> QED BY <1>1, <1>2, <1>3, <2>1, <2>2, <2>3
<1>14. CASE LeaseRefused \/ Cancelled
    BY <1>1, <1>2, <1>14 DEF LeaseRefused, Cancelled
<1>15. CASE PageUnavailable
    BY <1>3, <1>15 DEF PageUnavailable, Elsewhere
<1> QED BY <1>4, <1>5, <1>6, <1>7, <1>8, <1>9, <1>10, <1>12, <1>13, <1>14, <1>15

LEMMA VerifiedStep ==
    ASSUME worker \in Workers, candidate \in Candidates, Verified, [Next]_vars
    PROVE  Verified'
<1>1. CASE \/ ReadMetadata \/ ReadArtifactPage \/ ReadRelationPage \/ ArtifactsWritten \/ RelationsWritten
           \/ CreateCandidate \/ CheckStage \/ WriteArtifactBatch \/ WriteRelationBatch
           \/ CompleteArtifactStage \/ LeaseRefused \/ PageUnavailable \/ Cancelled
    BY <1>1, MostStepsElsewhere DEF Elsewhere, Verified
<1>2. CASE SealCandidate
    <2>1. CASE /\ ~SealRefused /\ candidate' = Sealed
               /\ worker' = [worker EXCEPT !.pc = "activate", !.tries = 0]
        <3>1. candidate.exists
            BY <2>1 DEF SealRefused
        <3>2. worker'.quality = worker.quality /\ worker'.metadata = worker.metadata
            BY <2>1 DEF Workers
        <3>3. candidate' = [candidate EXCEPT !.status = "SEALED", !.stats = worker.quality, !.quality = Quality]
            BY <2>1 DEF Sealed
        <3>4. Quality' = Quality
            BY <3>2 DEF Quality
        <3>5. /\ candidate'.exists /\ candidate'.status = "SEALED"
              /\ candidate'.stats = worker.quality /\ candidate'.quality = Quality
            BY <3>1, <3>3 DEF Candidates
        <3>6. VerifyRevision'
            BY <3>2, <3>4, <3>5 DEF VerifyRevision
        <3> QED BY <3>6 DEF Verified
    <2>2. CASE Fail("invalid") \/ Retried(BatchAttempts)
        <3>1. Elsewhere
            BY <1>2 DEF SealCandidate, Elsewhere
        <3>2. Elsewhere'
            BY <2>2, <3>1, FailsElsewhere, RetriesElsewhere DEF Failures
        <3> QED BY <3>2 DEF Elsewhere, Verified
    <2> QED BY <1>2, <2>1, <2>2 DEF SealCandidate
<1>3. CASE Activate
    <2>1. VerifyRevision
        BY <1>3 DEF Activate, Verified
    <2>2. candidate' = candidate /\ worker'.quality = worker.quality
        BY <1>3 DEF Activate, Workers
    <2>3. VerifyRevision'
        BY <2>1, <2>2 DEF VerifyRevision, Quality
    <2> QED BY <2>3 DEF Verified
<1>4. CASE ReplaceResult
    BY <1>4 DEF ReplaceResult, Verified, VerifyRevision, Quality
<1>5. CASE LoseLease
    BY <1>5 DEF LoseLease, Verified, VerifyRevision, Quality
<1>6. CASE DeleteCandidate
    BY <1>6 DEF DeleteCandidate, Verified, Failures
<1>7. CASE UNCHANGED vars
    BY <1>7 DEF vars, Verified, VerifyRevision, Quality
<1> QED BY <1>1, <1>2, <1>3, <1>4, <1>5, <1>6, <1>7 DEF Next, Build

LEMMA SealedGraphIsDigested ==
    ASSUME DataInv, candidate.exists, candidate.status = "SEALED"
    PROVE  Digested(GraphOf(candidate))
<1>1. PICK s \in Results : candidate.nodes = WantedNodes(s)
    BY EverythingIsExact DEF SealedIsExact
<1>2. s.artifacts \in Seq(Artifacts)
    BY ResultsAssumption
<1>3. PICK A : A = ToSet(s.artifacts)
    OBVIOUS
<1>4. IsFiniteSet(A)
    <2>1. PICK n \in Nat : n = Len(s.artifacts) /\ DOMAIN s.artifacts = 1..n
        BY <1>2
    <2>2. PICK I : I = 1..n
        OBVIOUS
    <2>3. s.artifacts \in Surjection(I, A)
        BY <1>2, <1>3, <2>1, <2>2 DEF ToSet, Surjection
    <2>4. IsFiniteSet(I)
        BY <2>2, FS_Interval
    <2> QED BY <2>3, <2>4, FS_Surjection
<1>5. A \subseteq Artifacts
    BY <1>2, <1>3 DEF ToSet
<1>6. PICK N : N = candidate.nodes /\ N \subseteq A
    BY <1>1, <1>3 DEF WantedNodes
<1>7. PICK ids : ids = {n.id : n \in N}
    OBVIOUS
<1>8. IsFiniteSet(ids)
    <2>1. IsFiniteSet(N)
        BY <1>4, <1>6, FS_Subset
    <2>2. PICK f : f = [n \in N |-> n.id]
        OBVIOUS
    <2>3. f \in Surjection(N, ids)
        BY <1>7, <2>2 DEF Surjection
    <2> QED BY <2>1, <2>3, FS_Surjection
<1>9. ids \in SUBSET Int
    BY <1>5, <1>6, <1>7 DEF Artifacts
<1>10. \A m \in ids : Digest[m] \in Int /\ \A n \in ids : Digest[m] = Digest[n] => m = n
    BY <1>3, <1>6, <1>7, DigestAssumption
<1>11. GraphOf(candidate).nodes = ids
    BY <1>6, <1>7 DEF GraphOf
<1>12. PICK g : g = GraphOf(candidate)
    OBVIOUS
<1>13. Digested(g)
    BY <1>8, <1>9, <1>10, <1>11, <1>12 DEF Digested
<1> QED BY <1>12, <1>13

(* An active revision answers a query, within its budgets, with what the   *)
(* query means by paths, and so does the in-memory store, for every graph, *)
(* every depth, direction and filter: the pages that Neo4j cuts its levels *)
(* into leave out nothing that is nearer than what they show.              *)
THEOREM ActiveGraphsAnswer == Spec => []QueriesAgree
<1>1. Init => Verified
    BY DEF Init, Verified
<1>2. DataInv /\ Verified /\ [Next]_vars => Verified'
    BY VerifiedStep DEF DataInv, DataTypes
<1>3. DataInv /\ Verified => QueriesAgree
    <2> SUFFICES ASSUME DataInv, Verified, worker.pc = "active", NEW q \in Queries
                 PROVE  Agree(GraphOf(candidate), q, QueryActive(q), MemoryQuery(GraphOf(candidate), q))
        BY DEF QueriesAgree, Agree
    <2>1. VerifyRevision
        BY DEF Verified
    <2>2. PICK g : g = GraphOf(candidate)
        OBVIOUS
    <2>3. QueryActive(q) = Neo4jQuery(g, q)
        BY <2>1, <2>2 DEF QueryActive
    <2>4. Digested(g)
        BY <2>1, <2>2, SealedGraphIsDigested DEF VerifyRevision
    <2>5. q.limit \in Nat /\ q.depth \in Nat
        BY QueriesAssumption
    <2>6. Agree(g, q, Neo4jQuery(g, q), MemoryQuery(g, q))
        BY <2>4, <2>5, StoresAgree
    <2> QED BY <2>2, <2>3, <2>6
<1>4. Spec => []Verified
    BY <1>1, <1>2, BuildInvariant, PTL DEF Spec
<1> QED BY <1>3, <1>4, BuildInvariant, PTL
=============================================================================
