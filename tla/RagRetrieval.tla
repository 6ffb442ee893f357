----------------------------- MODULE RagRetrieval -----------------------------
(***************************************************************************)
(* One retrieval over the documents of an index revision: score every      *)
(* document by four strategies, rank, rerank, cut and fill the context.    *)
(* The seeds of the graph strategy are expanded in the graph of CodeGraph. *)
(*                                                                         *)
(*   document  [id, artifact, language, kind, path : Seq(segment),         *)
(*              terms : Seq(token) in order, text : Seq(token)]            *)
(*   request   [query : Seq(token), strategies, languages, kinds,          *)
(*              prefixes : SUBSET Seq(segment), artifacts, topK]           *)
(*                                                                         *)
(* Scores are integers in units of 1/One. A token is one character of the  *)
(* context; document ids are numbers, in the order of the digests.         *)
(***************************************************************************)
EXTENDS CodeGraph

CONSTANTS
    DefaultTopK, MaxTopK, MaxContextChars, GraphDepth, GraphSeedCount,
    Weight,          \* strategy -> weight of its score
    Prefixed(_, _),  \* the first token is a prefix of the second
    Cosine(_, _),    \* of the hashed features of a query and a document
    Rerank(_, _)     \* the reranker port: hits that another reranker returns for hits

One == 60
Strategies == {"SYMBOL", "KEYWORD", "SEMANTIC", "GRAPH"}

ASSUME RetrievalAssumption ==
    /\ {DefaultTopK, MaxTopK, MaxContextChars, GraphDepth, GraphSeedCount} \subseteq Nat \ {0}
    /\ DefaultTopK <= MaxTopK
    /\ Weight \in [Strategies -> Nat] /\ \E s \in Strategies : Weight[s] > 0

(* RetrievalRequest.Validate, and the two defaults Search fills in.        *)
ValidRequest(r) == r.query # <<>> /\ r.topK \in 0..MaxTopK /\ r.strategies \subseteq Strategies
TopK(r) == IF r.topK = 0 THEN DefaultTopK ELSE r.topK
Active(r) == IF r.strategies = {} THEN Strategies ELSE r.strategies

FilterDocuments(docs, r) ==
    {d \in docs :
        /\ r.languages = {} \/ d.language \in r.languages
        /\ r.kinds = {} \/ d.kind \in r.kinds
        /\ r.artifacts = {} \/ d.artifact \in r.artifacts
        /\ r.prefixes = {} \/ \E p \in r.prefixes : IsPrefix(p, d.path)}

Sum(f) == MapThenSumSet(LAMBDA x : f[x], DOMAIN f)
Greatest(S) == CHOOSE x \in S : \A y \in S : y <= x

(***************************************************************************)
(* symbolScore: each token of the query takes the first term that equals   *)
(* it (1) or shares a prefix with it (0.6); terms are in alphabetic order. *)
(***************************************************************************)
SymbolScore(query, d) ==
    LET related(q, t) == q = t \/ Prefixed(q, t) \/ Prefixed(t, q)
        first(q) == SelectInSeq(d.terms, LAMBDA t : related(q, t))
        points(at, q) == IF at = 0 THEN 0 ELSE IF d.terms[at] = q THEN One ELSE (6 * One) \div 10
    IN Sum([i \in 1..Len(query) |-> points(first(query[i]), query[i])]) \div Len(query)

(***************************************************************************)
(* bm25Scores: positive exactly for the documents that hold a token of the *)
(* query, more for a rare token, and 1 for the best document. The          *)
(* logarithm, the saturation and the length are left out of the weight.    *)
(***************************************************************************)
Rarity(docs, q) == Cardinality(docs) + 1 - Cardinality({d \in docs : q \in ToSet(d.text)})
Weigh(query, docs, d) == Sum([q \in ToSet(query) \cap ToSet(d.text) |-> Rarity(docs, q)])
KeywordScores(query, docs) ==
    LET best == Greatest({Weigh(query, docs, d) : d \in docs})
    IN [d \in docs |-> IF best = 0 THEN 0 ELSE (One * Weigh(query, docs, d)) \div best]

(* Lexical and semantic scores; the graph strategy needs the lexical ones. *)
BaseScores(r, docs) ==
    LET uses(s) == Active(r) \cap {s, "GRAPH"} # {}
        keyword == KeywordScores(r.query, docs)
    IN [d \in docs |->
           [SYMBOL |-> IF uses("SYMBOL") THEN SymbolScore(r.query, d) ELSE 0,
            KEYWORD |-> IF uses("KEYWORD") THEN keyword[d] ELSE 0,
            SEMANTIC |-> IF "SEMANTIC" \in Active(r) /\ Cosine(r.query, d) > 0 THEN Cosine(r.query, d) ELSE 0,
            GRAPH |-> 0]]

Scored(scores) == {d \in DOMAIN scores : \E s \in Strategies : scores[d][s] > 0}
RankBy(docs, value) ==
    Ordered(docs, LAMBDA a, b : value[a] > value[b] \/ (value[a] = value[b] /\ a.id < b.id))

(***************************************************************************)
(* expandGraph: the best documents so far are the roots of one query of    *)
(* the snapshot's graph; documents the query reaches score 0.65, roots 1.  *)
(* Without a graph, without seeds or when the query is refused, the        *)
(* strategy adds nothing and the search goes on.                           *)
(***************************************************************************)
Seeds(scores) ==
    Take(RankBy(Scored(scores), [d \in Scored(scores) |-> scores[d].SYMBOL + scores[d].KEYWORD + scores[d].SEMANTIC]),
         GraphSeedCount)
Expansion(roots) ==
    [roots |-> roots, depth |-> GraphDepth, direction |-> "BOTH", types |-> {}, kinds |-> {}, limit |-> MaxTopK * 10]
GraphScore(artifact, roots, reached) ==
    IF artifact \notin reached THEN 0 ELSE IF artifact \in roots THEN One ELSE (65 * One) \div 100
Reach(scores, roots, reached) ==
    [d \in DOMAIN scores |-> [scores[d] EXCEPT !.GRAPH = GraphScore(d.artifact, roots, reached)]]
ExpandFrom(g, scores, roots) ==
    IF roots = {} THEN scores ELSE Reach(scores, roots, ToSet(MemoryQuery(g, Expansion(roots)).nodes))
ExpandGraph(g, scores) == ExpandFrom(g, scores, {d.artifact : d \in ToSet(Seeds(scores))})

Score(r, docs, g) ==
    IF "GRAPH" \in Active(r) THEN ExpandGraph(g, BaseScores(r, docs)) ELSE BaseScores(r, docs)

(* makeHits: the weighted sum over the strategies asked for.               *)
Combined(r, score) == Sum([s \in Active(r) |-> score[s] * Weight[s]])
MakeHits(r, scores) ==
    LET value == [d \in Scored(scores) |-> Combined(r, scores[d])]
        ranked == RankBy({d \in Scored(scores) : value[d] > 0}, value)
    IN [i \in DOMAIN ranked |-> [document |-> ranked[i], score |-> value[ranked[i]]]]

(* The reranker of the repository returns the hits it was given; any other *)
(* what validateRerankedHits lets through.                                 *)
Reranked(reranker, hits) == IF reranker = "identity" THEN hits ELSE Rerank(reranker, hits)
RerankAccepted(hits, scores) ==
    /\ hits \in Seq([document : Scored(scores), score : Nat])
    /\ \A i, k \in DOMAIN hits : hits[i].document = hits[k].document => i = k

SortHits(hits) ==
    LET before(a, b) == a.score > b.score \/ (a.score = b.score /\ a.document.id < b.document.id)
    IN Ordered(ToSet(hits), before)

(***************************************************************************)
(* buildContext: whole texts while they fit; the first one that does not   *)
(* is cut, and whatever is cut or left out marks the context truncated.    *)
(***************************************************************************)
TextOf(hits) == [i \in DOMAIN hits |-> hits[i].document.text]
Used(hits, n) == Sum([i \in 1..n |-> Len(hits[i].document.text)])
BuildContext(hits) ==
    LET room(i) == MaxContextChars - Used(hits, i - 1)
        shown == {i \in DOMAIN hits : room(i) > 0}
        n == Cardinality(shown)
        items == [i \in 1..n |-> [document |-> hits[i].document, text |-> Take(hits[i].document.text, room(i))]]
    IN [items |-> items, characters |-> Sum([i \in 1..n |-> Len(items[i].text)]),
        truncated |-> n < Len(hits) \/ Used(hits, n) > MaxContextChars]

Bundle(error, hits) == [error |-> error, hits |-> hits, context |-> BuildContext(hits)]
Cut(r, scores, reranked) ==
    IF RerankAccepted(reranked, scores) THEN Bundle("none", Take(SortHits(reranked), TopK(r)))
    ELSE Bundle("rerank", <<>>)
Rank(r, scores, reranker) == Cut(r, scores, Reranked(reranker, Take(MakeHits(r, scores), TopK(r) * 4)))

(* Search after the documents are loaded.                                  *)
Retrieve(r, docs, g, reranker) ==
    LET matching == FilterDocuments(docs, r)
    IN IF matching = {} THEN Bundle("none", <<>>) ELSE Rank(r, Score(r, matching, g), reranker)
=============================================================================
