------------------------------- MODULE CodeGraph ------------------------------
(***************************************************************************)
(* The graph of one revision and the traversal that a query makes of it,   *)
(* as the two stores compute it: Neo4j level by level, every level one     *)
(* bounded database query, and the in-memory store over the whole          *)
(* revision. Entities are the artifacts, numbered in the order of their    *)
(* identities; the facts are the resolved relations. Issues and external   *)
(* entities are rows of neither: no query returns or crosses them.         *)
(*                                                                         *)
(*   graph  [nodes : ids, type : id -> type, facts : {[id,from,to,kind]}]  *)
(*   query  [roots, depth, direction, types, kinds, limit]                 *)
(***************************************************************************)
EXTENDS Integers, SequencesExt

CONSTANTS
    DefaultLimit,    \* the limit of a query that names none (500)
    MaxNodes,        \* GraphDataConfig: nodes of one result
    MaxEdges,        \* GraphDataConfig: edges of one result
    MaxFrontier,     \* GraphDataConfig: nodes of one level
    MaxRoots,        \* GraphDataConfig: roots of one query
    MaxQueries,      \* GraphDataConfig: database queries of one query
    Digest           \* the in-memory store orders nodes by a digest of the id

ASSUME GraphBudgets ==
    /\ {DefaultLimit, MaxNodes, MaxEdges, MaxFrontier, MaxRoots} \subseteq Nat \ {0}
    /\ MaxQueries \in Nat /\ MaxQueries >= 4

Least(a, b) == IF a < b THEN a ELSE b
LimitOf(q) == IF q.limit = 0 THEN DefaultLimit ELSE q.limit
Take(s, n) == SubSeq(s, 1, Least(n, Len(s)))

EntityMatches(g, q, n) == n \in g.nodes /\ (q.types = {} \/ g.type[n] \in q.types)
RelationMatches(q, e) == q.kinds = {} \/ e.kind \in q.kinds

(* One pattern match from a node: the direction, then both filters.        *)
Neighbours(g, q, n) ==
    {m \in g.nodes :
        /\ EntityMatches(g, q, m)
        /\ \E e \in g.facts :
              /\ RelationMatches(q, e)
              /\ \/ q.direction # "INCOMING" /\ e.from = n /\ e.to = m
                 \/ q.direction # "OUTGOING" /\ e.to = n /\ e.from = m}

NextLevel(g, q, frontier, seen) == (UNION {Neighbours(g, q, n) : n \in frontier}) \ seen

(* sort.Slice: the members of a set in the strict order `before`; and the  *)
(* records of a sequence that pass a test, in the order of the sequence.   *)
Ordered(S, before(_, _)) ==
    LET place == [x \in S |-> Cardinality({y \in S : before(y, x)}) + 1]
    IN [i \in 1..Cardinality(S) |-> CHOOSE x \in S : place[x] = i]
Kept(s, ok(_)) ==
    LET at == Ordered({i \in DOMAIN s : ok(s[i])}, <)
    IN [k \in DOMAIN at |-> s[at[k]]]

ById(S) == Ordered(S, <)
ByDigest(S) == Ordered(S, LAMBDA a, b : Digest[a] < Digest[b])

Refused(why) == [error |-> why, nodes |-> <<>>, facts |-> {}, visited |-> 0, truncated |-> FALSE]

(* The tail of both stores' queries: cut the visited nodes to the limit    *)
(* and keep the facts between the nodes that are left.                     *)
Answer(g, q, visited) ==
    LET shown == Take(visited, LimitOf(q))
    IN [error |-> "none", nodes |-> shown,
        facts |-> {e \in g.facts : RelationMatches(q, e) /\ {e.from, e.to} \subseteq ToSet(shown)},
        visited |-> Len(visited), truncated |-> Len(visited) > LimitOf(q)]

(***************************************************************************)
(* GraphDataStore.discoverNodes: a level is read only while depth is left, *)
(* the frontier is not empty and at most `limit` nodes are known; its      *)
(* query returns no more rows than the answer still needs plus one.        *)
(***************************************************************************)
Neo4jLevels(g, q) ==
    LET walk[d \in 0..q.depth] ==
            IF d = 0 THEN [visited |-> ById(q.roots), frontier |-> q.roots, over |-> FALSE]
            ELSE LET was == walk[d - 1]
                     pageLimit == Least(LimitOf(q) + 1 - Len(was.visited), MaxFrontier + 1)
                     next == Take(ById(NextLevel(g, q, was.frontier, ToSet(was.visited))), pageLimit)
                 IN IF was.over \/ was.frontier = {} \/ Len(was.visited) > LimitOf(q) THEN was
                    ELSE [visited |-> was.visited \o next, frontier |-> ToSet(next),
                          over |-> Len(next) > MaxFrontier]
    IN walk[q.depth]

Neo4jNodesUncounted(g, q) ==
    [visited |-> Take(Neo4jLevels(g, q).visited, LimitOf(q)), over |-> FALSE]
Neo4jNodes(g, q) ==
    IF q.roots = {}
    THEN [visited |-> Take(ById({n \in g.nodes : EntityMatches(g, q, n)}), LimitOf(q) + 1), over |-> FALSE]
    ELSE Neo4jLevels(g, q)

Neo4jRefusal(g, q) ==
    CASE LimitOf(q) > MaxNodes -> "budget"
      [] (IF q.roots = {} THEN 4 ELSE 4 + q.depth) > MaxQueries -> "budget"
      [] Cardinality(q.roots) > MaxRoots -> "budget"
      [] Cardinality(q.roots) > LimitOf(q) -> "invalid"
      [] \E n \in q.roots : ~EntityMatches(g, q, n) -> "root"
      [] OTHER -> "none"

(* GraphDataStore.QueryRevision on a sealed revision.                      *)
Neo4jQuery(g, q) ==
    LET found == Neo4jNodes(g, q)
        result == Answer(g, q, found.visited)
    IN IF Neo4jRefusal(g, q) # "none" THEN Refused(Neo4jRefusal(g, q))
       ELSE IF found.over \/ Cardinality(result.facts) > MaxEdges THEN Refused("budget")
       ELSE result

(***************************************************************************)
(* GraphRepository.Query of the in-memory store: no budgets, every level   *)
(* complete, and the answer cut at the very end.                           *)
(***************************************************************************)
MemoryLevels(g, q) ==
    LET walk[d \in 0..q.depth] ==
            IF d = 0 THEN [visited |-> ByDigest(q.roots), frontier |-> q.roots]
            ELSE LET was == walk[d - 1]
                     next == NextLevel(g, q, was.frontier, ToSet(was.visited))
                 IN [visited |-> was.visited \o ByDigest(next), frontier |-> next]
    IN walk[q.depth].visited

MemoryQuery(g, q) ==
    IF \E n \in q.roots : ~EntityMatches(g, q, n) THEN Refused("root")
    ELSE IF Cardinality(q.roots) > LimitOf(q) THEN Refused("invalid")
    ELSE Answer(g, q, IF q.roots = {} THEN ByDigest({n \in g.nodes : EntityMatches(g, q, n)})
                      ELSE MemoryLevels(g, q))
-----------------------------------------------------------------------------
(* What a traversal means, without levels: a node is within k steps when a *)
(* path of at most k matching facts leads to it from a root.               *)
Within(g, q, k) ==
    {n \in g.nodes :
        \E length \in 0..k : \E path \in [0..length -> g.nodes] :
            /\ path[0] \in q.roots /\ path[length] = n
            /\ \A i \in 1..length : path[i] \in Neighbours(g, q, path[i - 1])}

Meant(g, q) ==
    IF q.roots = {} THEN {n \in g.nodes : EntityMatches(g, q, n)} ELSE Within(g, q, q.depth)

(* An answer shows what the query means: all of it, or, and then says so,  *)
(* as many nodes as the limit with nothing left out that is nearer.        *)
Faithful(g, q, a) ==
    LET shown == ToSet(a.nodes)
        meant == Meant(g, q)
    IN /\ shown \subseteq meant /\ Len(a.nodes) = Cardinality(shown)
       /\ a.truncated <=> Cardinality(meant) > LimitOf(q)
       /\ ~a.truncated => shown = meant
       /\ a.truncated =>
             /\ Cardinality(shown) = LimitOf(q)
             /\ q.roots # {} => \A k \in 0..q.depth :
                   (shown \ Within(g, q, k)) # {} => Within(g, q, k) \subseteq shown
       /\ a.facts = {e \in g.facts : RelationMatches(q, e) /\ {e.from, e.to} \subseteq shown}
=============================================================================
