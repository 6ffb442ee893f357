------------------------------ MODULE LegacyGraph ------------------------------
(***************************************************************************)
(* The graph service that keeps its revisions in memory: a build takes the *)
(* whole parse result of a snapshot, or none of it; builds are serialised  *)
(* by a mutex, a snapshot gets one graph, and a key stands for one         *)
(* request. Retrieval and the wiki read what it has published.             *)
(*                                                                         *)
(*   parse result  [complete, commit, artifacts : Seq([id, type, valid]),  *)
(*                  relations : Seq([id, from, to, kind, valid])]          *)
(***************************************************************************)
EXTENDS CodeGraph

CONSTANTS
    Snapshots, Keys,
    Parsed,                     \* snapshot -> parse result
    GraphCalls,                 \* calls of Build
    MaxArtifacts, MaxRelations,
    None

ASSUME LegacyAssumption ==
    /\ DOMAIN Parsed = Snapshots
    /\ {MaxArtifacts, MaxRelations} \subseteq Nat
    /\ None \notin GraphCalls \cup Keys \cup Snapshots

(* Identities are numbered in their order, and no two digests are equal.   *)
ASSUME ParsedAssumption ==
    \A s \in Snapshots :
        LET p == Parsed[s]
        IN /\ p.artifacts \in Seq(ToSet(p.artifacts)) /\ p.relations \in Seq(ToSet(p.relations))
           /\ \A a \in ToSet(p.artifacts) : a.id \in Nat /\ Digest[a.id] \in Nat
           /\ \A a, b \in ToSet(p.artifacts) : Digest[a.id] = Digest[b.id] => a.id = b.id
           /\ \A r \in ToSet(p.relations) : r.id \in Nat

VARIABLES
    graphs,       \* snapshot -> [id, graph] of its published revision, or None
    graphKeys,    \* idempotency key -> snapshot whose revision it names
    builder,      \* call of Build -> [pc, key, snapshot]
    announced     \* events the bus took: [type, id, snapshot, content]

graphVars == <<graphs, graphKeys, builder>>

GraphInit ==
    /\ graphs = [s \in Snapshots |-> None]
    /\ graphKeys = [k \in Keys |-> None]
    /\ builder = [c \in GraphCalls |-> [pc |-> "idle", key |-> None, snapshot |-> None]]

(* apply: one bad record fails the build. A relation whose target is no    *)
(* artifact becomes an issue, which no query of the store returns.         *)
Artifacts(p) == {a.id : a \in ToSet(p.artifacts)}
Applies(p) ==
    /\ \A a \in ToSet(p.artifacts) : a.valid
    /\ Cardinality(Artifacts(p)) = Len(p.artifacts)
    /\ \A r \in ToSet(p.relations) : r.valid /\ r.from \in Artifacts(p)
    /\ Cardinality({r.id : r \in ToSet(p.relations)}) = Len(p.relations)

GraphOfParse(p) ==
    LET resolved == {r \in ToSet(p.relations) : r.to \in Artifacts(p)}
    IN [nodes |-> Artifacts(p),
        type |-> [n \in Artifacts(p) |-> (CHOOSE a \in ToSet(p.artifacts) : a.id = n).type],
        facts |-> {[id |-> r.id, from |-> r.from, to |-> r.to, kind |-> r.kind] : r \in resolved},
        issues |-> {r.id : r \in ToSet(p.relations) \ resolved}]
ASSUME GraphAssumption ==
    None \notin {[id |-> c, graph |-> GraphOfParse(Parsed[s])] : c \in GraphCalls, s \in Snapshots}

(* The parse result is read and checked before the mutex is taken.         *)
LoadParse(c, key, snapshot) ==
    LET p == Parsed[snapshot]
        accepted == p.complete /\ Len(p.artifacts) <= MaxArtifacts /\ Len(p.relations) <= MaxRelations
    IN /\ builder[c].pc = "idle"
       /\ builder' = [builder EXCEPT ![c] = [pc |-> IF accepted THEN "build" ELSE "refused",
                                             key |-> key, snapshot |-> snapshot]]
       /\ UNCHANGED <<graphs, graphKeys, announced>>

GraphEvent(s) == [type |-> "graph", id |-> graphs'[s].id, snapshot |-> s, content |-> s]

(* The mutex covers the rest: the lookup of the key, Save, the read back   *)
(* and the publication of the event. A lookup that hits publishes nothing. *)
(* The context of the caller may end, and a store or bus refuse, anywhere. *)
SaveGraph(c, key, s) ==
    /\ graphs[s] = None
    /\ graphs' = [graphs EXCEPT ![s] = [id |-> c, graph |-> GraphOfParse(Parsed[s])]]
    /\ graphKeys' = [graphKeys EXCEPT ![key] = s]

Known(key) == graphKeys[key] # None
BuildGraph(c) ==
    LET key == builder[c].key
        s == builder[c].snapshot
        leave(pc) == builder' = [builder EXCEPT ![c].pc = pc]
    IN /\ builder[c].pc = "build"
       /\ \/ /\ Known(key)
             /\ leave(IF graphKeys[key] = s THEN "done" ELSE "conflict")
             /\ UNCHANGED <<graphs, graphKeys, announced>>
          \/ leave("failed") /\ UNCHANGED <<graphs, graphKeys, announced>>
          \/ /\ ~Known(key) /\ Applies(Parsed[s])
             /\ SaveGraph(c, key, s)
             /\ \/ leave("done") /\ announced' = announced \cup {GraphEvent(s)}
                \/ leave("unannounced") /\ UNCHANGED announced

GraphNext ==
    \E c \in GraphCalls :
        \/ \E key \in Keys, s \in Snapshots : LoadParse(c, key, s)
        \/ BuildGraph(c)

(* Service.Query on the store of this service.                             *)
NoGraph == [nodes |-> {}, type |-> <<>>, facts |-> {}, issues |-> {}]
GraphAt(s) == IF graphs[s] = None THEN NoGraph ELSE graphs[s].graph
RevisionAt(s) == IF graphs[s] = None THEN None ELSE graphs[s].id
=============================================================================
