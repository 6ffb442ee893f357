--------------------------- MODULE MCGraphConsumer --------------------------
(* Small instances of GraphConsumer for TLC.                               *)
EXTENDS GraphConsumer, TLC

CONSTANTS e1, f1, k1, d1, d2, u1, c1, c2, s1, s2, t1, v1, v2

MCTenantOf == [s \in {s1, s2} |-> t1]
MCSnapshotOf == (e1 :> s1) @@ (f1 :> s2)
MCRequests == [key : {k1}, snapshot : {s1, s2}]
MCSameRequest == [key : {k1}, snapshot : {s2}]

Symmetry == Permutations({c1, c2}) \cup Permutations({v1, v2})
=============================================================================
