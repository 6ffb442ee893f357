--------------------------- MODULE MCGraphControl ---------------------------
(* Small instances of GraphControl for TLC.                                *)
EXTENDS GraphControl, TLC

CONSTANTS j1, j2, a1, a2, a3, w1, w2, c1, s1, s2, p1, p2, t1

(* Two build versions of one snapshot, and two snapshots of a repository.  *)
MCJobs == {j1, j2}
MCOneJob == {j1}
MCSameSnapshot == [j \in MCJobs |-> s1]
MCTwoSnapshots == (j1 :> s1) @@ (j2 :> s2)
MCOneSnapshot == [j \in MCOneJob |-> s1]
MCRepository == [j \in MCJobs |-> p1]
MCTwoRepositories == (j1 :> p1) @@ (j2 :> p2)
MCOneRepository == [j \in MCOneJob |-> p1]
MCTenant == [j \in MCJobs |-> t1]
MCOneTenant == [j \in MCOneJob |-> t1]

Symmetry == Permutations({a1, a2, a3}) \cup Permutations({w1, w2})
=============================================================================
