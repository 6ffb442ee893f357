-------------------------- MODULE MCRepositoryTasks -------------------------
(* Small instances of RepositoryTasks for TLC.                             *)
EXTENDS RepositoryTasks, TLC

CONSTANTS j1, j2, j3, u1, u2, w1, w2, k1, k2, m1, m2, o1, o2

MCKeys == {k1}
MCTwoKeys == {k1, k2}
MCOwners == (w1 :> o1) @@ (w2 :> o2)
MCOneOwner == [w \in {w1, w2} |-> o1]

(* A local path, and a remote repository.                                  *)
Local == [path |-> "resolved", url |-> None, provider |-> "local"]
Remote == [path |-> None, url |-> "remote", provider |-> ""]

MCLocal == [k \in MCKeys |-> Local]
MCTwoLocal == [k \in MCTwoKeys |-> Local]
MCRemote == [k \in MCKeys |-> Remote]

(* Submissions that may fail or not; with those that may, two of them.     *)
MCReadings == [fail \in BOOLEAN |-> IF fail THEN 2 ELSE 4]
MCTwoReadings == [fail \in BOOLEAN |-> 2]
MCThreeReadings == [fail \in BOOLEAN |-> 3]

(* Jobs and clients may be exchanged.                                      *)
Symmetry == Permutations({j1, j2, j3}) \cup Permutations({u1, u2})
=============================================================================
