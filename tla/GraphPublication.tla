-------------------------- MODULE GraphPublication --------------------------
(***************************************************************************)
(* What the graph build control plane promises to its readers, without     *)
(* attempts, leases, workers and clocks. Every job is decided at most      *)
(* once. A success publishes one complete revision: in the same step the   *)
(* job is decided, the pointer of its snapshot moves to the revision and   *)
(* the event that announces it is stored. A published revision stays       *)
(* complete; everything else may be discarded.                             *)
(***************************************************************************)
CONSTANTS Jobs, Revisions, Snapshots, None, SnapshotOf

VARIABLES
    outcome,    \* the verdict on each job
    published,  \* the revision each job published
    pointer,    \* the active revision of each snapshot
    announced,  \* revisions with a stored event
    complete    \* revisions whose graph is stored and sealed

vars == <<outcome, published, pointer, announced, complete>>

Init ==
    /\ outcome = [j \in Jobs |-> "OPEN"]
    /\ published = [j \in Jobs |-> None]
    /\ pointer = [s \in Snapshots |-> None]
    /\ announced = {}
    /\ complete = {}

Complete(r) ==
    /\ r \notin complete
    /\ complete' = complete \cup {r}
    /\ UNCHANGED <<outcome, published, pointer, announced>>

Discard(r) ==
    /\ r \in complete
    /\ \A j \in Jobs : published[j] # r
    /\ complete' = complete \ {r}
    /\ UNCHANGED <<outcome, published, pointer, announced>>

Publish(j, r) ==
    /\ outcome[j] = "OPEN"
    /\ r \in complete
    /\ r \notin announced
    /\ outcome' = [outcome EXCEPT ![j] = "SUCCEEDED"]
    /\ published' = [published EXCEPT ![j] = r]
    /\ pointer' = [pointer EXCEPT ![SnapshotOf[j]] = r]
    /\ announced' = announced \cup {r}
    /\ UNCHANGED complete

GiveUp(j, verdict) ==
    /\ outcome[j] = "OPEN"
    /\ outcome' = [outcome EXCEPT ![j] = verdict]
    /\ UNCHANGED <<published, pointer, announced, complete>>

Next ==
    \/ \E r \in Revisions : Complete(r) \/ Discard(r)
    \/ \E j \in Jobs, r \in Revisions : Publish(j, r)
    \/ \E j \in Jobs : GiveUp(j, "FAILED") \/ GiveUp(j, "CANCELLED")

Spec == Init /\ [][Next]_vars
=============================================================================
