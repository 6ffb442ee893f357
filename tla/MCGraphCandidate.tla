--------------------------- MODULE MCGraphCandidate ---------------------------
(* Parser results of up to three artifacts and four relations: one without *)
(* faults, one with records to leave out, and one per way to be refused.   *)
EXTENDS GraphCandidate

Artifact(id, type) == [id |-> id, type |-> type, identity |-> TRUE, valid |-> TRUE, size |-> 1]
Relation(id, from, status, targets, kind) ==
    [id |-> id, from |-> from, status |-> status, targets |-> targets, kind |-> kind,
     identity |-> TRUE, valid |-> TRUE, size |-> 1]

Files == <<Artifact(1, "FILE"), Artifact(2, "CLASS"), Artifact(3, "FILE")>>
Links == <<Relation(1, 1, "RESOLVED", {2}, "CALLS"), Relation(2, 2, "RESOLVED", {3}, "CONTAINS"),
           Relation(3, 3, "AMBIGUOUS", {1, 2}, "CALLS"), Relation(4, 3, "UNRESOLVED", {}, "CALLS")>>
Result(checksum, artifacts, relations) ==
    [checksum |-> checksum, matches |-> TRUE, artifacts |-> artifacts, relations |-> relations,
     artifactCount |-> Len(artifacts), relationCount |-> Len(relations)]

Sound == Result("sound", Files, Links)
Degraded == Result("degraded", [Files EXCEPT ![2].valid = FALSE],
                   SubSeq(Links, 1, 2) \o <<Relation(3, 3, "RESOLVED", {1}, "CALLS"),
                                            Relation(4, 1, "EXTERNAL", {}, "IMPORTS")>>)
LargeFiles == [Files EXCEPT ![2].size = 2, ![3].size = 2]
Large == Result("large", LargeFiles, SubSeq(Links, 1, 3))
TooLarge == Result("too large", LargeFiles, Links)
Other == Result("other", <<Artifact(1, "FILE"), Artifact(2, "FILE"), Artifact(3, "CLASS")>>,
                <<Links[1], Relation(3, 1, "RESOLVED", {3}, "CALLS"), Relation(4, 3, "RESOLVED", {1}, "CALLS")>>)
Dangling == Result("dangling", SubSeq(Files, 1, 2), Links)
Short == [Result("short", Files, Links) EXCEPT !.artifactCount = 4]
Spoiled == Result("spoiled", [i \in 1..3 |-> [Files[i] EXCEPT !.valid = (i = 3)]], <<>>)
Foreign == [Result("foreign", Files, Links) EXCEPT !.matches = FALSE]
Long == Result("long", Files \o <<Artifact(4, "FILE"), Artifact(5, "FILE")>>, <<>>)
Unordered == Result("unordered", <<Files[2], Files[1]>>, <<>>)

MCResults == {Sound, Degraded, Large, TooLarge, Other, Dangling, Short, Spoiled, Foreign, Long,
              Unordered}
MCDigest == <<2, 0, 1, 3, 4>>
MCQueries ==
    [roots : {{}, {1}, {3, 1}}, depth : {1, 2, 3}, direction : {"BOTH", "OUTGOING", "INCOMING"},
     types : {{}, {"FILE"}}, kinds : {{}, {"CALLS"}}, limit : {0, 1, 2}]
=============================================================================
