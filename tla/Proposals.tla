------------------------------- MODULE Proposals -------------------------------
(***************************************************************************)
(* The coding assistant: a proposal rests on the evidence of one commit    *)
(* and changes only files whose content at that commit is known; an        *)
(* approved one is claimed, applied to the checkout by git and recorded.   *)
(* Nothing ties the record to the checkout: calls stop between the two,    *)
(* and developers work in the same tree. No process of the repository runs *)
(* this service yet.                                                       *)
(*                                                                         *)
(*   command  [key, snapshot, session, user, intent,                       *)
(*             selected : Seq(reference),                                  *)
(*             request : the search of its instruction under those paths]  *)
(*   draft    [files : artifacts changed, known : every base hash is the   *)
(*             known one, cites : it names citations that exist]           *)
(***************************************************************************)
EXTENDS McpTools

CONSTANTS
    Proposers,          \* calls of Propose; a proposal is named by its call
    Reviews,            \* calls of Apply
    CodingCommands, ProposalDrafts,
    MaxFileChanges

VARIABLES
    proposals,     \* AssistantRepository.proposals: id -> record, or None
    proposalKeys,  \* AssistantRepository.idempotency: <<snapshot, key>> -> id, or None
    sessions,      \* AssistantRepository.sessions: <<snapshot, session>> -> [user, base], or None
    proposer,      \* call of Propose -> [pc, command, draft], nothing but the pc when it has returned
    review,        \* call of Apply -> local variables, likewise
    applying,      \* PatchApplier.mu: the review that holds it, or None
    head,          \* commit of the checkout
    tree           \* file of the checkout -> changes made to its content at the base commit

recordVars == <<proposals, proposalKeys, sessions>>
checkoutVars == <<applying, head, tree>>
proposalVars == <<recordVars, proposer, review, checkoutVars>>

FilesOf(s) == {a.id : a \in {b \in ToSet(Parsed[s].artifacts) : b.type = "FILE"}}
Files == UNION {FilesOf(w.snapshot) : w \in CodingCommands}
Developer == "developer"

(* A stored proposal.                                                      *)
ProposalRecords ==
    [status : {"AWAITING_APPROVAL", "APPLYING", "APPLIED", "REJECTED", "FAILED"}, version : Nat,
     snapshot : {w.snapshot : w \in CodingCommands}, session : {w.session : w \in CodingCommands},
     user : {w.user : w \in CodingCommands}, intent : {w.intent : w \in CodingCommands},
     base : {Parsed[w.snapshot].commit : w \in CodingCommands}, files : SUBSET Files]
ASSUME ProposalAssumption ==
    /\ None \notin Proposers \cup Reviews \cup ProposalRecords
    /\ Developer \notin Proposers

NoReview == [pc |-> "idle", proposal |-> None, version |-> 0, live |-> TRUE]
NoProposal == [pc |-> "idle", command |-> None, draft |-> None]
Withdraw(p) == proposer' = [proposer EXCEPT ![p] = [NoProposal EXCEPT !.pc = "returned"]]
Return(v) == review' = [review EXCEPT ![v] = [NoReview EXCEPT !.pc = "returned"]]

ProposalInit ==
    /\ proposals = [p \in Proposers |-> None]
    /\ proposalKeys = [k \in {<<w.snapshot, w.key>> : w \in CodingCommands} |-> None]
    /\ sessions = [x \in {<<w.snapshot, w.session>> : w \in CodingCommands} |-> None]
    /\ proposer = [p \in Proposers |-> NoProposal]
    /\ review = [v \in Reviews |-> NoReview]
    /\ applying = None
    /\ head \in {Parsed[w.snapshot].commit : w \in CodingCommands}
    /\ tree = [f \in Files |-> {}]

(* Propose up to the draft. A key that has a proposal answers with it, or  *)
(* with a conflict, when session, user or intent are others.               *)
StartProposal(p, w) ==
    LET ready == /\ proposalKeys[<<w.snapshot, w.key>>] = None
                 /\ Parsed[w.snapshot].complete
                 /\ \A ref \in ToSet(w.selected) : ref.commit = Parsed[w.snapshot].commit
    IN /\ proposer[p].pc = "idle"
       /\ IF ready THEN proposer' = [proposer EXCEPT ![p] = [NoProposal EXCEPT !.pc = "draft", !.command = w]]
          ELSE Withdraw(p)
       /\ UNCHANGED <<recordVars, review, checkoutVars, announced>>

(* The evidence a draft may rest on: what the caller selected and what the *)
(* index found; a file among it is known with its content.                 *)
Evidenced(w) == ToSet(w.selected) \cup ToSet(Found(w.snapshot, w.request))
AuthoritativeFiles(w, evidence) == FilesOf(w.snapshot) \cap {ref.at : ref \in evidence}
DraftAccepted(w, d, evidence) ==
    /\ AuthoritativeFiles(w, evidence) # {} \/ \E ref \in evidence : ref.commit = Parsed[w.snapshot].commit
    /\ d.known /\ d.cites
    /\ d.files \subseteq AuthoritativeFiles(w, evidence) /\ Cardinality(d.files) <= MaxFileChanges
    /\ (w.intent = "EXPLAIN") <=> (d.files = {})

DraftProposal(p, d) ==
    LET w == proposer[p].command
    IN /\ proposer[p].pc = "draft"
       /\ \/ /\ current[w.snapshot] # None /\ DraftAccepted(w, d, Evidenced(w))
             /\ proposer' = [proposer EXCEPT ![p].pc = "create", ![p].draft = d]
          \/ Withdraw(p)
       /\ UNCHANGED <<recordVars, review, checkoutVars, announced>>

(* CreateProposal: a key another proposal has got meanwhile is an error,   *)
(* not an answer.                                                          *)
CreateProposal(p) ==
    LET w == proposer[p].command
        base == Parsed[w.snapshot].commit
        session == sessions[<<w.snapshot, w.session>>]
        pinnedHere == session \in {None, [user |-> w.user, base |-> base]}
    IN /\ proposer[p].pc = "create"
       /\ \/ /\ proposalKeys[<<w.snapshot, w.key>>] = None /\ pinnedHere
             /\ proposals' = [proposals EXCEPT ![p] =
                    [status |-> "AWAITING_APPROVAL", version |-> 1, snapshot |-> w.snapshot, session |-> w.session,
                     user |-> w.user, intent |-> w.intent, base |-> base, files |-> proposer[p].draft.files]]
             /\ proposalKeys' = [proposalKeys EXCEPT ![<<w.snapshot, w.key>>] = p]
             /\ sessions' = [sessions EXCEPT ![<<w.snapshot, w.session>>] = [user |-> w.user, base |-> base]]
             /\ Withdraw(p)
          \/ Withdraw(p) /\ UNCHANGED recordVars
       /\ UNCHANGED <<review, checkoutVars, announced>>

(* UpdateProposal: compare and swap of the version, along the legal        *)
(* transitions, unless the context of the call has ended.                  *)
ValidProposalTransition(from, to) ==
    \/ from = "AWAITING_APPROVAL" /\ to \in {"APPLYING", "REJECTED"}
    \/ from = "APPLYING" /\ to \in {"APPLIED", "FAILED"}
Updatable(v, to) ==
    LET p == proposals[review[v].proposal]
    IN review[v].live /\ p.version = review[v].version /\ ValidProposalTransition(p.status, to)
Record(v, to) ==
    proposals' = [proposals EXCEPT ![review[v].proposal].status = to, ![review[v].proposal].version = @ + 1]
Onward(v, pc) == review' = [review EXCEPT ![v].pc = pc, ![v].version = @ + 1]
UpdateProposal(v, to, onward) ==
    \/ Updatable(v, to) /\ Record(v, to) /\ IF onward = "returned" THEN Return(v) ELSE Onward(v, onward)
    \/ ~Updatable(v, to) /\ Return(v) /\ UNCHANGED proposals

(* Apply up to its first update. An applied proposal is announced again.   *)
StartReview(v, p, approved) ==
    LET enter(pc) == review' = [review EXCEPT ![v].pc = pc, ![v].proposal = p, ![v].version = proposals[p].version]
    IN /\ review[v].pc = "idle"
       /\ IF proposals[p] = None THEN Return(v)
          ELSE IF proposals[p].status = "APPLIED" THEN enter("announce")
          ELSE IF proposals[p].status # "AWAITING_APPROVAL" THEN Return(v)
          ELSE IF ~approved THEN enter("reject")
          ELSE IF proposals[p].files = {} THEN Return(v)
          ELSE enter("claim")
       /\ UNCHANGED <<recordVars, proposer, checkoutVars, announced>>

Reject(v) ==
    /\ review[v].pc = "reject"
    /\ UpdateProposal(v, "REJECTED", "returned")
    /\ UNCHANGED <<proposalKeys, sessions, proposer, checkoutVars, announced>>

Claim(v) ==
    /\ review[v].pc = "claim"
    /\ UpdateProposal(v, "APPLYING", "check")
    /\ UNCHANGED <<proposalKeys, sessions, proposer, checkoutVars, announced>>

(* ApplyPatch under its mutex: the checkout is at the base commit and the  *)
(* files to change are as they were there; then git applies the patch to   *)
(* all of the files or to none, unless it is killed with the context. A    *)
(* change a developer makes in between is kept, or makes git refuse.       *)
BaseIntact(p) == head = p.base /\ \A f \in p.files : tree[f] = {}
CheckBase(v) ==
    LET p == proposals[review[v].proposal]
    IN /\ review[v].pc = "check" /\ applying = None
       /\ IF review[v].live /\ BaseIntact(p)
          THEN applying' = v /\ review' = [review EXCEPT ![v].pc = "patch"]
          ELSE UNCHANGED applying /\ review' = [review EXCEPT ![v].pc = "failed"]
       /\ UNCHANGED <<recordVars, proposer, head, tree, announced>>

ApplyPatch(v, files) ==
    LET p == proposals[review[v].proposal]
        edited == \E f \in p.files : tree[f] # {}
    IN /\ review[v].pc = "patch"
       /\ applying' = None
       /\ tree' = [f \in Files |-> IF f \in files THEN tree[f] \cup {review[v].proposal} ELSE tree[f]]
       /\ \/ files = p.files /\ review' = [review EXCEPT ![v].pc = "applied"]
          \/ files = {} /\ edited /\ review' = [review EXCEPT ![v].pc = "failed"]
          \/ files \subseteq p.files /\ ~review[v].live /\ review' = [review EXCEPT ![v].pc = "failed"]
       /\ UNCHANGED <<recordVars, proposer, head, announced>>

RecordFailedDetached(v) ==
    /\ review[v].pc = "failed"
    /\ Record(v, "FAILED") /\ Return(v)
    /\ UNCHANGED <<proposalKeys, sessions, proposer, checkoutVars, announced>>

RecordFailed(v) ==
    /\ review[v].pc = "failed"
    /\ UpdateProposal(v, "FAILED", "returned")
    /\ UNCHANGED <<proposalKeys, sessions, proposer, checkoutVars, announced>>

RecordApplied(v) ==
    /\ review[v].pc = "applied"
    /\ UpdateProposal(v, "APPLIED", "announce")
    /\ UNCHANGED <<proposalKeys, sessions, proposer, checkoutVars, announced>>

ProposalEvent(p) ==
    [type |-> "proposal", id |-> p, snapshot |-> proposals[p].snapshot, content |-> proposals[p].base]
AnnounceProposal(v) ==
    /\ review[v].pc = "announce"
    /\ announced' \in {announced, announced \cup {ProposalEvent(review[v].proposal)}}
    /\ Return(v)
    /\ UNCHANGED <<recordVars, proposer, checkoutVars>>

EndReview(v) ==
    /\ review[v].live /\ review[v].pc \in {"claim", "reject", "check", "patch", "failed", "applied"}
    /\ review' = [review EXCEPT ![v].live = FALSE]
    /\ UNCHANGED <<recordVars, proposer, checkoutVars, announced>>

(* Developers work in the checkout: they edit a file, or move to another   *)
(* commit, which no proposal rests on.                                     *)
EditFile(f) ==
    /\ tree' = [tree EXCEPT ![f] = @ \cup {Developer}]
    /\ UNCHANGED <<recordVars, proposer, review, applying, head, announced>>
MoveHead ==
    /\ head' = None
    /\ UNCHANGED <<recordVars, proposer, review, applying, tree, announced>>

AssistantNext ==
    \/ \E p \in Proposers :
          \/ \E w \in CodingCommands : StartProposal(p, w)
          \/ \E d \in ProposalDrafts : DraftProposal(p, d)
          \/ CreateProposal(p)
    \/ \E v \in Reviews :
          \/ \E p \in Proposers, approved \in BOOLEAN : StartReview(v, p, approved)
          \/ Reject(v) \/ Claim(v) \/ CheckBase(v) \/ RecordFailed(v) \/ RecordApplied(v)
          \/ AnnounceProposal(v) \/ EndReview(v)
          \/ \E files \in SUBSET Files : ApplyPatch(v, files)
    \/ \E f \in Files : EditFile(f)
    \/ MoveHead
=============================================================================
