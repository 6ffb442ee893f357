--------------------------- MODULE AgentRuns_proofs ---------------------------
(***************************************************************************)
(* Theorems about who acts in KnowledgeProcess: the coding assistant, the  *)
(* question agent, and the tools with their limiter, for all sets of       *)
(* proposals, runs, grants and calls.                                      *)
(***************************************************************************)
EXTENDS KnowledgeProcess, CodeGraph_proofs

-----------------------------------------------------------------------------
(***************************************************************************)
(* The coding assistant, for all proposals, reviews, commands and drafts,  *)
(* whatever git and the developers do in the checkout.                     *)
(***************************************************************************)

ReviewStages == {"idle", "announce", "reject", "claim", "check", "patch", "failed", "applied", "returned"}
ReviewLocals == [pc : ReviewStages, proposal : Proposers \cup {None}, version : Nat, live : BOOLEAN]
ProposerLocals ==
    [pc : {"idle", "draft", "create", "returned"}, command : CodingCommands \cup {None},
     draft : ProposalDrafts \cup {None}]

AssistantTypeOK ==
    /\ proposals \in [Proposers -> ProposalRecords \cup {None}]
    /\ proposer \in [Proposers -> ProposerLocals]
    /\ review \in [Reviews -> ReviewLocals]
    /\ applying \in Reviews \cup {None}
    /\ tree \in [Files -> SUBSET (Proposers \cup {Developer})]

-----------------------------------------------------------------------------
(* A call of Propose that has not returned has not stored its proposal,    *)
(* and brings a command, and a draft that changes files of the checkout.   *)
Drafting == \A p \in Proposers :
    /\ proposer[p].pc \in {"idle", "draft", "create"} => proposals[p] = None
    /\ proposer[p].pc \in {"draft", "create"} => proposer[p].command \in CodingCommands
    /\ proposer[p].pc = "create" => proposer[p].draft \in ProposalDrafts /\ proposer[p].draft.files \in SUBSET Files

(* A call of Apply is about a stored proposal, and one that says so about  *)
(* an applied one.                                                         *)
Reviewing == \A v \in Reviews :
    /\ review[v].pc \notin {"idle", "returned"} =>
          review[v].proposal \in Proposers /\ proposals[review[v].proposal] # None
    /\ review[v].pc = "announce" => proposals[review[v].proposal].status = "APPLIED"

(* From the claim to the record of the outcome one call works on a         *)
(* proposal, and no other does.                                            *)
Working(v) == review[v].pc \in {"check", "patch", "failed", "applied"}
Claimed ==
    /\ \A v \in Reviews : Working(v) => proposals[review[v].proposal].status = "APPLYING"
    /\ \A u, v \in Reviews :
          Working(u) /\ Working(v) /\ review[u].proposal = review[v].proposal => u = v

(* What the patch of a proposal has written, by the stage of its call. The *)
(* one case in which a failure has written something, git killed with the  *)
(* context, leaves a call that can no longer record it as FAILED.          *)
Written(p) == {f \in Files : p \in tree[f]}
Patching ==
    /\ \A v \in Reviews : review[v].pc = "patch" =>
          /\ applying = v
          /\ \A f \in proposals[review[v].proposal].files : tree[f] \cap Proposers = {}
    /\ \A v \in Reviews : review[v].pc \in {"check", "patch"} => Written(review[v].proposal) = {}
    /\ \A v \in Reviews : review[v].pc = "failed" /\ review[v].live => Written(review[v].proposal) = {}
    /\ \A v \in Reviews : review[v].pc = "applied" =>
          Written(review[v].proposal) = proposals[review[v].proposal].files

AssistantInv ==
    /\ Drafting
    /\ Reviewing
    /\ Claimed
    /\ Patching
    /\ TreeTellsOutcome

-----------------------------------------------------------------------------
LEMMA NoneIsNoProposal ==
    /\ None \notin Proposers /\ None \notin Reviews /\ None \notin ProposalRecords
    /\ Developer \notin Proposers
BY ProposalAssumption

(* A call that returns leaves nothing behind.                              *)
LEMMA Returned ==
    /\ [NoReview EXCEPT !.pc = "returned"] \in ReviewLocals
    /\ [NoReview EXCEPT !.pc = "returned"].pc = "returned"
    /\ [NoProposal EXCEPT !.pc = "returned"] \in ProposerLocals
    /\ [NoProposal EXCEPT !.pc = "returned"].pc = "returned"
<1>1. NoReview \in ReviewLocals /\ NoProposal \in ProposerLocals
    BY DEF NoReview, NoProposal, ReviewLocals, ReviewStages, ProposerLocals
<1> QED BY <1>1 DEF ReviewLocals, ReviewStages, ProposerLocals

(* What the operators that the actions share do to the calls.              *)
Others(v) == \A u \in Reviews \ {v} : review'[u] = review[u]

LEMMA Returning ==
    ASSUME AssistantTypeOK, NEW v \in Reviews, Return(v)
    PROVE  review' \in [Reviews -> ReviewLocals] /\ review'[v].pc = "returned" /\ Others(v)
<1> PICK r \in ReviewLocals : r = [NoReview EXCEPT !.pc = "returned"] /\ r.pc = "returned"
    BY Returned
<1>1. review' = [review EXCEPT ![v] = r]
    BY DEF Return
<1> QED BY <1>1 DEF AssistantTypeOK, Others

LEMMA Withdrawing ==
    ASSUME AssistantTypeOK, NEW p \in Proposers, Withdraw(p)
    PROVE  /\ proposer' \in [Proposers -> ProposerLocals] /\ proposer'[p].pc = "returned"
           /\ \A q \in Proposers \ {p} : proposer'[q] = proposer[q]
<1> PICK r \in ProposerLocals : r = [NoProposal EXCEPT !.pc = "returned"] /\ r.pc = "returned"
    BY Returned
<1>1. proposer' = [proposer EXCEPT ![p] = r]
    BY DEF Withdraw
<1> QED BY <1>1 DEF AssistantTypeOK

(* A call that goes on to another stage keeps its proposal and its         *)
(* context.                                                                *)
Moves(v, pc) ==
    /\ review' \in [Reviews -> ReviewLocals]
    /\ review'[v].pc = pc /\ review'[v].proposal = review[v].proposal /\ review'[v].live = review[v].live
    /\ Others(v)

LEMMA Moving ==
    ASSUME AssistantTypeOK, NEW v \in Reviews, NEW pc \in ReviewStages,
           \/ Onward(v, pc)
           \/ review' = [review EXCEPT ![v].pc = pc]
    PROVE  Moves(v, pc)
BY DEF AssistantTypeOK, Onward, Moves, Others, ReviewLocals

LEMMA RecordUpdated ==
    ASSUME NEW q \in ProposalRecords, NEW to \in {"APPLYING", "APPLIED", "REJECTED", "FAILED"}
    PROVE  LET r == [q EXCEPT !.status = to, !.version = @ + 1]
           IN  r \in ProposalRecords /\ r.status = to /\ r.files = q.files
<1> DEFINE r == [q EXCEPT !.status = to, !.version = @ + 1]
<1>1. [q EXCEPT !.status = to] \in ProposalRecords /\ q.version + 1 \in Nat
    BY DEF ProposalRecords
<1>2. \A p \in ProposalRecords, n \in Nat : [p EXCEPT !.version = n] \in ProposalRecords
    BY DEF ProposalRecords
<1>3. [[q EXCEPT !.status = to] EXCEPT !.version = q.version + 1] = r
    OBVIOUS
<1>4. r.status = to /\ r.files = q.files
    BY DEF ProposalRecords
<1> QED BY <1>1, <1>2, <1>3, <1>4

LEMMA Recording ==
    ASSUME AssistantTypeOK, NEW v \in Reviews, NEW to \in {"APPLYING", "APPLIED", "REJECTED", "FAILED"}, Record(v, to),
           review[v].proposal \in Proposers, proposals[review[v].proposal] # None
    PROVE  LET p == review[v].proposal
           IN  /\ proposals' \in [Proposers -> ProposalRecords \cup {None}]
               /\ proposals'[p] # None /\ proposals'[p].status = to /\ proposals'[p].files = proposals[p].files
               /\ \A q \in Proposers \ {p} : proposals'[q] = proposals[q]
<1> DEFINE p == review[v].proposal
<1>1. proposals[p] \in ProposalRecords
    BY DEF AssistantTypeOK
<1> DEFINE r == [proposals[p] EXCEPT !.status = to, !.version = @ + 1]
<1>2. r \in ProposalRecords /\ r.status = to /\ r.files = proposals[p].files
    BY <1>1, RecordUpdated
<1>3. proposals' = [proposals EXCEPT ![p] = r]
    BY <1>1 DEF Record, AssistantTypeOK
<1> HIDE DEF r
<1> QED BY <1>2, <1>3, NoneIsNoProposal DEF AssistantTypeOK

(* UpdateProposal: either it is recorded and the call goes on, or nothing  *)
(* is and the call returns.                                                *)
LEMMA Updating ==
    ASSUME AssistantTypeOK, NEW v \in Reviews, NEW to \in {"APPLYING", "APPLIED", "REJECTED", "FAILED"},
           NEW onward \in {"check", "announce", "returned"}, UpdateProposal(v, to, onward),
           review[v].proposal \in Proposers, proposals[review[v].proposal] # None
    PROVE  \/ /\ review[v].live /\ Record(v, to)
              /\ ValidProposalTransition(proposals[review[v].proposal].status, to)
              /\ \/ onward = "returned" /\ Return(v)
                 \/ Moves(v, onward)
           \/ Return(v) /\ UNCHANGED proposals
BY Moving DEF UpdateProposal, Updatable, ReviewStages

-----------------------------------------------------------------------------
(* A call of Propose.                                                      *)
LEMMA ProposeStep ==
    ASSUME AssistantTypeOK, AssistantInv, NEW p \in Proposers,
           \/ \E w \in CodingCommands : StartProposal(p, w)
           \/ \E d \in ProposalDrafts : DraftProposal(p, d)
           \/ CreateProposal(p)
    PROVE  AssistantTypeOK' /\ AssistantInv'
<1> USE DEF AssistantInv
<1>1. UNCHANGED <<review, applying, tree>>
    BY DEF StartProposal, DraftProposal, CreateProposal, checkoutVars
<1>2. ASSUME UNCHANGED proposals, proposer' \in [Proposers -> ProposerLocals], Drafting'
      PROVE  AssistantTypeOK' /\ AssistantInv'
    BY <1>1, <1>2 DEF AssistantTypeOK, Reviewing, Claimed, Working, Patching, Written, TreeTellsOutcome
<1>3. ASSUME UNCHANGED proposals, Withdraw(p)
      PROVE  AssistantTypeOK' /\ AssistantInv'
    BY <1>2, <1>3, Withdrawing DEF Drafting
<1>4. ASSUME NEW w \in CodingCommands, StartProposal(p, w)
      PROVE  AssistantTypeOK' /\ AssistantInv'
    <2>1. UNCHANGED proposals /\ proposer[p].pc = "idle"
        BY <1>4 DEF StartProposal, recordVars
    <2>2. CASE proposer' = [proposer EXCEPT ![p] = [NoProposal EXCEPT !.pc = "draft", !.command = w]]
        <3> DEFINE r == [NoProposal EXCEPT !.pc = "draft", !.command = w]
        <3>1. NoProposal \in ProposerLocals
            BY DEF NoProposal, ProposerLocals
        <3>2. r \in ProposerLocals /\ r.pc = "draft" /\ r.command = w
            BY <3>1 DEF ProposerLocals
        <3>3. proposer' = [proposer EXCEPT ![p] = r]
            BY <2>2
        <3> HIDE DEF r
        <3> QED BY <1>2, <2>1, <3>2, <3>3 DEF AssistantTypeOK, Drafting
    <2> QED BY <1>3, <1>4, <2>1, <2>2 DEF StartProposal
<1>5. ASSUME NEW d \in ProposalDrafts, DraftProposal(p, d)
      PROVE  AssistantTypeOK' /\ AssistantInv'
    <2>1. UNCHANGED proposals /\ proposer[p].pc = "draft"
        BY <1>5 DEF DraftProposal, recordVars
    <2>2. CASE /\ DraftAccepted(proposer[p].command, d, Evidenced(proposer[p].command))
               /\ proposer' = [proposer EXCEPT ![p].pc = "create", ![p].draft = d]
        <3>1. proposer[p].command \in CodingCommands /\ proposals[p] = None
            BY <2>1 DEF Drafting
        <3>2. d.files \in SUBSET Files
            BY <2>2, <3>1 DEF DraftAccepted, AuthoritativeFiles, Files
        <3>3. proposer' \in [Proposers -> ProposerLocals]
            BY <2>2 DEF AssistantTypeOK, ProposerLocals
        <3>4. /\ proposer'[p].pc = "create" /\ proposer'[p].draft = d /\ proposer'[p].command = proposer[p].command
              /\ \A q \in Proposers \ {p} : proposer'[q] = proposer[q]
            BY <2>2 DEF AssistantTypeOK, ProposerLocals
        <3> QED BY <1>2, <2>1, <3>1, <3>2, <3>3, <3>4 DEF Drafting
    <2> QED BY <1>3, <1>5, <2>1, <2>2 DEF DraftProposal
<1>6. ASSUME CreateProposal(p)
      PROVE  AssistantTypeOK' /\ AssistantInv'
    <2> DEFINE w == proposer[p].command
               r == [status |-> "AWAITING_APPROVAL", version |-> 1, snapshot |-> w.snapshot,
                     session |-> w.session, user |-> w.user, intent |-> w.intent,
                     base |-> Parsed[w.snapshot].commit, files |-> proposer[p].draft.files]
    <2>1. proposals[p] = None /\ w \in CodingCommands /\ proposer[p].draft.files \in SUBSET Files
        BY <1>6 DEF CreateProposal, Drafting
    <2>2. CASE proposals' = [proposals EXCEPT ![p] = r] /\ Withdraw(p)
        <3>1. /\ proposer' \in [Proposers -> ProposerLocals] /\ proposer'[p].pc = "returned"
              /\ \A q \in Proposers \ {p} : proposer'[q] = proposer[q]
            BY <2>2, Withdrawing
        <3>2. r \in ProposalRecords /\ r.status = "AWAITING_APPROVAL"
            BY <2>1 DEF ProposalRecords
        <3> HIDE DEF r
        <3>3. /\ proposals' \in [Proposers -> ProposalRecords \cup {None}]
              /\ proposals'[p] # None /\ proposals'[p].status = "AWAITING_APPROVAL"
              /\ \A q \in Proposers \ {p} : proposals'[q] = proposals[q]
            BY <2>2, <3>2, NoneIsNoProposal DEF AssistantTypeOK
        <3>4. AssistantTypeOK' /\ Drafting'
            BY <1>1, <3>1, <3>3 DEF AssistantTypeOK, Drafting
        <3>5. \A v \in Reviews : review[v].pc \notin {"idle", "returned"} => review[v].proposal \in Proposers \ {p}
            BY <2>1 DEF Reviewing
        <3>6. Reviewing' /\ Claimed' /\ Patching'
            BY <1>1, <3>3, <3>5 DEF Reviewing, Claimed, Working, Patching, Written
        <3>7. TreeTellsOutcome'
            BY <1>1, <2>1, <3>3 DEF TreeTellsOutcome
        <3> QED BY <3>4, <3>6, <3>7
    <2> QED BY <1>3, <1>6, <2>2 DEF CreateProposal, recordVars
<1> QED BY <1>4, <1>5, <1>6

(* A call of Apply, up to the patch of the checkout.                       *)
LEMMA Quiet ==
    ASSUME AssistantTypeOK, AssistantInv, UNCHANGED <<proposals, proposer, applying, tree>>, NEW v \in Reviews,
           Others(v), review' \in [Reviews -> ReviewLocals],
           \/ review'[v].pc = "returned"
           \/ /\ review'[v].pc \in {"reject", "claim", "announce"}
              /\ review'[v].proposal \in Proposers /\ proposals[review'[v].proposal] # None
              /\ review'[v].pc = "announce" => proposals[review'[v].proposal].status = "APPLIED"
           \/ /\ review'[v].pc = review[v].pc /\ review'[v].proposal = review[v].proposal
              /\ review'[v].live => review[v].live
    PROVE  AssistantTypeOK' /\ AssistantInv'
<1> USE DEF AssistantInv
<1>1. AssistantTypeOK' /\ Drafting' /\ TreeTellsOutcome'
    BY DEF AssistantTypeOK, Drafting, TreeTellsOutcome
<1>2. Reviewing' /\ Claimed'
    BY DEF Others, Reviewing, Claimed, Working
<1>3. Patching'
    BY DEF Others, Patching, Written
<1> QED BY <1>1, <1>2, <1>3

LEMMA StartReviewStep ==
    ASSUME AssistantTypeOK, AssistantInv, NEW v \in Reviews, NEW p \in Proposers, NEW approved \in BOOLEAN,
           StartReview(v, p, approved)
    PROVE  AssistantTypeOK' /\ AssistantInv'
<1>1. UNCHANGED <<proposals, proposer, applying, tree>>
    BY DEF StartReview, recordVars, checkoutVars
<1>2. CASE Return(v)
    BY <1>1, <1>2, Returning, Quiet
<1>3. ASSUME NEW pc \in {"announce", "reject", "claim"}, proposals[p] # None,
             pc = "announce" => proposals[p].status = "APPLIED",
             review' = [review EXCEPT ![v].pc = pc, ![v].proposal = p, ![v].version = proposals[p].version]
      PROVE  AssistantTypeOK' /\ AssistantInv'
    <2> DEFINE r == [review[v] EXCEPT !.pc = pc, !.proposal = p, !.version = proposals[p].version]
    <2>1. review[v] \in ReviewLocals /\ proposals[p].version \in Nat
        BY <1>3 DEF AssistantTypeOK, ProposalRecords
    <2>2. r \in ReviewLocals /\ r.pc = pc /\ r.proposal = p
        BY <2>1 DEF ReviewLocals, ReviewStages
    <2>3. review' = [review EXCEPT ![v] = r]
        BY <1>3, <2>1 DEF AssistantTypeOK
    <2> HIDE DEF r
    <2>4. review' \in [Reviews -> ReviewLocals] /\ review'[v].pc = pc /\ review'[v].proposal = p /\ Others(v)
        BY <2>2, <2>3 DEF AssistantTypeOK, Others
    <2> QED BY <1>1, <1>3, <2>4, Quiet
<1> QED BY <1>2, <1>3 DEF StartReview

(* The updates of the record.                                              *)
LEMMA UpdateStep ==
    ASSUME AssistantTypeOK, AssistantInv, NEW v \in Reviews, Reject(v) \/ Claim(v) \/ RecordFailed(v) \/ RecordApplied(v)
    PROVE  AssistantTypeOK' /\ AssistantInv'
<1> USE DEF AssistantInv
<1> DEFINE p == review[v].proposal
<1>1. UNCHANGED <<proposer, applying, tree>>
    BY DEF Reject, Claim, RecordFailed, RecordApplied, checkoutVars
<1>2. p \in Proposers /\ proposals[p] # None
    BY DEF Reviewing, Reject, Claim, RecordFailed, RecordApplied
<1>3. CASE Return(v) /\ UNCHANGED proposals
    BY <1>1, <1>3, Returning, Quiet
<1>4. ASSUME NEW to \in {"APPLYING", "APPLIED", "REJECTED", "FAILED"}, NEW onward \in {"check", "announce", "returned"},
             Record(v, to), review' \in [Reviews -> ReviewLocals], Others(v), review'[v].pc = onward,
             onward # "returned" => review'[v].proposal = p /\ review'[v].live = review[v].live,
             \/ onward = "returned" /\ to = "REJECTED" /\ proposals[p].status = "AWAITING_APPROVAL"
             \/ onward = "check" /\ to = "APPLYING" /\ proposals[p].status = "AWAITING_APPROVAL"
             \/ onward = "returned" /\ to = "FAILED" /\ Working(v) /\ Written(p) = {}
             \/ onward = "announce" /\ to = "APPLIED" /\ Working(v) /\ Written(p) = proposals[p].files
      PROVE  AssistantTypeOK' /\ AssistantInv'
    <2>1. /\ proposals' \in [Proposers -> ProposalRecords \cup {None}]
          /\ proposals'[p] # None /\ proposals'[p].status = to /\ proposals'[p].files = proposals[p].files
          /\ \A q \in Proposers \ {p} : proposals'[q] = proposals[q]
        BY <1>2, <1>4, Recording
    <2>2. AssistantTypeOK' /\ Drafting'
        BY <1>1, <1>2, <1>4, <2>1 DEF AssistantTypeOK, Drafting
    <2>3. \A u \in Reviews \ {v} : Working(u) => review[u].proposal # p
        BY <1>4 DEF Claimed, Working
    <2>4. proposals[p].status # "APPLIED"
        BY <1>4 DEF Claimed
    <2>5. Reviewing'
        <3>1. ASSUME NEW u \in Reviews \ {v}, review[u].pc \notin {"idle", "returned"}
              PROVE  /\ review[u].proposal \in Proposers /\ proposals'[review[u].proposal] # None
                     /\ review[u].pc = "announce" => proposals'[review[u].proposal].status = "APPLIED"
            BY <2>1, <2>4, <3>1 DEF Reviewing
        <3> QED BY <1>2, <1>4, <2>1, <3>1 DEF Others, Reviewing
    <2>6. Claimed'
        BY <1>4, <2>1, <2>3 DEF Others, Claimed, Working, Reviewing
    <2>7. proposals[p].status = "AWAITING_APPROVAL" => Written(p) = {}
        BY <1>2 DEF TreeTellsOutcome, Written
    <2>8. Patching'
        <3>1. \A u \in Reviews \ {v} : Working(u) => proposals'[review[u].proposal] = proposals[review[u].proposal]
            BY <2>1, <2>3 DEF Working, Reviewing
        <3>2. \A q : Written(q)' = Written(q)
            BY <1>1 DEF Written
        <3>3. ASSUME NEW u \in Reviews \ {v}
              PROVE  /\ review'[u] = review[u]
                     /\ review[u].pc = "patch" =>
                           applying' = u /\ \A f \in proposals'[review[u].proposal].files : tree'[f] \cap Proposers = {}
                     /\ review[u].pc = "applied" =>
                           Written(review[u].proposal) = proposals'[review[u].proposal].files
            BY <1>1, <1>4, <3>1 DEF Others, Working, Patching
        <3>4. review'[v].pc = "check" => Written(p) = {} /\ review'[v].proposal = p
            BY <1>4, <2>7
        <3>5. review'[v].pc \notin {"patch", "failed", "applied"}
            BY <1>4
        <3> QED BY <3>2, <3>3, <3>4, <3>5 DEF Patching, Written
    <2>9. TreeTellsOutcome'
        BY <1>1, <1>4, <2>1, <2>7 DEF TreeTellsOutcome, Written
    <2> QED BY <2>2, <2>5, <2>6, <2>8, <2>9
<1>5. CASE Reject(v)
    <2>1. UpdateProposal(v, "REJECTED", "returned")
        BY <1>5 DEF Reject
    <2>2. CASE Record(v, "REJECTED") /\ ValidProposalTransition(proposals[p].status, "REJECTED")
               /\ (Return(v) \/ Moves(v, "returned"))
        BY <1>4, <2>2, Returning DEF ValidProposalTransition, Moves
    <2> QED BY <1>2, <1>3, <2>1, <2>2, Updating
<1>6. CASE Claim(v)
    <2>1. UpdateProposal(v, "APPLYING", "check")
        BY <1>6 DEF Claim
    <2>2. CASE Record(v, "APPLYING") /\ ValidProposalTransition(proposals[p].status, "APPLYING") /\ Moves(v, "check")
        BY <1>4, <2>2 DEF ValidProposalTransition, Moves
    <2> QED BY <1>2, <1>3, <2>1, <2>2, Updating
<1>7. CASE RecordFailed(v)
    <2>1. UpdateProposal(v, "FAILED", "returned") /\ review[v].pc = "failed"
        BY <1>7 DEF RecordFailed
    <2>2. CASE review[v].live /\ Record(v, "FAILED") /\ (Return(v) \/ Moves(v, "returned"))
        <3>1. Working(v) /\ Written(p) = {}
            BY <2>1, <2>2 DEF Working, Patching
        <3> QED BY <1>4, <2>2, <3>1, Returning DEF Moves
    <2> QED BY <1>2, <1>3, <2>1, <2>2, Updating
<1>8. CASE RecordApplied(v)
    <2>1. UpdateProposal(v, "APPLIED", "announce") /\ review[v].pc = "applied"
        BY <1>8 DEF RecordApplied
    <2>2. CASE Record(v, "APPLIED") /\ Moves(v, "announce")
        <3>1. Working(v) /\ Written(p) = proposals[p].files
            BY <2>1 DEF Working, Patching
        <3> QED BY <1>4, <2>2, <3>1 DEF Moves
    <2> QED BY <1>2, <1>3, <2>1, <2>2, Updating
<1> QED BY <1>5, <1>6, <1>7, <1>8

(* ApplyPatch of the adapter, in its two steps.                            *)
LEMMA CheckStep ==
    ASSUME AssistantTypeOK, AssistantInv, NEW v \in Reviews, CheckBase(v)
    PROVE  AssistantTypeOK' /\ AssistantInv'
<1> USE DEF AssistantInv
<1>1. /\ review[v].pc = "check" /\ applying = None
      /\ UNCHANGED <<proposals, proposer, tree>>
    BY DEF CheckBase, recordVars
<1>2. \A u \in Reviews : review[u].pc # "patch"
    BY <1>1, NoneIsNoProposal DEF Patching
<1>3. PICK pc \in {"patch", "failed"} :
         /\ review' = [review EXCEPT ![v].pc = pc]
         /\ \/ pc = "patch" /\ applying' = v /\ BaseIntact(proposals[review[v].proposal])
            \/ pc = "failed" /\ UNCHANGED applying
    BY DEF CheckBase
<1>4. Moves(v, pc)
    BY <1>3, Moving DEF ReviewStages
<1>5. AssistantTypeOK' /\ Drafting' /\ TreeTellsOutcome'
    BY <1>1, <1>3, <1>4 DEF AssistantTypeOK, Moves, Drafting, TreeTellsOutcome
<1>6. Reviewing' /\ Claimed'
    BY <1>1, <1>4 DEF Moves, Others, Reviewing, Claimed, Working
<1>7. Patching'
    BY <1>1, <1>2, <1>3, <1>4 DEF Moves, Others, Patching, Written, BaseIntact
<1> QED BY <1>5, <1>6, <1>7

LEMMA PatchStep ==
    ASSUME AssistantTypeOK, AssistantInv, NEW v \in Reviews, NEW files \in SUBSET Files, ApplyPatch(v, files)
    PROVE  AssistantTypeOK' /\ AssistantInv'
<1> USE DEF AssistantInv
<1> DEFINE p == review[v].proposal
<1>1. /\ review[v].pc = "patch" /\ applying' = None
      /\ UNCHANGED <<proposals, proposer>>
      /\ tree' = [f \in Files |-> IF f \in files THEN tree[f] \cup {p} ELSE tree[f]]
    BY DEF ApplyPatch, recordVars
<1>2. p \in Proposers /\ proposals[p] \in ProposalRecords /\ proposals[p].status = "APPLYING"
    BY <1>1 DEF Reviewing, Claimed, Working, AssistantTypeOK
<1>3. proposals[p].files \in SUBSET Files
    BY <1>2 DEF ProposalRecords
<1>4. \A u \in Reviews \ {v} : review[u].pc # "patch" /\ (Working(u) => review[u].proposal # p)
    BY <1>1 DEF Patching, Claimed, Working
<1>5. files \subseteq proposals[p].files
    BY DEF ApplyPatch
<1>6. PICK pc \in {"applied", "failed"} :
         /\ review' = [review EXCEPT ![v].pc = pc]
         /\ pc = "applied" => files = proposals[p].files
         /\ pc = "failed" => files = {} \/ ~ review[v].live
    BY DEF ApplyPatch
<1>7. Moves(v, pc)
    BY <1>6, Moving DEF ReviewStages
<1>8. /\ {f \in Files : p \in tree'[f]} = files
      /\ \A q \in Proposers \ {p} : Written(q)' = Written(q)
    <2>1. \A f \in Files : p \notin tree[f]
        BY <1>1 DEF Patching, Written
    <2>2. \A f \in Files : p \in tree'[f] <=> f \in files
        BY <1>1, <2>1
    <2>3. ASSUME NEW q \in Proposers \ {p}
          PROVE  \A f \in Files : q \in tree'[f] <=> q \in tree[f]
        BY <1>1
    <2>4. {f \in Files : p \in tree'[f]} = files
        BY <2>2
    <2>5. \A q \in Proposers \ {p} : {f \in Files : q \in tree'[f]} = {f \in Files : q \in tree[f]}
        BY <2>3
    <2> QED BY <1>1, <2>4, <2>5 DEF Written
<1>9. AssistantTypeOK' /\ Drafting'
    BY <1>1, <1>2, <1>7 DEF AssistantTypeOK, Moves, Drafting
<1>10. Reviewing' /\ Claimed'
    BY <1>1, <1>4, <1>7 DEF Moves, Others, Reviewing, Claimed, Working
<1>11. Patching'
    <2>1. ASSUME NEW u \in Reviews \ {v}
          PROVE  /\ review'[u] = review[u] /\ review[u].pc # "patch"
                 /\ Working(u) => review[u].proposal \in Proposers \ {p}
        BY <1>4, <1>7 DEF Moves, Others, Reviewing, Working
    <2>2. ASSUME NEW u \in Reviews \ {v}, Working(u)
          PROVE  Written(review[u].proposal)' = Written(review[u].proposal)
        BY <1>1, <2>1, <2>2 DEF Written
    <2>3. review'[v].pc = pc /\ review'[v].proposal = p /\ review'[v].live = review[v].live
        BY <1>7 DEF Moves
    <2>4. \A u \in Reviews : review'[u].pc # "patch"
        BY <2>1, <2>3
    <2>5. ASSUME NEW u \in Reviews, review'[u].pc = "check"
          PROVE  {f \in Files : review'[u].proposal \in tree'[f]} = {}
        <3>1. u # v /\ Working(u) /\ review'[u] = review[u]
            BY <2>1, <2>3, <2>5 DEF Working
        <3> QED BY <2>2, <2>5, <3>1 DEF Written, Patching
    <2>6. ASSUME NEW u \in Reviews, review'[u].pc = "failed", review'[u].live
          PROVE  {f \in Files : review'[u].proposal \in tree'[f]} = {}
        <3>1. CASE u = v
            BY <1>6, <1>8, <2>3, <2>6, <3>1 DEF Written
        <3>2. CASE u # v
            <4>1. Working(u) /\ review'[u] = review[u]
                BY <2>1, <2>6, <3>2 DEF Working
            <4> QED BY <2>2, <2>6, <3>2, <4>1 DEF Written, Patching
        <3> QED BY <3>1, <3>2
    <2>7. ASSUME NEW u \in Reviews, review'[u].pc = "applied"
          PROVE  {f \in Files : review'[u].proposal \in tree'[f]} = proposals'[review'[u].proposal].files
        <3>1. CASE u = v
            BY <1>1, <1>6, <1>8, <2>3, <2>7, <3>1 DEF Written
        <3>2. CASE u # v
            <4>1. Working(u) /\ review'[u] = review[u]
                BY <2>1, <2>7, <3>2 DEF Working
            <4> QED BY <1>1, <2>2, <2>7, <3>2, <4>1 DEF Written, Patching
        <3> QED BY <3>1, <3>2
    <2> QED BY <2>4, <2>5, <2>6, <2>7 DEF Patching, Written
<1>12. TreeTellsOutcome'
    <2>1. \A f \in files : tree[f] \cap Proposers = {}
        BY <1>1, <1>5 DEF Patching
    <2>2. \A q \in Proposers : \A f \in Files : q \in tree'[f] => tree'[f] \cap Proposers = {q}
        BY <1>1, <1>2, <2>1 DEF TreeTellsOutcome
    <2>3. ASSUME NEW q \in Proposers
          PROVE  LET written == {f \in Files : q \in tree'[f]}
                 IN  /\ proposals[q] = None => written = {}
                     /\ proposals[q] # None =>
                           /\ written \subseteq proposals[q].files
                           /\ proposals[q].status \in {"AWAITING_APPROVAL", "REJECTED", "FAILED"} => written = {}
                           /\ proposals[q].status = "APPLIED" => written = proposals[q].files
        <3>1. CASE q = p
            <4>1. {f \in Files : q \in tree'[f]} = files
                BY <1>8, <3>1
            <4>2. proposals[q] # None /\ proposals[q].status = "APPLYING"
                BY <1>2, <3>1, NoneIsNoProposal
            <4>3. files \subseteq proposals[q].files
                BY <1>5, <3>1
            <4> QED BY <4>1, <4>2, <4>3
        <3>2. CASE q # p
            BY <1>8, <3>2 DEF Written, TreeTellsOutcome
        <3> QED BY <3>1, <3>2
    <2> QED BY <1>1, <2>2, <2>3 DEF TreeTellsOutcome
<1> QED BY <1>9, <1>10, <1>11, <1>12

(* Developers' edits are no proposal's.                                    *)
LEMMA EditStep ==
    ASSUME AssistantTypeOK, AssistantInv, NEW f \in Files, EditFile(f)
    PROVE  AssistantTypeOK' /\ AssistantInv'
<1> USE DEF AssistantInv
<1>1. tree' = [tree EXCEPT ![f] = @ \cup {Developer}] /\ UNCHANGED <<proposals, proposer, review, applying>>
    BY DEF EditFile, recordVars
<1>2. tree' \in [Files -> SUBSET (Proposers \cup {Developer})]
    BY <1>1 DEF AssistantTypeOK
<1>3. \A g \in Files : tree'[g] \cap Proposers = tree[g] \cap Proposers
    BY <1>1, NoneIsNoProposal DEF AssistantTypeOK
<1>4. \A p \in Proposers : {g \in Files : p \in tree'[g]} = {g \in Files : p \in tree[g]}
    BY <1>3
<1>5. AssistantTypeOK' /\ Drafting' /\ Reviewing' /\ Claimed'
    BY <1>1, <1>2 DEF AssistantTypeOK, Drafting, Reviewing, Claimed, Working
<1>6. Patching'
    <2>1. \A v \in Reviews : Working(v) => review[v].proposal \in Proposers
        BY DEF Working, Reviewing
    <2>2. \A v \in Reviews : review[v].pc = "patch" =>
             proposals[review[v].proposal].files \in SUBSET Files
        BY DEF AssistantTypeOK, ProposalRecords, Reviewing
    <2> QED BY <1>1, <1>3, <1>4, <2>1, <2>2 DEF Patching, Written, Working
<1>7. TreeTellsOutcome'
    BY <1>1, <1>3, <1>4 DEF TreeTellsOutcome
<1> QED BY <1>5, <1>6, <1>7

LEMMA AssistantStepKept ==
    ASSUME AssistantTypeOK, AssistantInv, [Next]_vars
    PROVE  AssistantTypeOK' /\ AssistantInv'
<1>1. ASSUME UNCHANGED <<proposals, proposer, review, applying, tree>>
      PROVE  AssistantTypeOK' /\ AssistantInv'
    BY <1>1 DEF AssistantTypeOK, AssistantInv, Drafting, Reviewing, Claimed, Working, Patching, Written,
       TreeTellsOutcome
<1>2. ASSUME NEW v \in Reviews, AnnounceProposal(v) PROVE AssistantTypeOK' /\ AssistantInv'
    BY <1>2, Returning, Quiet DEF AnnounceProposal, recordVars, checkoutVars
<1>3. ASSUME NEW v \in Reviews, EndReview(v) PROVE AssistantTypeOK' /\ AssistantInv'
    <2>1. /\ review' \in [Reviews -> ReviewLocals] /\ Others(v)
          /\ review'[v].pc = review[v].pc /\ review'[v].proposal = review[v].proposal
          /\ review'[v].live = FALSE
        BY <1>3 DEF EndReview, AssistantTypeOK, ReviewLocals, Others
    <2> QED BY <1>3, <2>1, Quiet DEF EndReview, recordVars, checkoutVars
<1>4. CASE UNCHANGED proposalVars
    BY <1>1, <1>4 DEF proposalVars, recordVars, checkoutVars
<1>5. CASE MoveHead
    BY <1>1, <1>5 DEF MoveHead, recordVars
<1>6. CASE AssistantNext
    BY <1>2, <1>3, <1>5, <1>6, ProposeStep, StartReviewStep, UpdateStep, CheckStep, PatchStep, EditStep
       DEF AssistantNext
<1> QED BY <1>4, <1>6 DEF Next, GraphStep, IndexStep, WikiStep, ToolStep, AssistantStep, vars

LEMMA AssistantInductive == Spec => [](AssistantTypeOK /\ AssistantInv)
<1>1. Init => AssistantTypeOK /\ AssistantInv
    <2> SUFFICES ASSUME Init PROVE AssistantTypeOK /\ AssistantInv
        OBVIOUS
    <2>1. NoReview \in ReviewLocals /\ NoReview.pc = "idle" /\ NoProposal \in ProposerLocals /\ NoProposal.pc = "idle"
        BY DEF NoReview, NoProposal, ReviewLocals, ReviewStages, ProposerLocals
    <2>2. AssistantTypeOK
        BY <2>1 DEF Init, ProposalInit, AssistantTypeOK
    <2>3. AssistantInv
        BY <2>1 DEF Init, ProposalInit, AssistantInv, Drafting, Reviewing, Claimed, Working, Patching,
           TreeTellsOutcome
    <2> QED BY <2>2, <2>3
<1>2. AssistantTypeOK /\ AssistantInv /\ [Next]_vars => AssistantTypeOK' /\ AssistantInv'
    BY AssistantStepKept
<1> QED BY <1>1, <1>2, PTL DEF Spec

(* The record of a proposal tells what is in the checkout, and no two      *)
(* proposals ever change the same file.                                    *)
THEOREM RecordsTellTheTree == Spec => []TreeTellsOutcome
<1>1. AssistantInv => TreeTellsOutcome
    BY DEF AssistantInv
<1> QED BY <1>1, AssistantInductive, PTL

-----------------------------------------------------------------------------
(***************************************************************************)
(* The question agent, for all runs and questions, whatever the index, the *)
(* graph and the generator answer. What a round finds and which citations  *)
(* are chosen is left open: only the control of a run matters.             *)
(***************************************************************************)

ExecutionStages ==
    {"idle", "plan", "retrieve", "evaluate", "generate", "save", "publish", "fail", "record", "done"}
ExecutionFields ==
    {"pc", "question", "round", "sources", "graph", "available", "citations", "answer", "code", "detached"}

AgentTypeOK ==
    /\ DOMAIN runs = Runs /\ DOMAIN stream = Runs /\ DOMAIN execution = Runs
    /\ live \in [Runs -> BOOLEAN]
    /\ \A r \in Runs :
          /\ DOMAIN execution[r] = ExecutionFields
          /\ execution[r].pc \in ExecutionStages /\ execution[r].round \in Nat
          /\ stream[r] \in Seq(ToSet(stream[r]))

-----------------------------------------------------------------------------
(* A run that has not been asked for has left no trace. Every later stage  *)
(* has sent at most one event more than the one before it, and a round has *)
(* sent one.                                                               *)
Sending(r) ==
    /\ execution[r].pc = "idle" => runs[r] = None /\ stream[r] = <<>>
    /\ execution[r].pc # "idle" => stream[r] # <<>>
    /\ execution[r].pc = "plan" => Len(stream[r]) = 1 /\ execution[r].round = 1
    /\ execution[r].pc = "retrieve" =>
          Len(stream[r]) = execution[r].round + 1 /\ execution[r].round \in 1..MaxRetrievalRounds
    /\ execution[r].pc = "evaluate" => Len(stream[r]) <= MaxRetrievalRounds + 2
    /\ execution[r].pc # "done" => Len(stream[r]) <= MaxRetrievalRounds + 3
    /\ Len(stream[r]) <= MaxRetrievalRounds + 4

(* The terminal event is the last thing a run does.                        *)
IsEnd(message) == message.type \in {"COMPLETED", "FAILED"}
Ending(r) ==
    \A i \in DOMAIN stream[r] : IsEnd(stream[r][i]) <=> execution[r].pc = "done" /\ i = Len(stream[r])

(* What is stored of a run, by its stage: an answer before it is           *)
(* announced, and a failure only over a run that had no answer.            *)
Outcome(r) == stream[r][Len(stream[r])]
Storing(r) ==
    /\ execution[r].pc \in {"plan", "retrieve", "evaluate", "generate", "save"} => runs[r].status = "RUNNING"
    /\ execution[r].pc = "publish" => runs[r] = [status |-> "COMPLETED", answer |-> execution[r].answer]
    /\ execution[r].pc \in {"fail", "record"} => runs[r].status \in {"RUNNING", "COMPLETED"}
    /\ execution[r].pc = "done" /\ Outcome(r).type = "COMPLETED" =>
          runs[r] = [status |-> "COMPLETED", answer |-> Outcome(r).payload]
    /\ execution[r].pc = "done" /\ Outcome(r).type = "FAILED" =>
          /\ runs[r].status = "COMPLETED" => Outcome(r).payload = "PERSISTENCE"
          /\ runs[r].status = "RUNNING" => ~live[r] /\ Outcome(r).payload = "PERSISTENCE"

(* The event of a run is on the bus when its caller hears of the answer,   *)
(* and never otherwise.                                                    *)
Announcing(r) ==
    /\ execution[r].pc = "done" /\ Outcome(r).type = "COMPLETED" => RunEvent(r) \in announced
    /\ \A e \in announced : e.type = "run" /\ e.id = r =>
          execution[r].pc = "done" /\ Outcome(r).type = "COMPLETED" /\ e.content = Outcome(r).payload

RunInv(r) == Sending(r) /\ Ending(r) /\ Storing(r) /\ Announcing(r)
AgentInv == \A r \in Runs : RunInv(r)

-----------------------------------------------------------------------------
(* What the operators that the actions of a run share do to it.            *)
OthersKeep(r) == \A q \in Runs \ {r} : execution'[q] = execution[q] /\ runs'[q] = runs[q] /\ stream'[q] = stream[q]
Goes(r, pc) ==
    /\ DOMAIN execution' = Runs /\ DOMAIN execution'[r] = ExecutionFields
    /\ execution'[r].pc = pc /\ execution'[r].round \in Nat
    /\ \A q \in Runs \ {r} : execution'[q] = execution[q]

LEMMA Entering ==
    ASSUME AgentTypeOK, NEW r \in Runs, NEW pc \in ExecutionStages, Enter(r, pc)
    PROVE  /\ Goes(r, pc)
           /\ execution'[r].question = execution[r].question /\ execution'[r].answer = execution[r].answer
           /\ execution'[r].round = execution[r].round
BY DEF AgentTypeOK, Enter, ExecutionFields, Goes

LEMMA GivingUp ==
    ASSUME AgentTypeOK, NEW r \in Runs, NEW code, GiveUp(r, code)
    PROVE  Goes(r, "fail")
BY DEF AgentTypeOK, GiveUp, ExecutionFields, Goes

(* An event is added behind those that were sent.                          *)
Sends(r, kind, payload) ==
    /\ DOMAIN stream' = Runs
    /\ stream'[r] \in Seq(ToSet(stream'[r])) /\ stream'[r] # <<>>
    /\ Len(stream[r]) \in Nat /\ Len(stream'[r]) = Len(stream[r]) + 1
    /\ DOMAIN stream[r] = 1..Len(stream[r]) /\ DOMAIN stream'[r] = 1..Len(stream[r]) + 1
    /\ \A i \in 1..Len(stream[r]) : stream'[r][i] = stream[r][i]
    /\ stream'[r][Len(stream[r]) + 1] = [type |-> kind, payload |-> payload]
    /\ \A q \in Runs \ {r} : stream'[q] = stream[q]

LEMMA Emitting ==
    ASSUME AgentTypeOK, NEW r \in Runs, NEW kind, NEW payload, Emit(r, kind, payload)
    PROVE  Sends(r, kind, payload)
<1>1. PICK S : stream[r] \in Seq(S)
    BY DEF AgentTypeOK
<1>2. /\ stream'[r] = Append(stream[r], Message(kind, payload))
      /\ DOMAIN stream' = Runs /\ \A q \in Runs \ {r} : stream'[q] = stream[q]
    BY DEF Emit, AgentTypeOK
<1> DEFINE T == S \cup {Message(kind, payload)}
<1>3. stream[r] \in Seq(T) /\ Message(kind, payload) \in T
    BY <1>1
<1>4. stream'[r] \in Seq(T) /\ Len(stream[r]) \in Nat /\ Len(stream'[r]) = Len(stream[r]) + 1
    BY <1>2, <1>3
<1>5. \A i \in 1..Len(stream[r]) : stream'[r][i] = stream[r][i]
    BY <1>2, <1>3
<1>6. stream'[r][Len(stream[r]) + 1] = Message(kind, payload)
    BY <1>2, <1>3
<1>7. stream'[r] \in Seq(ToSet(stream'[r]))
    BY <1>4 DEF ToSet
<1>8. DOMAIN stream[r] = 1..Len(stream[r]) /\ DOMAIN stream'[r] = 1..Len(stream'[r])
    BY <1>3, <1>4
<1> QED BY <1>2, <1>4, <1>5, <1>6, <1>7, <1>8 DEF Message, Sends

(* A run keeps its invariant while it does not move and nobody announces   *)
(* it, though its context may end.                                         *)
LEMMA RunKept ==
    ASSUME NEW r \in Runs, RunInv(r), execution'[r] = execution[r], runs'[r] = runs[r], stream'[r] = stream[r],
           live'[r] => live[r], announced \subseteq announced',
           \A e \in announced' \ announced : ~(e.type = "run" /\ e.id = r)
    PROVE  RunInv(r)'
<1>1. Sending(r)' /\ Ending(r)' /\ Storing(r)'
    BY DEF RunInv, Sending, Ending, Storing, Outcome
<1>2. Announcing(r)'
    BY DEF RunInv, Announcing, Outcome, RunEvent
<1> QED BY <1>1, <1>2 DEF RunInv

(* A stage that sends nothing.                                             *)
LEMMA QuietStage ==
    ASSUME AgentTypeOK, NEW r \in Runs, RunInv(r), NEW pc \in ExecutionStages \ {"idle", "done"},
           execution[r].pc \notin {"idle", "done"}, Goes(r, pc), UNCHANGED <<stream, live, announced>>,
           DOMAIN runs' = Runs, Storing(r)', pc \notin {"plan", "retrieve", "evaluate"}
    PROVE  AgentTypeOK' /\ RunInv(r)'
<1>1. AgentTypeOK'
    BY DEF AgentTypeOK, Goes
<1>2. Sending(r)' /\ Ending(r)'
    BY DEF RunInv, Sending, Ending, Goes, AgentTypeOK
<1>3. Announcing(r)'
    BY DEF RunInv, Announcing, Goes
<1> QED BY <1>1, <1>2, <1>3 DEF RunInv

(* A stage that sends an event which is not the last.                      *)
LEMMA SendingStage ==
    ASSUME AgentTypeOK, NEW r \in Runs, RunInv(r), NEW pc \in ExecutionStages \ {"idle", "done"},
           execution[r].pc # "done", Goes(r, pc), UNCHANGED <<live, announced>>,
           DOMAIN runs' = Runs, Storing(r)',
           NEW kind \in {"RUN_STARTED", "PLANNED", "RETRIEVED", "EVALUATED"}, Emit(r, kind, None), Sending(r)'
    PROVE  AgentTypeOK' /\ RunInv(r)'
<1>1. Sends(r, kind, None)
    BY Emitting
<1>2. AgentTypeOK'
    BY <1>1 DEF AgentTypeOK, Goes, Sends
<1>3. Ending(r)'
    <2>1. \A i \in DOMAIN stream[r] : ~IsEnd(stream[r][i])
        BY DEF RunInv, Ending
    <2>2. \A i \in DOMAIN stream'[r] : ~IsEnd(stream'[r][i])
        BY <1>1, <2>1 DEF Sends, IsEnd
    <2> QED BY <2>2 DEF Ending, Goes, IsEnd
<1>4. Announcing(r)'
    BY DEF RunInv, Announcing, Goes
<1> QED BY <1>2, <1>3, <1>4 DEF RunInv

(* The last event, after which nothing is sent.                            *)
LEMMA LastStage ==
    ASSUME AgentTypeOK, NEW r \in Runs, RunInv(r), execution[r].pc \notin {"idle", "done"}, Goes(r, "done"),
           NEW kind \in {"COMPLETED", "FAILED"}, NEW payload, Emit(r, kind, payload),
           DOMAIN runs' = Runs, UNCHANGED live
    PROVE  /\ AgentTypeOK' /\ Sending(r)' /\ Ending(r)'
           /\ Outcome(r)' = [type |-> kind, payload |-> payload]
<1>1. Sends(r, kind, payload)
    BY Emitting
<1>2. AgentTypeOK'
    BY <1>1 DEF AgentTypeOK, Goes, Sends, ExecutionStages
<1>3. Sending(r)'
    BY <1>1, AgentAssumption DEF RunInv, Sending, Goes, Sends
<1>4. Ending(r)'
    <2>1. \A i \in DOMAIN stream[r] : ~IsEnd(stream[r][i])
        BY DEF RunInv, Ending
    <2> QED BY <1>1, <2>1 DEF Sends, IsEnd, Ending, Goes
<1> QED BY <1>1, <1>2, <1>3, <1>4 DEF Outcome, Sends

(* A run of the agent moves by itself: what it has begun it never unmakes, *)
(* and what has ended it leaves alone.                                     *)
RunAlone(r) ==
    /\ execution[r].pc \notin {"idle", "done"} /\ execution'[r].pc # "idle"
    /\ OthersKeep(r) /\ UNCHANGED live
    /\ announced \subseteq announced' /\ \A e \in announced' \ announced : e.type = "run" /\ e.id = r
    /\ Terminal(runs[r].status) => runs'[r] = runs[r]

RunActions(r) ==
    \/ Plan(r) \/ RetrievalCancelled(r) \/ Evaluate(r) \/ GenerationFails(r) \/ SaveRun(r) \/ PublishRun(r)
    \/ ChooseContext(r) \/ RecordFailure(r)
    \/ \E searched, queried \in BOOLEAN : RetrieveRound(r, searched, queried)
    \/ \E selection \in Selections : Generate(r, selection)

LEMMA RetrieveStep ==
    ASSUME AgentTypeOK, NEW r \in Runs, RunInv(r), NEW searched \in BOOLEAN, NEW queried \in BOOLEAN,
           RetrieveRound(r, searched, queried)
    PROVE  AgentTypeOK' /\ RunInv(r)' /\ RunAlone(r)
<1>1. PICK sources, fromGraph, available :
         /\ execution' = [execution EXCEPT ![r] = AfterRound(execution[r], sources, fromGraph, available)]
         /\ Emit(r, "RETRIEVED", None)
    BY DEF RetrieveRound
<1>2. execution[r].pc = "retrieve" /\ UNCHANGED <<runs, live, announced>>
    BY DEF RetrieveRound
<1>3. PICK last \in BOOLEAN :
         last <=> (sources \o fromGraph # <<>> \/ execution[r].round = MaxRetrievalRounds)
    OBVIOUS
<1>4. PICK pc, code :
         /\ pc = IF ~last THEN "retrieve" ELSE IF available THEN "evaluate" ELSE "fail"
         /\ code = IF last /\ ~available THEN "KNOWLEDGE_UNAVAILABLE" ELSE execution[r].code
    OBVIOUS
<1>5. AfterRound(execution[r], sources, fromGraph, available) =
         [execution[r] EXCEPT !.sources = sources, !.graph = fromGraph, !.available = available, !.round = @ + 1,
             !.pc = pc, !.code = code]
    BY <1>3, <1>4 DEF AfterRound
<1>6. execution' = [execution EXCEPT ![r] =
         [execution[r] EXCEPT !.sources = sources, !.graph = fromGraph, !.available = available, !.round = @ + 1,
             !.pc = pc, !.code = code]]
    BY <1>1, <1>5
<1>7. Goes(r, pc) /\ execution'[r].round = execution[r].round + 1
    BY <1>6 DEF Goes, AgentTypeOK, ExecutionFields
<1>8. Sends(r, "RETRIEVED", None)
    BY <1>1, Emitting
<1>9. Sending(r)'
    BY <1>2, <1>3, <1>4, <1>7, <1>8, AgentAssumption DEF RunInv, Sending, Goes, Sends, AgentTypeOK
<1>10. Storing(r)'
    BY <1>2, <1>4, <1>7 DEF RunInv, Storing, Goes
<1>11. AgentTypeOK' /\ RunInv(r)'
    BY <1>1, <1>2, <1>4, <1>7, <1>9, <1>10, SendingStage DEF AgentTypeOK, ExecutionStages
<1>12. RunAlone(r)
    BY <1>2, <1>4, <1>7, <1>8 DEF RunAlone, OthersKeep, Goes, Sends
<1> QED BY <1>11, <1>12

LEMMA RunStep ==
    ASSUME AgentTypeOK, NEW r \in Runs, RunInv(r), RunActions(r)
    PROVE  AgentTypeOK' /\ RunInv(r)' /\ RunAlone(r)
<1> USE DEF ExecutionStages
<1>1. CASE Plan(r)
    <2>1. CASE Enter(r, "retrieve") /\ Emit(r, "PLANNED", None)
        <3>1. Goes(r, "retrieve") /\ execution'[r].round = execution[r].round /\ Sends(r, "PLANNED", None)
            BY <2>1, Entering, Emitting
        <3>2. Sending(r)' /\ Storing(r)'
            <4>1. /\ execution[r].pc = "plan" /\ UNCHANGED runs
                  /\ execution'[r].pc = "retrieve" /\ execution'[r].round = 1 /\ Len(stream'[r]) = 2
                <5>1. execution[r].pc = "plan" /\ UNCHANGED runs
                    BY <1>1 DEF Plan
                <5>2. Len(stream[r]) = 1 /\ execution[r].round = 1
                    BY <5>1 DEF RunInv, Sending
                <5> QED BY <3>1, <5>1, <5>2 DEF Goes, Sends
            <4>2. stream'[r] # <<>>
                BY <3>1 DEF Sends
            <4>3. 1 \in 1..MaxRetrievalRounds /\ 2 <= MaxRetrievalRounds + 2
                BY AgentAssumption
            <4>4. Sending(r)'
                BY <4>1, <4>2, <4>3, AgentAssumption DEF Sending
            <4>5. Storing(r)'
                BY <4>1 DEF RunInv, Storing
            <4> QED BY <4>4, <4>5
        <3> QED BY <1>1, <2>1, <3>1, <3>2, SendingStage
                DEF Plan, RunAlone, OthersKeep, AgentTypeOK, Goes, Sends, RunInv, Storing
    <2>2. CASE GiveUp(r, "GENERATION_FAILURE") /\ UNCHANGED stream
        <3>1. Goes(r, "fail")
            BY <2>2, GivingUp
        <3>2. execution[r].pc = "plan" /\ UNCHANGED <<runs, stream, live, announced>>
            BY <1>1, <2>2 DEF Plan
        <3>3. Storing(r)' /\ DOMAIN runs' = Runs
            BY <3>1, <3>2 DEF RunInv, Storing, Goes, AgentTypeOK
        <3> QED BY <3>1, <3>2, <3>3, QuietStage DEF RunAlone, OthersKeep, Goes
    <2> QED BY <1>1, <2>1, <2>2 DEF Plan
<1>2. CASE RetrievalCancelled(r)
    <2>1. Goes(r, "fail")
        BY <1>2, GivingUp DEF RetrievalCancelled
    <2> QED BY <1>2, <2>1, QuietStage
            DEF RetrievalCancelled, RunAlone, OthersKeep, AgentTypeOK, Goes, RunInv, Storing
<1>3. CASE Evaluate(r)
    <2>1. PICK citations :
             /\ execution' = [execution EXCEPT ![r] =
                    IF citations = <<>> THEN [execution[r] EXCEPT !.pc = "save", !.answer = Insufficient]
                    ELSE [execution[r] EXCEPT !.pc = "generate", !.citations = citations]]
             /\ execution[r].pc = "evaluate" /\ Emit(r, "EVALUATED", None) /\ UNCHANGED <<runs, live, announced>>
        BY <1>3 DEF Evaluate
    <2>2. PICK pc \in {"save", "generate"} : Goes(r, pc)
        BY <2>1 DEF Goes, AgentTypeOK, ExecutionFields
    <2>3. Sends(r, "EVALUATED", None)
        BY <2>1, Emitting
    <2>4. Sending(r)' /\ Storing(r)'
        <3>1. Len(stream[r]) <= MaxRetrievalRounds + 2 /\ MaxRetrievalRounds \in Nat
            BY <2>1, AgentAssumption DEF RunInv, Sending
        <3>2. execution'[r].pc \in {"save", "generate"} /\ stream'[r] # <<>>
            BY <2>2, <2>3 DEF Goes, Sends
        <3>3. Len(stream'[r]) <= MaxRetrievalRounds + 3 /\ Len(stream'[r]) <= MaxRetrievalRounds + 4
            BY <2>3, <3>1 DEF Sends
        <3>4. Sending(r)'
            BY <3>2, <3>3 DEF Sending
        <3>5. Storing(r)'
            BY <2>1, <3>2 DEF RunInv, Storing
        <3> QED BY <3>4, <3>5
    <2>5. execution[r].pc \notin {"idle", "done"} /\ DOMAIN runs' = Runs
        BY <2>1 DEF AgentTypeOK
    <2>6. pc \in ExecutionStages \ {"idle", "done"}
        BY <2>2 DEF ExecutionStages
    <2>7. AgentTypeOK' /\ RunInv(r)'
        BY <2>1, <2>2, <2>3, <2>4, <2>5, <2>6, SendingStage
    <2>8. RunAlone(r)
        BY <2>1, <2>2, <2>3 DEF RunAlone, OthersKeep, Goes, Sends
    <2> QED BY <2>7, <2>8
<1>4. CASE GenerationFails(r)
    <2>1. Goes(r, "fail")
        BY <1>4, GivingUp DEF GenerationFails
    <2> QED BY <1>4, <2>1, QuietStage
            DEF GenerationFails, RunAlone, OthersKeep, AgentTypeOK, Goes, RunInv, Storing
<1>5. CASE SaveRun(r)
    <2>1. execution[r].pc = "save" /\ runs[r].status = "RUNNING" /\ UNCHANGED <<stream, live, announced>>
        BY <1>5 DEF SaveRun, RunInv, Storing
    <2>2. CASE /\ runs' = [runs EXCEPT ![r] = [status |-> "COMPLETED", answer |-> execution[r].answer]]
               /\ Enter(r, "publish")
        <3>1. Goes(r, "publish") /\ execution'[r].answer = execution[r].answer
            BY <2>2, Entering
        <3>2. Storing(r)' /\ DOMAIN runs' = Runs /\ \A q \in Runs \ {r} : runs'[q] = runs[q]
            BY <2>2, <3>1 DEF AgentTypeOK, Goes, Storing
        <3> QED BY <2>1, <3>1, <3>2, QuietStage DEF RunAlone, OthersKeep, Goes, Terminal
    <2>3. CASE GiveUp(r, "PERSISTENCE") /\ UNCHANGED runs
        <3>1. Goes(r, "fail")
            BY <2>3, GivingUp
        <3> QED BY <2>1, <2>3, <3>1, QuietStage DEF RunAlone, OthersKeep, AgentTypeOK, Goes, Storing
    <2> QED BY <1>5, <2>2, <2>3 DEF SaveRun
<1>6. CASE PublishRun(r)
    <2>1. /\ execution[r].pc = "publish" /\ UNCHANGED <<runs, live>>
          /\ runs[r] = [status |-> "COMPLETED", answer |-> execution[r].answer]
        BY <1>6 DEF PublishRun, RunInv, Storing
    <2>2. CASE /\ announced' = announced \cup {RunEvent(r)}
               /\ Enter(r, "done") /\ Emit(r, "COMPLETED", execution[r].answer)
        <3>1. /\ Goes(r, "done") /\ execution'[r].answer = execution[r].answer
              /\ execution'[r].question = execution[r].question
            BY <2>2, Entering
        <3>2. /\ AgentTypeOK' /\ Sending(r)' /\ Ending(r)'
              /\ Outcome(r)' = [type |-> "COMPLETED", payload |-> execution[r].answer]
            BY <2>1, <2>2, <3>1, LastStage DEF AgentTypeOK
        <3>3. Storing(r)'
            BY <2>1, <3>1, <3>2 DEF Storing, Goes
        <3>4. /\ RunEvent(r)' = RunEvent(r) /\ RunEvent(r).type = "run" /\ RunEvent(r).id = r
              /\ RunEvent(r).content = execution[r].answer
            BY <3>1 DEF RunEvent
        <3>5. Announcing(r)'
            <4>1. \A e \in announced : ~(e.type = "run" /\ e.id = r)
                BY <2>1 DEF RunInv, Announcing
            <4>2. execution'[r].pc = "done" /\ Outcome(r)'.type = "COMPLETED"
                  /\ Outcome(r)'.payload = execution[r].answer
                BY <3>1, <3>2 DEF Goes
            <4> QED BY <2>2, <3>4, <4>1, <4>2 DEF Announcing
        <3>6. Sends(r, "COMPLETED", execution[r].answer)
            BY <2>2, Emitting
        <3> QED BY <2>1, <2>2, <3>1, <3>2, <3>3, <3>4, <3>5, <3>6 DEF RunAlone, OthersKeep, Goes, RunInv, Sends
    <2>3. CASE GiveUp(r, "PERSISTENCE") /\ UNCHANGED <<announced, stream>>
        <3>1. Goes(r, "fail")
            BY <2>3, GivingUp
        <3>2. runs[r].status = "COMPLETED"
            BY <2>1
        <3>3. Storing(r)' /\ DOMAIN runs' = Runs
            BY <2>1, <3>1, <3>2 DEF Storing, Goes, AgentTypeOK
        <3>4. AgentTypeOK' /\ RunInv(r)'
            BY <2>1, <2>3, <3>1, <3>3, QuietStage
        <3>5. RunAlone(r)
            BY <2>1, <2>3, <3>1 DEF RunAlone, OthersKeep, Goes
        <3> QED BY <3>4, <3>5
    <2> QED BY <1>6, <2>2, <2>3 DEF PublishRun
<1>7. CASE ChooseContext(r)
    <2>1. Goes(r, "record")
        BY <1>7 DEF ChooseContext, Goes, AgentTypeOK, ExecutionFields
    <2> QED BY <1>7, <2>1, QuietStage
            DEF ChooseContext, RunAlone, OthersKeep, AgentTypeOK, Goes, RunInv, Storing
<1>8. CASE RecordFailure(r)
    <2>1. PICK stored \in BOOLEAN, payload \in {execution[r].code, "PERSISTENCE"} :
             /\ stored <=> UpdateAccepted(r, "FAILED", live[r] \/ execution[r].detached)
             /\ payload = IF stored THEN execution[r].code ELSE "PERSISTENCE"
             /\ runs' = IF stored THEN [runs EXCEPT ![r] = [status |-> "FAILED", answer |-> execution[r].answer]]
                        ELSE runs
             /\ Emit(r, "FAILED", payload)
        BY <1>8 DEF RecordFailure
    <2>2. execution[r].pc = "record" /\ Enter(r, "done") /\ UNCHANGED <<live, announced>>
        BY <1>8 DEF RecordFailure
    <2>3. Goes(r, "done")
        BY <2>2, Entering
    <2>4. DOMAIN runs' = Runs /\ \A q \in Runs \ {r} : runs'[q] = runs[q]
        BY <2>1 DEF AgentTypeOK
    <2>5. /\ AgentTypeOK' /\ Sending(r)' /\ Ending(r)'
          /\ Outcome(r)' = [type |-> "FAILED", payload |-> payload]
        BY <2>1, <2>2, <2>3, <2>4, LastStage
    <2>6. /\ runs[r].status = "COMPLETED" => ~stored
          /\ ~stored /\ runs[r].status = "RUNNING" => ~live[r]
          /\ runs[r].status \in {"RUNNING", "COMPLETED"}
        BY <2>1, <2>2 DEF UpdateAccepted, Terminal, RunInv, Storing
    <2>7. Storing(r)'
        <3>1. CASE stored
            <4>1. runs'[r].status = "FAILED"
                BY <2>1, <3>1 DEF AgentTypeOK
            <4> QED BY <2>3, <2>5, <4>1 DEF Storing, Goes
        <3>2. CASE ~stored
            BY <2>1, <2>2, <2>3, <2>5, <2>6, <3>2 DEF Storing, Goes
        <3> QED BY <3>1, <3>2
    <2>8. Announcing(r)'
        BY <2>2, <2>3, <2>5 DEF RunInv, Announcing, Goes
    <2>9. Sends(r, "FAILED", payload)
        BY <2>1, Emitting
    <2> QED BY <2>1, <2>2, <2>3, <2>4, <2>5, <2>6, <2>7, <2>8, <2>9
            DEF RunAlone, OthersKeep, Goes, RunInv, Sends, Terminal
<1>9. ASSUME NEW selection \in Selections, Generate(r, selection)
      PROVE  AgentTypeOK' /\ RunInv(r)' /\ RunAlone(r)
    <2>1. execution[r].pc = "generate" /\ UNCHANGED <<runs, stream, live, announced>>
        BY <1>9 DEF Generate
    <2>2. PICK answer : \/ GiveUp(r, "GENERATION_FAILURE")
                        \/ execution' = [execution EXCEPT ![r].pc = "save", ![r].answer = answer]
        BY <1>9 DEF Generate
    <2>3. PICK pc \in {"fail", "save"} : Goes(r, pc)
        BY <2>2, GivingUp DEF Goes, AgentTypeOK, ExecutionFields
    <2>4. Storing(r)' /\ DOMAIN runs' = Runs
        BY <2>1, <2>3 DEF RunInv, Storing, Goes, AgentTypeOK
    <2>5. AgentTypeOK' /\ RunInv(r)'
        BY <2>1, <2>3, <2>4, QuietStage
    <2>6. RunAlone(r)
        BY <2>1, <2>3 DEF RunAlone, OthersKeep, Goes
    <2> QED BY <2>5, <2>6
<1> QED BY <1>1, <1>2, <1>3, <1>4, <1>5, <1>6, <1>7, <1>8, <1>9, RetrieveStep DEF RunActions

LEMMA AskStep ==
    ASSUME AgentTypeOK, NEW r \in Runs, RunInv(r), NEW q, execution[r].pc = "idle", Ask(r, q),
           UNCHANGED <<live, announced>>
    PROVE  AgentTypeOK' /\ RunInv(r)' /\ OthersKeep(r) /\ runs[r] = None
<1>1. Goes(r, "plan") /\ execution'[r].round = 1
    BY DEF Ask, NoExecution, Goes, AgentTypeOK, ExecutionFields
<1>2. /\ DOMAIN runs' = Runs /\ runs'[r].status = "RUNNING"
      /\ \A o \in Runs \ {r} : runs'[o] = runs[o]
    BY DEF Ask, CreateRun, AgentTypeOK
<1>3. Emit(r, "RUN_STARTED", None)
    BY DEF Ask
<1>4. Sends(r, "RUN_STARTED", None)
    BY <1>3, Emitting
<1>5. runs[r] = None /\ Len(stream[r]) = 0
    BY DEF RunInv, Sending
<1>6. Sending(r)'
    BY <1>1, <1>4, <1>5, AgentAssumption DEF Sending, Goes, Sends
<1>7. Storing(r)'
    BY <1>1, <1>2 DEF Storing, Goes
<1>8. AgentTypeOK' /\ RunInv(r)'
    BY <1>1, <1>2, <1>3, <1>6, <1>7, SendingStage DEF ExecutionStages
<1>9. OthersKeep(r)
    BY <1>1, <1>2, <1>4 DEF OthersKeep, Goes, Sends
<1> QED BY <1>5, <1>8, <1>9

-----------------------------------------------------------------------------
(* The calls of the tools.                                                 *)
CallStages == {"idle", "charge", "operate", "receive", "audit", "done"}
CallFields == {"pc", "invocation", "grant", "reading", "result", "answer"}

CallTypeOK ==
    /\ DOMAIN calls = Runs /\ DOMAIN audit = Runs
    /\ \A c \in Runs : DOMAIN calls[c] = CallFields /\ calls[c].pc \in CallStages

(* A call has asked for nothing before it operates.                        *)
Unasked(c) == calls[c].pc \in {"idle", "charge", "operate"} => execution[c].pc = "idle"

(* A call is charged once, on its way from the limiter to its service.     *)
Charged(c) == \E x \in charges : x.call = c
Charging(c) ==
    /\ \A x, y \in charges : x.call = c /\ y.call = c => x = y
    /\ calls[c].pc \in {"idle", "charge"} => ~Charged(c)
    /\ calls[c].pc \in {"operate", "receive"} => Charged(c)
    /\ calls[c].pc \in {"audit", "done"} /\ calls[c].result \in {"UNAUTHENTICATED", "PERMISSION_DENIED", "RATE_LIMITED"} =>
          ~Charged(c)
    /\ calls[c].pc \in {"audit", "done"} /\ calls[c].result \in {"OK", "UPSTREAM_FAILURE"} => Charged(c)

(* What the audit holds of a call.                                         *)
Auditing(c) ==
    /\ calls[c].pc = "audit" => calls[c].result # "AUDIT_FAILURE"
    /\ calls[c].pc # "done" => audit[c] = <<>>
    /\ calls[c].pc = "done" =>
          audit[c] = IF calls[c].result = "AUDIT_FAILURE" THEN <<>>
                     ELSE <<[status |-> StatusOf(calls[c].result), error |-> calls[c].result]>>

(* An answer a call holds is the stored and announced one of its run.      *)
Answering(c) ==
    /\ calls[c].pc \notin {"audit", "done"} => calls[c].answer = None
    /\ calls[c].answer # None =>
          /\ execution[c].pc = "done" /\ RunEvent(c) \in announced
          /\ runs[c] = [status |-> "COMPLETED", answer |-> calls[c].answer]

CallInv(c) == Unasked(c) /\ Charging(c) /\ Auditing(c) /\ Answering(c)
CallsInv == \A c \in Runs : CallInv(c)

(* What a step of a run leaves of the others, and what every step leaves   *)
(* of a run that has not begun or has ended.                               *)
AtRest(r) == execution[r].pc \in {"idle", "done"} => execution'[r] = execution[r] /\ runs'[r] = runs[r]

LEMMA CallKept ==
    ASSUME NEW c \in Runs, CallInv(c), calls'[c] = calls[c], audit'[c] = audit[c], AtRest(c),
           charges \subseteq charges', \A x \in charges' \ charges : x.call # c, announced \subseteq announced'
    PROVE  CallInv(c)'
<1>1. Unasked(c)' /\ Auditing(c)'
    BY DEF CallInv, Unasked, Auditing, AtRest
<1>2. Charged(c)' <=> Charged(c)
    BY DEF Charged
<1>3. \A x, y \in charges' : x.call = c /\ y.call = c => x = y
    BY DEF CallInv, Charging
<1>4. Charging(c)'
    BY <1>2, <1>3 DEF CallInv, Charging
<1>5. Answering(c)'
    BY DEF CallInv, Answering, AtRest, RunEvent
<1> QED BY <1>1, <1>4, <1>5 DEF CallInv

(* A call moves by itself.                                                 *)
CallAlone(c) ==
    /\ \A d \in Runs \ {c} : calls'[d] = calls[d] /\ audit'[d] = audit[d]
    /\ charges \subseteq charges' /\ \A x \in charges' \ charges : x.call = c
Turns(c, pc) ==
    /\ DOMAIN calls' = Runs /\ DOMAIN calls'[c] = CallFields /\ calls'[c].pc = pc
    /\ \A d \in Runs \ {c} : calls'[d] = calls[d]

LEMMA Turned ==
    ASSUME CallTypeOK, NEW c \in Runs, NEW pc \in CallStages, Turns(c, pc), UNCHANGED audit
    PROVE  CallTypeOK'
BY DEF CallTypeOK, Turns

LEMMA Ended ==
    ASSUME CallTypeOK, NEW c \in Runs, NEW result, calls' = End(c, result)
    PROVE  Turns(c, "audit") /\ calls'[c].result = result /\ calls'[c].answer = calls[c].answer
BY DEF CallTypeOK, End, Turns, CallFields

LEMMA StartCallStep ==
    ASSUME CallTypeOK, NEW c \in Runs, CallInv(c), NEW i, NEW g, StartCall(c, i, g)
    PROVE  CallTypeOK' /\ CallInv(c)' /\ CallAlone(c)
<1>1. PICK refusal \in {"INVALID_INPUT", "UNAUTHENTICATED", "PERMISSION_DENIED", "RATE_LIMITED", "none"} :
         calls' = [calls EXCEPT ![c] = [NoCall EXCEPT
              !.invocation = i, !.grant = g, !.reading = now, !.result = refusal,
              !.pc = IF refusal = "none" THEN "charge" ELSE "audit"]]
    <2>1. Authorize(g) \in {"UNAUTHENTICATED", "PERMISSION_DENIED", "none"}
        BY DEF Authorize
    <2> DEFINE refusal == CASE ~i.scoped -> "INVALID_INPUT"
                            [] Authorize(g) # "none" -> Authorize(g)
                            [] ~live[c] -> "RATE_LIMITED"
                            [] OTHER -> "none"
    <2>2. refusal \in {"INVALID_INPUT", "UNAUTHENTICATED", "PERMISSION_DENIED", "RATE_LIMITED", "none"}
        BY <2>1
    <2> QED BY <2>2 DEF StartCall
<1>2. calls[c].pc = "idle" /\ UNCHANGED <<agentVars, charges, audit, announced>>
    BY DEF StartCall
<1>3. PICK pc \in {"charge", "audit"} :
         /\ pc = IF refusal = "none" THEN "charge" ELSE "audit"
         /\ Turns(c, pc) /\ calls'[c].result = refusal /\ calls'[c].answer = None
    <2>1. PICK pc \in {"charge", "audit"} : pc = IF refusal = "none" THEN "charge" ELSE "audit"
        OBVIOUS
    <2>2. calls' = [calls EXCEPT ![c] = [NoCall EXCEPT
              !.invocation = i, !.grant = g, !.reading = now, !.result = refusal, !.pc = pc]]
        BY <1>1, <2>1
    <2>3. Turns(c, pc) /\ calls'[c].result = refusal /\ calls'[c].answer = None
        BY <2>2 DEF NoCall, Turns, CallTypeOK, CallFields
    <2> QED BY <2>1, <2>3
<1>4. CallTypeOK'
    BY <1>2, <1>3, Turned DEF CallStages
<1>5. Unasked(c)' /\ Answering(c)'
    BY <1>2, <1>3 DEF CallInv, Unasked, Answering, Turns, agentVars
<1>6. Charging(c)'
    BY <1>2, <1>3 DEF CallInv, Charging, Charged, Turns
<1>7. Auditing(c)'
    BY <1>2, <1>3 DEF CallInv, Auditing, Turns
<1>8. CallAlone(c)
    BY <1>2, <1>3 DEF CallAlone, Turns
<1> QED BY <1>4, <1>5, <1>6, <1>7, <1>8 DEF CallInv

LEMMA AllowStep ==
    ASSUME CallTypeOK, NEW c \in Runs, CallInv(c), Allow(c)
    PROVE  CallTypeOK' /\ CallInv(c)' /\ CallAlone(c)
<1>1. calls[c].pc = "charge" /\ UNCHANGED <<agentVars, audit, announced>>
    BY DEF Allow
<1>2. ~Charged(c) /\ audit[c] = <<>> /\ calls[c].answer = None /\ execution[c].pc = "idle"
    BY <1>1 DEF CallInv, Charging, Auditing, Answering, Unasked
<1>3. CASE calls' = End(c, "RATE_LIMITED") /\ UNCHANGED charges
    <2>1. Turns(c, "audit") /\ calls'[c].result = "RATE_LIMITED" /\ calls'[c].answer = None
        BY <1>2, <1>3, Ended
    <2>2. CallTypeOK' /\ CallAlone(c)
        BY <1>1, <1>3, <2>1, Turned DEF CallStages, CallAlone, Turns
    <2>3. Charged(c)' <=> Charged(c)
        BY <1>3 DEF Charged
    <2>4. Charging(c)'
        BY <1>2, <1>3, <2>1, <2>3 DEF CallInv, Charging, Turns
    <2>5. Unasked(c)' /\ Auditing(c)' /\ Answering(c)'
        BY <1>1, <1>2, <2>1 DEF Unasked, Auditing, Answering, Turns
    <2> QED BY <2>2, <2>4, <2>5 DEF CallInv
<1>4. ASSUME NEW charge, charge.call = c, charges' = charges \cup {charge},
             calls' = [calls EXCEPT ![c].pc = "operate"]
      PROVE  CallTypeOK' /\ CallInv(c)' /\ CallAlone(c)
    <2>1. Turns(c, "operate") /\ calls'[c].answer = None
        BY <1>2, <1>4 DEF Turns, CallTypeOK, CallFields
    <2>2. CallTypeOK' /\ CallAlone(c)
        BY <1>1, <1>4, <2>1, Turned DEF CallStages, CallAlone, Turns
    <2>3. Charging(c)'
        BY <1>2, <1>4, <2>1 DEF Charging, Charged, Turns
    <2>4. Unasked(c)' /\ Auditing(c)' /\ Answering(c)'
        BY <1>1, <1>2, <2>1 DEF Unasked, Auditing, Answering, Turns, agentVars
    <2> QED BY <2>2, <2>3, <2>4 DEF CallInv
<1> QED
    <2>1. PICK charge : \/ calls' = End(c, "RATE_LIMITED") /\ UNCHANGED charges
                        \/ /\ charges' = charges \cup {charge} /\ charge.call = c
                           /\ calls' = [calls EXCEPT ![c].pc = "operate"]
        <3> DEFINE bucket == Fresh(buckets[Key(c)], calls[c].reading)
                   charge == [call |-> c, key |-> Key(c), cost |-> QuotaUnits(calls[c].invocation.tool),
                              reading |-> calls[c].reading, at |-> now, start |-> bucket.start]
        <3>1. charge.call = c
            OBVIOUS
        <3>2. \/ calls' = End(c, "RATE_LIMITED") /\ UNCHANGED charges
              \/ /\ charges' = charges \cup {charge}
                 /\ calls' = [calls EXCEPT ![c].pc = "operate"]
            BY DEF Allow
        <3> HIDE DEF charge
        <3> QED BY <3>1, <3>2
    <2> QED BY <1>3, <1>4, <2>1

(* A call that ends with a result that fits what it was charged.           *)
LEMMA EndStep ==
    ASSUME CallTypeOK, NEW c \in Runs, CallInv(c), calls[c].pc \in {"operate", "receive"},
           NEW result \in {"INVALID_INPUT", "OK", "UPSTREAM_FAILURE"}, calls' = End(c, result),
           UNCHANGED <<charges, audit>>
    PROVE  CallTypeOK' /\ CallInv(c)' /\ CallAlone(c)
<1>1. Turns(c, "audit") /\ calls'[c].result = result /\ calls'[c].answer = calls[c].answer
    BY Ended
<1>2. CallTypeOK' /\ CallAlone(c)
    BY <1>1, Turned DEF CallStages, CallAlone, Turns
<1>3. calls[c].answer = None /\ Charged(c) /\ audit[c] = <<>>
    BY DEF CallInv, Charging, Auditing, Answering
<1>4. Charging(c)'
    BY <1>1, <1>3 DEF CallInv, Charging, Charged, Turns
<1>5. Unasked(c)' /\ Auditing(c)' /\ Answering(c)'
    BY <1>1, <1>3 DEF Unasked, Auditing, Answering, Turns
<1> QED BY <1>2, <1>4, <1>5 DEF CallInv

LEMMA OperateStep ==
    ASSUME CallTypeOK, NEW c \in Runs, CallInv(c), Operate(c)
    PROVE  CallTypeOK' /\ CallInv(c)' /\ CallAlone(c)
<1>1. calls[c].pc = "operate" /\ UNCHANGED <<agentVars, charges, audit, announced>>
    BY DEF Operate
<1>2. PICK result \in {"INVALID_INPUT", "OK", "UPSTREAM_FAILURE"} : calls' = End(c, result)
    BY DEF Operate
<1> QED BY <1>1, <1>2, EndStep DEF agentVars

LEMMA StartAskStep ==
    ASSUME AgentTypeOK, AgentInv, CallTypeOK, NEW c \in Runs, CallInv(c), StartAsk(c)
    PROVE  /\ AgentTypeOK' /\ RunInv(c)' /\ OthersKeep(c) /\ UNCHANGED <<live, announced>>
           /\ CallTypeOK' /\ CallInv(c)' /\ CallAlone(c)
           /\ runs[c] = None \/ runs'[c] = runs[c]
<1>1. calls[c].pc = "operate" /\ execution[c].pc = "idle" /\ UNCHANGED <<live, charges, audit, announced>>
    BY DEF StartAsk, CallInv, Unasked
<1>2. CASE calls' = End(c, "UPSTREAM_FAILURE") /\ UNCHANGED agentVars
    <2>1. CallTypeOK' /\ CallInv(c)' /\ CallAlone(c)
        BY <1>1, <1>2, EndStep DEF agentVars
    <2>2. AgentTypeOK' /\ RunInv(c)' /\ OthersKeep(c)
        BY <1>1, <1>2, RunKept DEF agentVars, AgentTypeOK, AgentInv, OthersKeep
    <2> QED BY <1>1, <1>2, <2>1, <2>2 DEF agentVars
<1>3. CASE Ask(c, calls[c].invocation.question) /\ calls' = [calls EXCEPT ![c].pc = "receive"]
    <2>1. AgentTypeOK' /\ RunInv(c)' /\ OthersKeep(c) /\ runs[c] = None
        BY <1>1, <1>3, AskStep DEF AgentInv
    <2>2. Turns(c, "receive") /\ calls'[c].answer = calls[c].answer
        BY <1>3 DEF Turns, CallTypeOK, CallFields
    <2>3. CallTypeOK' /\ CallAlone(c)
        BY <1>1, <2>2, Turned DEF CallStages, CallAlone, Turns
    <2>4. CallInv(c)'
        BY <1>1, <2>2 DEF CallInv, Unasked, Charging, Charged, Auditing, Answering, Turns
    <2> QED BY <1>1, <2>1, <2>3, <2>4
<1> QED BY <1>2, <1>3 DEF StartAsk

(* The first terminal event a caller receives is the only one, and ends    *)
(* its run.                                                                *)
LEMMA ReceiveStep ==
    ASSUME AgentTypeOK, AgentInv, CallTypeOK, NEW c \in Runs, CallInv(c), Receive(c) \/ StopWaiting(c)
    PROVE  CallTypeOK' /\ CallInv(c)' /\ CallAlone(c)
<1>1. calls[c].pc = "receive" /\ UNCHANGED <<agentVars, charges, audit, announced>>
    BY DEF Receive, StopWaiting
<1>2. CASE calls' = End(c, "UPSTREAM_FAILURE")
    BY <1>1, <1>2, EndStep DEF agentVars
<1>3. ASSUME Receive(c), NEW last, last = stream[c][Min(TerminalEvents(c))], last.type = "COMPLETED",
             calls' = [End(c, "OK") EXCEPT ![c].answer = last.payload]
      PROVE  CallTypeOK' /\ CallInv(c)' /\ CallAlone(c)
    <2>1. PICK i \in DOMAIN stream[c] : i \in TerminalEvents(c)
        BY <1>3 DEF Receive, TerminalEvents
    <2>2. execution[c].pc = "done" /\ TerminalEvents(c) = {Len(stream[c])} /\ Len(stream[c]) \in Nat
        BY <2>1 DEF TerminalEvents, AgentInv, RunInv, Ending, IsEnd, AgentTypeOK
    <2>3. Min(TerminalEvents(c)) = Len(stream[c])
        BY <2>2 DEF Min
    <2>4. last = Outcome(c)
        BY <1>3, <2>3 DEF Outcome
    <2>5. runs[c] = [status |-> "COMPLETED", answer |-> last.payload] /\ RunEvent(c) \in announced
        BY <1>3, <2>2, <2>4 DEF AgentInv, RunInv, Storing, Announcing
    <2>6. Turns(c, "audit") /\ calls'[c].result = "OK" /\ calls'[c].answer = last.payload
        BY <1>3 DEF End, Turns, CallTypeOK, CallFields
    <2>7. CallTypeOK' /\ CallAlone(c)
        BY <1>1, <2>6, Turned DEF CallStages, CallAlone, Turns
    <2>8. Answering(c)'
        BY <1>1, <2>2, <2>5, <2>6 DEF Answering, Turns, agentVars, RunEvent
    <2>9. Unasked(c)' /\ Charging(c)' /\ Auditing(c)'
        BY <1>1, <2>6 DEF CallInv, Unasked, Charging, Charged, Auditing, Turns
    <2> QED BY <2>7, <2>8, <2>9 DEF CallInv
<1> QED BY <1>2, <1>3 DEF Receive, StopWaiting

LEMMA FinalizeStep ==
    ASSUME CallTypeOK, NEW c \in Runs, CallInv(c), Finalize(c)
    PROVE  CallTypeOK' /\ CallInv(c)' /\ CallAlone(c)
<1>1. calls[c].pc = "audit" /\ UNCHANGED <<agentVars, charges, announced>>
    BY DEF Finalize
<1>2. PICK result :
         /\ calls' = [calls EXCEPT ![c] =
                [NoCall EXCEPT !.pc = "done", !.result = result, !.answer = calls[c].answer]]
         /\ \/ /\ result = calls[c].result
               /\ audit' = [audit EXCEPT ![c] =
                      Append(@, [status |-> StatusOf(calls[c].result), error |-> calls[c].result])]
            \/ result = "AUDIT_FAILURE" /\ UNCHANGED audit
    BY DEF Finalize, AuditFailed
<1>3. Turns(c, "done") /\ calls'[c].result = result /\ calls'[c].answer = calls[c].answer
    BY <1>2 DEF Turns, CallTypeOK, CallFields, NoCall
<1>4. calls[c].result # "AUDIT_FAILURE" /\ audit[c] = <<>>
    BY <1>1 DEF CallInv, Auditing
<1>5. /\ DOMAIN audit' = Runs /\ \A d \in Runs \ {c} : audit'[d] = audit[d]
      /\ audit'[c] = IF result = "AUDIT_FAILURE" THEN <<>> ELSE <<[status |-> StatusOf(result), error |-> result]>>
    <2>1. Append(<<>>, [status |-> StatusOf(result), error |-> result]) =
             <<[status |-> StatusOf(result), error |-> result]>>
        OBVIOUS
    <2> QED BY <1>2, <1>4, <2>1 DEF CallTypeOK
<1>6. CallTypeOK' /\ CallAlone(c)
    BY <1>1, <1>3, <1>5 DEF CallStages, CallAlone, Turns, CallTypeOK
<1>7. Auditing(c)'
    BY <1>3, <1>5 DEF Auditing, Turns
<1>8. Charging(c)'
    BY <1>1, <1>2, <1>3 DEF CallInv, Charging, Charged, Turns
<1>9. Unasked(c)' /\ Answering(c)'
    BY <1>1, <1>3 DEF CallInv, Unasked, Answering, Turns, agentVars, RunEvent
<1> QED BY <1>6, <1>7, <1>8, <1>9 DEF CallInv

(* The calls of the assistant that touch no proposal's record, and those   *)
(* that announce nothing.                                                  *)
LEMMA AssistantActs ==
    ASSUME AssistantNext
    PROVE  /\ \/ UNCHANGED announced
              \/ \E v \in Reviews : AnnounceProposal(v)
           /\ \/ UNCHANGED proposals
              \/ \E p \in Proposers : CreateProposal(p)
              \/ \E v \in Reviews, to \in {"REJECTED", "APPLYING", "FAILED", "APPLIED"},
                    onward \in {"returned", "check", "announce"} : UpdateProposal(v, to, onward)
<1> DEFINE Unannounced == UNCHANGED announced
           Advances(v) == \E to \in {"REJECTED", "APPLYING", "FAILED", "APPLIED"},
                            onward \in {"returned", "check", "announce"} : UpdateProposal(v, to, onward)
<1>1. ASSUME NEW p \in Proposers,
             \/ \E w \in CodingCommands : StartProposal(p, w)
             \/ \E d \in ProposalDrafts : DraftProposal(p, d)
      PROVE  Unannounced /\ UNCHANGED proposals
    BY <1>1 DEF StartProposal, DraftProposal, recordVars
<1>2. ASSUME NEW p \in Proposers, CreateProposal(p) PROVE Unannounced
    BY <1>2 DEF CreateProposal
<1>3. ASSUME NEW v \in Reviews, \E p \in Proposers, approved \in BOOLEAN : StartReview(v, p, approved)
      PROVE  Unannounced /\ UNCHANGED proposals
    BY <1>3 DEF StartReview, recordVars
<1>4. ASSUME NEW v \in Reviews, CheckBase(v) \/ EndReview(v) \/ \E files \in SUBSET Files : ApplyPatch(v, files)
      PROVE  Unannounced /\ UNCHANGED proposals
    BY <1>4 DEF CheckBase, EndReview, ApplyPatch, recordVars
<1>5. ASSUME NEW v \in Reviews, Reject(v) \/ Claim(v) \/ RecordFailed(v) \/ RecordApplied(v)
      PROVE  Unannounced /\ Advances(v)
    BY <1>5 DEF Reject, Claim, RecordFailed, RecordApplied
<1>6. ASSUME NEW v \in Reviews, AnnounceProposal(v) PROVE UNCHANGED proposals
    BY <1>6 DEF AnnounceProposal, recordVars
<1>7. ASSUME (\E f \in Files : EditFile(f)) \/ MoveHead PROVE Unannounced /\ UNCHANGED proposals
    BY <1>7 DEF EditFile, MoveHead, recordVars
<1> HIDE DEF Unannounced, Advances
<1>8. /\ Unannounced \/ \E v \in Reviews : AnnounceProposal(v)
      /\ \/ UNCHANGED proposals
         \/ \E p \in Proposers : CreateProposal(p)
         \/ \E v \in Reviews : Advances(v)
    BY <1>1, <1>2, <1>3, <1>4, <1>5, <1>6, <1>7 DEF AssistantNext
<1> QED BY <1>8 DEF Unannounced, Advances

-----------------------------------------------------------------------------
(* The other services announce events of their own.                        *)
LEMMA OthersAnnounce ==
    ASSUME GraphStep \/ IndexStep \/ WikiStep \/ AssistantStep
    PROVE  /\ UNCHANGED answerVars /\ announced \subseteq announced'
           /\ \A e \in announced' \ announced : e.type # "run"
<1>1. CASE GraphStep
    <2>1. PICK s : announced' = announced \/ announced' = announced \cup {GraphEvent(s)}
        BY <1>1 DEF GraphStep, GraphNext, LoadParse, BuildGraph
    <2>2. GraphEvent(s).type = "graph"
        BY DEF GraphEvent
    <2> QED BY <1>1, <2>1, <2>2 DEF GraphStep
<1>2. CASE IndexStep
    <2>1. PICK r : announced' = announced \/ announced' = announced \cup {IndexEvent(r)}
        BY <1>2 DEF IndexStep, IndexNext, StartIndex, SaveIndex, SaveFails, AnnounceIndex, StartSearch, Search
    <2>2. IndexEvent(r).type = "index"
        BY DEF IndexEvent
    <2> QED BY <1>2, <2>1, <2>2 DEF IndexStep
<1>3. CASE WikiStep
    <2>1. PICK job : announced' = announced \/ announced' = announced \cup {WikiEvent(job)}
        BY <1>3 DEF WikiStep, WikiNext, StartGeneration, ReadKnowledge, BuildPage, SavePublication, AnnounceWiki,
           CancelGeneration
    <2>2. WikiEvent(job).type = "wiki"
        BY DEF WikiEvent
    <2> QED BY <1>3, <2>1, <2>2 DEF WikiStep
<1>4. CASE AssistantStep
    <2>1. PICK p : announced' = announced \/ announced' = announced \cup {ProposalEvent(p)}
        BY <1>4, AssistantActs DEF AssistantStep, AnnounceProposal
    <2>2. ProposalEvent(p).type = "proposal"
        BY DEF ProposalEvent
    <2> QED BY <1>4, <2>1, <2>2 DEF AssistantStep
<1> QED BY <1>1, <1>2, <1>3, <1>4

(* What ends a run is never written over.                                  *)
RunsStand == \A r \in Runs : runs[r] # None /\ Terminal(runs[r].status) => runs'[r] = runs[r]

LEMMA CallStep ==
    ASSUME AgentTypeOK, AgentInv, CallTypeOK, CallsInv, NEW c \in Runs,
           \/ \E i \in Invocations, g \in Grants : StartCall(c, i, g)
           \/ Allow(c) \/ Operate(c) \/ StartAsk(c) \/ Receive(c) \/ StopWaiting(c) \/ EndContext(c) \/ Finalize(c)
    PROVE  AgentTypeOK' /\ AgentInv' /\ CallTypeOK' /\ CallsInv' /\ RunsStand
<1>1. CallInv(c) /\ RunInv(c)
    BY DEF CallsInv, AgentInv
<1>2. ASSUME CallTypeOK', CallInv(c)', CallAlone(c), \A r \in Runs : AtRest(r), announced \subseteq announced'
      PROVE  CallTypeOK' /\ CallsInv'
    <2>1. ASSUME NEW d \in Runs \ {c} PROVE CallInv(d)'
        BY <1>2, <2>1, CallKept DEF CallAlone, CallsInv
    <2> QED BY <1>2, <2>1 DEF CallsInv
<1>3. ASSUME UNCHANGED <<runs, execution, stream, announced>>, DOMAIN live' = Runs, live' \in [Runs -> BOOLEAN],
             \A r \in Runs : live'[r] => live[r], CallTypeOK', CallInv(c)', CallAlone(c)
      PROVE  AgentTypeOK' /\ AgentInv' /\ CallTypeOK' /\ CallsInv' /\ RunsStand
    <2>1. AgentTypeOK' /\ RunsStand
        BY <1>3 DEF AgentTypeOK, RunsStand
    <2>2. AgentInv'
        BY <1>3, RunKept DEF AgentInv
    <2> QED BY <1>2, <1>3, <2>1, <2>2 DEF AtRest
<1>4. live \in [Runs -> BOOLEAN]
    BY DEF AgentTypeOK
<1>5. ASSUME NEW i \in Invocations, NEW g \in Grants, StartCall(c, i, g)
      PROVE  AgentTypeOK' /\ AgentInv' /\ CallTypeOK' /\ CallsInv' /\ RunsStand
    BY <1>1, <1>3, <1>4, <1>5, StartCallStep DEF StartCall, agentVars
<1>6. CASE Allow(c)
    BY <1>1, <1>3, <1>4, <1>6, AllowStep DEF Allow, agentVars
<1>7. CASE Operate(c)
    BY <1>1, <1>3, <1>4, <1>7, OperateStep DEF Operate, agentVars
<1>8. CASE StartAsk(c)
    <2>1. /\ AgentTypeOK' /\ RunInv(c)' /\ OthersKeep(c) /\ UNCHANGED <<live, announced>>
          /\ CallTypeOK' /\ CallInv(c)' /\ CallAlone(c)
          /\ runs[c] = None \/ runs'[c] = runs[c]
        BY <1>1, <1>8, StartAskStep
    <2>2. \A r \in Runs \ {c} : RunInv(r)'
        BY <2>1, RunKept DEF AgentInv, OthersKeep
    <2>3. AgentInv' /\ RunsStand
        BY <2>1, <2>2 DEF AgentInv, RunsStand, OthersKeep
    <2>4. \A d \in Runs \ {c} : CallInv(d)'
        BY <2>1, CallKept DEF CallsInv, CallAlone, OthersKeep, AtRest
    <2> QED BY <2>1, <2>3, <2>4 DEF CallsInv
<1>9. CASE Receive(c) \/ StopWaiting(c)
    <2>1. UNCHANGED <<runs, execution, stream, announced>> /\ live' = [live EXCEPT ![c] = FALSE]
        BY <1>9 DEF Receive, StopWaiting, agentVars
    <2>2. CallTypeOK' /\ CallInv(c)' /\ CallAlone(c)
        BY <1>1, <1>9, ReceiveStep
    <2> QED BY <1>3, <1>4, <2>1, <2>2
<1>10. CASE EndContext(c)
    <2>1. UNCHANGED <<runs, execution, stream, announced, calls, charges, audit>> /\ live' = [live EXCEPT ![c] = FALSE]
        BY <1>10 DEF EndContext, agentVars
    <2>2. CallTypeOK' /\ CallAlone(c)
        BY <2>1 DEF CallTypeOK, CallAlone
    <2>3. CallInv(c)'
        BY <1>1, <2>1, CallKept DEF AtRest
    <2> QED BY <1>3, <1>4, <2>1, <2>2, <2>3
<1>11. CASE Finalize(c)
    BY <1>1, <1>3, <1>4, <1>11, FinalizeStep DEF Finalize, agentVars
<1> QED BY <1>5, <1>6, <1>7, <1>8, <1>9, <1>10, <1>11

LEMMA AgentStep ==
    ASSUME AgentTypeOK, AgentInv, CallTypeOK, CallsInv, AgentNext, UNCHANGED <<calls, charges, audit>>
    PROVE  AgentTypeOK' /\ AgentInv' /\ CallTypeOK' /\ CallsInv' /\ RunsStand
<1>1. PICK r \in Runs : RunActions(r)
    BY DEF AgentNext, RunActions
<1>2. AgentTypeOK' /\ RunInv(r)' /\ RunAlone(r)
    BY <1>1, RunStep DEF AgentInv
<1>3. \A q \in Runs \ {r} : RunInv(q)'
    BY <1>2, RunKept DEF AgentInv, RunAlone, OthersKeep
<1>4. RunsStand
    BY <1>2 DEF RunsStand, RunAlone, OthersKeep
<1>5. \A q \in Runs : AtRest(q)
    BY <1>2 DEF AtRest, RunAlone, OthersKeep
<1>6. CallTypeOK' /\ CallsInv'
    BY <1>2, <1>5, CallKept DEF CallTypeOK, CallsInv, RunAlone
<1> QED BY <1>2, <1>3, <1>4, <1>6 DEF AgentInv

LEMMA KnowledgeStep ==
    ASSUME AgentTypeOK, AgentInv, CallTypeOK, CallsInv, [Next]_vars
    PROVE  AgentTypeOK' /\ AgentInv' /\ CallTypeOK' /\ CallsInv' /\ RunsStand
<1>1. ASSUME UNCHANGED <<runs, execution, stream, live, calls, charges, audit>>, announced \subseteq announced',
             \A e \in announced' \ announced : e.type # "run"
      PROVE  AgentTypeOK' /\ AgentInv' /\ CallTypeOK' /\ CallsInv' /\ RunsStand
    <2>1. AgentTypeOK' /\ CallTypeOK' /\ RunsStand
        BY <1>1 DEF AgentTypeOK, CallTypeOK, RunsStand
    <2>2. AgentInv'
        BY <1>1, RunKept DEF AgentInv
    <2>3. CallsInv'
        BY <1>1, CallKept DEF CallsInv, AtRest
    <2> QED BY <2>1, <2>2, <2>3
<1>2. CASE GraphStep \/ IndexStep \/ WikiStep \/ AssistantStep
    BY <1>1, <1>2, OthersAnnounce DEF answerVars, agentVars, toolVars
<1>3. CASE UNCHANGED vars
    BY <1>1, <1>3 DEF vars, answerVars, agentVars, toolVars
<1>4. CASE ToolStep
    <2>1. CASE Tick
        BY <1>1, <2>1 DEF Tick, agentVars
    <2>2. CASE AgentNext /\ UNCHANGED <<now, buckets, charges, calls, audit>>
        BY <2>2, AgentStep
    <2> QED BY <1>4, <2>1, <2>2, CallStep DEF ToolStep, ToolNext
<1> QED BY <1>2, <1>3, <1>4 DEF Next

LEMMA AgentInductive == Spec => [](AgentTypeOK /\ AgentInv /\ CallTypeOK /\ CallsInv)
<1>1. Init => AgentTypeOK /\ AgentInv /\ CallTypeOK /\ CallsInv
    <2> SUFFICES ASSUME Init PROVE AgentTypeOK /\ AgentInv /\ CallTypeOK /\ CallsInv
        OBVIOUS
    <2>1. /\ DOMAIN NoExecution = ExecutionFields /\ NoExecution.pc = "idle" /\ NoExecution.round = 1
          /\ DOMAIN NoCall = CallFields /\ NoCall.pc = "idle" /\ NoCall.answer = None
        BY DEF NoExecution, ExecutionFields, NoCall, CallFields
    <2>2. AgentTypeOK /\ CallTypeOK
        BY <2>1 DEF Init, AgentInit, ToolInit, AgentTypeOK, CallTypeOK, ExecutionStages, CallStages, ToSet
    <2>3. AgentInv
        BY <2>1, AgentAssumption DEF Init, AgentInit, AgentInv, RunInv, Sending, Ending, Storing, Announcing
    <2>4. CallsInv
        BY <2>1 DEF Init, AgentInit, ToolInit, CallsInv, CallInv, Unasked, Charging, Charged, Auditing, Answering
    <2> QED BY <2>2, <2>3, <2>4
<1>2. AgentTypeOK /\ AgentInv /\ CallTypeOK /\ CallsInv /\ [Next]_vars
         => AgentTypeOK' /\ AgentInv' /\ CallTypeOK' /\ CallsInv'
    BY KnowledgeStep
<1> QED BY <1>1, <1>2, PTL DEF Spec

(* Whoever reads the channel of a run learns how it ended: one terminal    *)
(* event, the last, within the capacity of the channel, and it says what   *)
(* is stored and announced, whatever ended, failed or was refused in       *)
(* between.                                                                *)
THEOREM CallersLearnTheOutcome == Spec => []StreamsTellOutcome
<1>1. AgentTypeOK /\ AgentInv => StreamsTellOutcome
    <2> SUFFICES ASSUME AgentTypeOK, AgentInv, NEW r \in Runs
                 PROVE  /\ Len(stream[r]) <= MaxRetrievalRounds + 5
                        /\ \A i \in DOMAIN stream[r] :
                              IsEnd(stream[r][i]) <=> execution[r].pc = "done" /\ i = Len(stream[r])
                        /\ execution[r].pc = "done" =>
                              LET end == Outcome(r)
                                  published == RunEvent(r) \in announced
                              IN CASE end.type = "COMPLETED" ->
                                         runs[r] = [status |-> "COMPLETED", answer |-> end.payload] /\ published
                                   [] end.type = "FAILED" ->
                                         /\ ~published
                                         /\ runs[r].status = "COMPLETED" => end.payload = "PERSISTENCE"
                                         /\ runs[r].status = "RUNNING" => ~live[r] /\ end.payload = "PERSISTENCE"
        BY DEF StreamsTellOutcome, IsEnd, Outcome
    <2>1. Sending(r) /\ Ending(r) /\ Storing(r) /\ Announcing(r) /\ stream[r] \in Seq(ToSet(stream[r]))
        BY DEF AgentInv, RunInv, AgentTypeOK
    <2>2. Len(stream[r]) <= MaxRetrievalRounds + 5
        BY <2>1, AgentAssumption DEF Sending
    <2>3. ASSUME execution[r].pc = "done"
          PROVE  /\ IsEnd(Outcome(r))
                 /\ Outcome(r).type = "FAILED" => RunEvent(r) \notin announced
        <3>1. Len(stream[r]) \in DOMAIN stream[r]
            BY <2>1, <2>3 DEF Sending
        <3>2. RunEvent(r).type = "run" /\ RunEvent(r).id = r
            BY DEF RunEvent
        <3> QED BY <2>1, <2>3, <3>1, <3>2 DEF Ending, Announcing, Outcome
    <2> HIDE DEF Outcome
    <2> QED BY <2>1, <2>2, <2>3 DEF Ending, Storing, Announcing, IsEnd
<1> QED BY <1>1, AgentInductive, PTL

(* What the audit says is what the caller was told, a call is charged once *)
(* if it was admitted, and an answer it gave is the stored and announced   *)
(* one of its run.                                                         *)
THEOREM AuditTellsTheCall == Spec => []CallsAreAudited
<1>1. CallsInv => CallsAreAudited
    <2> SUFFICES ASSUME CallsInv, NEW c \in Runs, calls[c].pc = "done"
                 PROVE  LET charged == {x \in charges : x.call = c}
                            told == calls[c].result
                        IN /\ IF told = "AUDIT_FAILURE" THEN audit[c] = <<>>
                              ELSE Len(audit[c]) = 1 /\ audit[c][1] = [status |-> StatusOf(told), error |-> told]
                           /\ Cardinality(charged) <= 1
                           /\ told \in {"UNAUTHENTICATED", "PERMISSION_DENIED", "RATE_LIMITED"} => charged = {}
                           /\ told \in {"OK", "UPSTREAM_FAILURE"} => charged # {}
                           /\ calls[c].answer # None =>
                                 /\ runs[c] = [status |-> "COMPLETED", answer |-> calls[c].answer]
                                 /\ RunEvent(c) \in announced
        BY DEF CallsAreAudited
    <2> DEFINE charged == {x \in charges : x.call = c}
    <2>1. Charging(c) /\ Auditing(c) /\ Answering(c)
        BY DEF CallsInv, CallInv
    <2>2. charged = {} <=> ~Charged(c)
        BY DEF Charged
    <2>3. Cardinality(charged) <= 1
        <3>1. CASE charged = {}
            BY <3>1, FS_EmptySet
        <3>2. CASE charged # {}
            <4>1. PICK x : charged = {x}
                BY <2>1, <3>2 DEF Charging
            <4>2. Cardinality({x}) = 1
                BY FS_Singleton
            <4> QED BY <4>1, <4>2
        <3> QED BY <3>1, <3>2
    <2>4. calls[c].result # "AUDIT_FAILURE" =>
             Len(audit[c]) = 1 /\ audit[c][1] = [status |-> StatusOf(calls[c].result), error |-> calls[c].result]
        BY <2>1 DEF Auditing
    <2> QED BY <2>1, <2>2, <2>3, <2>4 DEF Charging, Auditing, Answering
<1> QED BY <1>1, AgentInductive, PTL

-----------------------------------------------------------------------------
(* A proposal is stored once, and an outcome only over the stage before it.*)
ProposalsStand ==
    \A p \in Proposers : proposals[p] # None /\ proposals[p].status \in {"APPLIED", "REJECTED", "FAILED"} =>
        proposals'[p] = proposals[p]

LEMMA ProposalsStep ==
    ASSUME AssistantTypeOK, AssistantInv, [Next]_vars
    PROVE  ProposalsStand
<1>1. ASSUME NEW v \in Reviews, NEW to, NEW onward, UpdateProposal(v, to, onward)
      PROVE  ProposalsStand
    <2>1. \/ UNCHANGED proposals
          \/ Record(v, to) /\ ValidProposalTransition(proposals[review[v].proposal].status, to)
        BY <1>1 DEF UpdateProposal, Updatable
    <2> QED BY <2>1 DEF Record, ValidProposalTransition, ProposalsStand, AssistantTypeOK
<1>2. ASSUME NEW p \in Proposers, CreateProposal(p)
      PROVE  ProposalsStand
    <2>1. proposals[p] = None
        BY <1>2 DEF CreateProposal, AssistantInv, Drafting
    <2>2. \A q \in Proposers \ {p} : proposals'[q] = proposals[q]
        BY <1>2 DEF CreateProposal, AssistantTypeOK, recordVars
    <2> QED BY <2>1, <2>2 DEF ProposalsStand
<1>3. CASE UNCHANGED proposals
    BY <1>3 DEF ProposalsStand
<1>4. CASE AssistantNext
    <2>1. \/ UNCHANGED proposals
          \/ \E p \in Proposers : CreateProposal(p)
          \/ \E v \in Reviews, to \in {"REJECTED", "APPLYING", "FAILED", "APPLIED"}, onward \in {"returned", "check", "announce"} :
                UpdateProposal(v, to, onward)
        BY <1>4, AssistantActs
    <2> QED BY <1>1, <1>2, <1>3, <2>1
<1> QED BY <1>3, <1>4 DEF Next, GraphStep, IndexStep, WikiStep, ToolStep, AssistantStep, vars, proposalVars, recordVars

(* An answer or a failure of a run, and the outcome of a proposal, are     *)
(* never written over.                                                     *)
THEOREM OutcomesStay == Spec => FinalStays
<1> DEFINE Knowledge ==
        AgentTypeOK /\ AgentInv /\ CallTypeOK /\ CallsInv /\ AssistantTypeOK /\ AssistantInv
<1>1. Spec => []Knowledge
    BY AgentInductive, AssistantInductive, PTL
<1>2. Knowledge /\ [Next]_vars
         => [/\ \A r \in Runs : runs[r] # None /\ Terminal(runs[r].status) => runs'[r] = runs[r]
             /\ \A p \in Proposers : proposals[p] # None /\ proposals[p].status \in {"APPLIED", "REJECTED", "FAILED"} =>
                   proposals'[p] = proposals[p]]_vars
    BY KnowledgeStep, ProposalsStep DEF RunsStand, ProposalsStand
<1> QED BY <1>1, <1>2, PTL DEF Spec, FinalStays

-----------------------------------------------------------------------------

(***************************************************************************)
(* The limiter. Units are what a set of charges costs together.            *)
(***************************************************************************)
CostsOf(S) == [x \in S |-> x.cost]
Units(S) == Total(CostsOf(S), S)
Costly(S) == IsFiniteSet(S) /\ \A x \in S : x.cost \in Nat

LEMMA UnitsIsSum ==
    ASSUME NEW S, Costly(S)
    PROVE  MapThenSumSet(LAMBDA x : x.cost, S) = Units(S)
<1> DEFINE f == CostsOf(S)
           IsFold(fold) == fold = [s \in SUBSET S |->
                 IF s = {} THEN 0 ELSE (CHOOSE x \in s : TRUE).cost + fold[s \ {CHOOSE x \in s : TRUE}]]
<1>0. IsFiniteSet(S) /\ \A x \in S : f[x] = x.cost /\ f[x] \in Nat
    BY DEF Costly, CostsOf
<1>1. MapThenSumSet(LAMBDA x : x.cost, S) = (CHOOSE fold : IsFold(fold))[S]
    BY DEF MapThenSumSet, MapThenFoldSet
<1>2. \A s \in SUBSET S : s # {} => f[Pick(s)] = (CHOOSE x \in s : TRUE).cost
    BY <1>0 DEF Pick
<1>3. \A fold : IsFold(fold) <=> Folds(fold, f, S)
    BY <1>2 DEF Folds, Pick
<1> HIDE DEF f
<1>4. IsFold(CHOOSE fold : IsFold(fold))
    <2>1. \E fold : Folds(fold, f, S)
        BY <1>0, FoldExists
    <2> HIDE DEF IsFold
    <2>2. \E fold : IsFold(fold)
        BY <2>1, <1>3
    <2> QED BY <2>2
<1>5. PICK fold : fold = (CHOOSE g : IsFold(g))
    OBVIOUS
<1> HIDE DEF IsFold
<1>6. Folds(fold, f, S)
    BY <1>3, <1>4, <1>5
<1>7. fold[S] = Total(f, S)
    BY <1>0, <1>6, FoldIsTotal
<1> QED BY <1>1, <1>5, <1>7 DEF Units, f

LEMMA UnitsMonotonic ==
    ASSUME NEW T, Costly(T), NEW S \in SUBSET T
    PROVE  Costly(S) /\ Units(S) \in Nat /\ Units(T) \in Nat /\ Units(S) <= Units(T)
<1>1. IsFiniteSet(T) /\ \A x \in T : CostsOf(T)[x] \in Nat
    BY DEF Costly, CostsOf
<1>2. Costly(S)
    BY FS_Subset DEF Costly
<1>3. IsFiniteSet(S) /\ \A x \in S : CostsOf(S)[x] \in Nat
    BY <1>2 DEF Costly, CostsOf
<1>4. Total(CostsOf(T), T) \in Nat /\ Total(CostsOf(S), S) \in Nat
    BY <1>1, <1>3, TotalType
<1>5. Total(CostsOf(T), S) <= Total(CostsOf(T), T)
    BY <1>1, TotalSubset
<1>6. \A x \in S : CostsOf(T)[x] = CostsOf(S)[x]
    BY DEF CostsOf
<1>7. Total(CostsOf(T), S) = Total(CostsOf(S), S)
    BY <1>6, TotalAgree
<1> QED BY <1>2, <1>4, <1>5, <1>7 DEF Units

LEMMA UnitsTogether ==
    ASSUME NEW S, Costly(S), NEW T, Costly(T)
    PROVE  Costly(S \cup T) /\ Units(S \cup T) <= Units(S) + Units(T)
<1> DEFINE rest == T \ S
           f == CostsOf(S \cup T)
<1>1. Costly(S \cup T)
    BY FS_Union DEF Costly
<1>2. Costly(rest) /\ Units(rest) \in Nat /\ Units(T) \in Nat /\ Units(S) \in Nat /\ Units(rest) <= Units(T)
    BY UnitsMonotonic
<1>3. S \cap rest = {} /\ S \cup rest = S \cup T
    OBVIOUS
<1>4. IsFiniteSet(S) /\ IsFiniteSet(rest) /\ \A x \in S \cup T : f[x] \in Nat
    BY <1>1, <1>2 DEF Costly, CostsOf
<1>5. \A x \in S : f[x] = CostsOf(S)[x]
    BY DEF CostsOf
<1>6. \A x \in rest : f[x] = CostsOf(rest)[x]
    BY DEF CostsOf
<1> HIDE DEF f, rest
<1>7. Total(f, S \cup rest) = Total(f, S) + Total(f, rest)
    BY <1>3, <1>4, TotalUnion
<1>8. Total(f, S) = Total(CostsOf(S), S) /\ Total(f, rest) = Total(CostsOf(rest), rest)
    BY <1>5, <1>6, TotalAgree
<1>9. Units(S \cup T) = Units(S) + Units(rest)
    BY <1>3, <1>7, <1>8 DEF Units, f
<1> QED BY <1>1, <1>2, <1>9

LEMMA UnitsOfOne ==
    ASSUME NEW x, x.cost \in Nat
    PROVE  Costly({x}) /\ Units({x}) = x.cost
<1>1. CostsOf({x})[x] = x.cost
    BY DEF CostsOf
<1>2. Total(CostsOf({x}), {x}) = x.cost
    BY <1>1, TotalOne
<1> QED BY <1>2, FS_Singleton DEF Costly, Units

LEMMA UnitsOfNothing == Costly({}) /\ Units({}) = 0
BY TotalEmpty, FS_EmptySet DEF Costly, Units

(* What the charges of a client and tool and its bucket say of each other. *)
(* A charge belongs to the window it was admitted in; its reading of the   *)
(* clock may be older than that window, but never a window's length newer. *)
Own(key) == {x \in charges : x.key = key}
InWindow(key, start) == {x \in charges : x.key = key /\ x.start = start}
ClockInv ==
    /\ now \in Nat /\ Costly(charges)
    /\ DOMAIN buckets = {g.client : g \in Grants} \X Tools
    /\ \A c \in Runs : /\ calls[c].reading \in 0..now
                       /\ calls[c].pc = "charge" => Key(c) \in DOMAIN buckets
    /\ \A x \in charges :
          /\ x.start \in 0..now /\ x.reading \in Nat /\ x.at \in 0..now
          /\ x.at < x.start + Window \/ x.at # x.reading
          /\ x.at >= x.start
WindowsInv(key) ==
    /\ \A x, y \in Own(key) : x.start < y.start => x.start + Window <= y.start
    /\ \A x \in Own(key) : Units(InWindow(key, x.start)) <= QuotaLimit
BucketInv(key) ==
    \/ buckets[key] = None /\ Own(key) = {}
    \/ /\ buckets[key] \in [start : 0..now, used : 0..QuotaLimit]
       /\ Units(InWindow(key, buckets[key].start)) <= buckets[key].used
       /\ \A x \in Own(key) : x.start = buckets[key].start \/ x.start + Window <= buckets[key].start
QuotaInv == ClockInv /\ \A key \in DOMAIN buckets : WindowsInv(key) /\ BucketInv(key)

(* A step that charges nobody; the clock may go on.                        *)
LEMMA QuotaKept ==
    ASSUME QuotaInv, UNCHANGED <<buckets, charges>>, now' \in Nat, now <= now',
           \A c \in Runs : calls'[c].reading \in 0..now' /\ (calls'[c].pc = "charge" => Key(c)' \in DOMAIN buckets)
    PROVE  QuotaInv'
<1>1. ClockInv'
    BY DEF QuotaInv, ClockInv
<1>2. \A key \in DOMAIN buckets : Own(key)' = Own(key)
    BY DEF Own
<1>3. \A key \in DOMAIN buckets : \A start : InWindow(key, start)' = InWindow(key, start)
    BY DEF InWindow
<1>4. ASSUME NEW key \in DOMAIN buckets PROVE WindowsInv(key)'
    BY <1>4, <1>2 DEF QuotaInv, WindowsInv, InWindow
<1>5. ASSUME NEW key \in DOMAIN buckets PROVE BucketInv(key)'
    <2>1. CASE buckets[key] = None /\ Own(key) = {}
        BY <1>2, <1>5, <2>1 DEF BucketInv
    <2>2. CASE /\ buckets[key] \in [start : 0..now, used : 0..QuotaLimit]
               /\ Units(InWindow(key, buckets[key].start)) <= buckets[key].used
               /\ \A x \in Own(key) : x.start = buckets[key].start \/ x.start + Window <= buckets[key].start
        <3>1. buckets[key] \in [start : 0..now', used : 0..QuotaLimit]
            BY <2>2 DEF QuotaInv, ClockInv
        <3> QED BY <3>1, <2>2, <1>2, <1>5 DEF BucketInv, InWindow
    <2> QED BY <1>5, <2>1, <2>2 DEF QuotaInv, BucketInv
<1> QED BY <1>1, <1>4, <1>5 DEF QuotaInv

(* What a charge writes: a bucket that starts no earlier than the others   *)
(* of its key, a window's length after those of other windows.             *)
LEMMA AllowCharges ==
    ASSUME QuotaInv, CallTypeOK, NEW c \in Runs, Allow(c), Key(c) \in DOMAIN buckets,
           NEW bucket, bucket = Fresh(buckets[Key(c)], calls[c].reading)
    PROVE  /\ bucket \in [start : 0..now, used : 0..QuotaLimit]
           /\ calls[c].reading - bucket.start < Window
           /\ Units(InWindow(Key(c), bucket.start)) <= bucket.used
           /\ \A x \in Own(Key(c)) : x.start = bucket.start \/ x.start + Window <= bucket.start
<1> DEFINE key == Key(c)
<1>0. Window \in Nat \ {0} /\ QuotaLimit \in Nat \ {0}
    BY ToolsAssumption
<1>1. PICK reading \in Nat : reading = calls[c].reading /\ reading <= now /\ now \in Nat
    BY DEF QuotaInv, ClockInv
<1>2. WindowsInv(key) /\ BucketInv(key) /\ ClockInv
    BY DEF QuotaInv
<1>3. ASSUME NEW old, old = buckets[key], old \in [start : 0..now, used : 0..QuotaLimit],
             reading - old.start < Window,
             Units(InWindow(key, old.start)) <= old.used,
             \A x \in Own(key) : x.start = old.start \/ x.start + Window <= old.start
      PROVE  bucket = old
    BY <1>0, <1>1, <1>3, ToolsAssumption DEF Fresh
<1>4. ASSUME bucket = [start |-> reading, used |-> 0],
             \A x \in Own(key) : x.start + Window <= reading
      PROVE  /\ bucket \in [start : 0..now, used : 0..QuotaLimit]
             /\ calls[c].reading - bucket.start < Window
             /\ Units(InWindow(key, bucket.start)) <= bucket.used
             /\ \A x \in Own(key) : x.start = bucket.start \/ x.start + Window <= bucket.start
    <2>1. bucket \in [start : 0..now, used : 0..QuotaLimit] /\ bucket.start = reading /\ bucket.used = 0
        BY <1>0, <1>1, <1>4
    <2>2. \A x \in Own(key) : x.start \in Nat
        BY <1>2 DEF ClockInv, Own
    <2>3. InWindow(key, reading) = {}
        <3> SUFFICES ASSUME NEW x \in InWindow(key, reading) PROVE FALSE
            OBVIOUS
        <3>1. x \in Own(key) /\ x.start = reading
            BY DEF Own, InWindow
        <3> QED BY <3>1, <2>2, <1>0, <1>1, <1>4
    <2> QED BY <2>1, <2>3, <1>0, <1>1, <1>4, UnitsOfNothing
<1>5. CASE buckets[key] = None /\ Own(key) = {}
    BY <1>5, <1>4, <1>1 DEF Fresh
<1>6. CASE /\ buckets[key] \in [start : 0..now, used : 0..QuotaLimit]
           /\ Units(InWindow(key, buckets[key].start)) <= buckets[key].used
           /\ \A x \in Own(key) : x.start = buckets[key].start \/ x.start + Window <= buckets[key].start
    <2>1. PICK old \in [start : 0..now, used : 0..QuotaLimit] : old = buckets[key]
        BY <1>6
    <2>2. CASE reading - old.start < Window
        BY <1>3, <1>6, <2>1, <2>2, <1>1
    <2>3. CASE reading - old.start >= Window
        <3>1. bucket = [start |-> reading, used |-> 0]
            BY <2>1, <2>3, <1>1 DEF Fresh
        <3>2. \A x \in Own(key) : x.start \in Nat
            BY <1>2 DEF ClockInv, Own
        <3>3. \A x \in Own(key) : x.start + Window <= reading
            BY <3>2, <2>1, <2>3, <1>6, <1>0, <1>1
        <3> QED BY <3>1, <3>3, <1>4
    <2> QED BY <2>1, <2>2, <2>3, <1>0, <1>1
<1> QED BY <1>2, <1>5, <1>6 DEF BucketInv

LEMMA CostIsNatural == \A tool : QuotaUnits(tool) \in Nat
BY DEF QuotaUnits

(* A charge that fits keeps what is said of its key.                       *)
LEMMA ChargeKept ==
    ASSUME QuotaInv, NEW key \in DOMAIN buckets, NEW bucket, NEW x, NEW cost \in Nat,
           bucket \in [start : 0..now, used : 0..QuotaLimit],
           Units(InWindow(key, bucket.start)) <= bucket.used,
           \A y \in Own(key) : y.start = bucket.start \/ y.start + Window <= bucket.start,
           Fits(bucket.used, cost),
           x.key = key, x.cost = cost, x.start = bucket.start,
           charges' = charges \cup {x}, buckets' = [buckets EXCEPT ![key] = [bucket EXCEPT !.used = @ + cost]],
           UNCHANGED now, ClockInv'
    PROVE  QuotaInv'
<1>0. Window \in Nat \ {0} /\ QuotaLimit \in Nat \ {0} /\ now \in Nat /\ Costly(charges)
    BY ToolsAssumption DEF QuotaInv, ClockInv
<1>1. /\ bucket.start \in 0..now /\ bucket.used \in 0..QuotaLimit
      /\ bucket.used + cost <= QuotaLimit /\ bucket.used + cost \in Nat
    BY <1>0 DEF Fits
<1>2. PICK start \in 0..now : start = bucket.start
    BY <1>1
<1>3. \A y \in Own(key) : y.start \in Nat
    BY DEF QuotaInv, ClockInv, Own
<1>4. Own(key)' = Own(key) \cup {x} /\ InWindow(key, start)' = InWindow(key, start) \cup {x}
    BY <1>2 DEF Own, InWindow
<1>5. ASSUME NEW s, s # start PROVE InWindow(key, s)' = InWindow(key, s)
    BY <1>2, <1>5 DEF InWindow
<1>6. Units(InWindow(key, start) \cup {x}) <= bucket.used + cost
    <2>1. Costly({x}) /\ Units({x}) = cost
        BY UnitsOfOne
    <2>2. Costly(InWindow(key, start)) /\ Units(InWindow(key, start)) \in Nat
        BY <1>0, UnitsMonotonic DEF InWindow
    <2>3. Costly(InWindow(key, start) \cup {x}) /\ Units(InWindow(key, start) \cup {x}) <= Units(InWindow(key, start)) + cost
        BY <2>1, <2>2, UnitsTogether
    <2>4. Units(InWindow(key, start) \cup {x}) \in Nat
        BY <2>3, UnitsMonotonic
    <2> QED BY <2>2, <2>3, <2>4, <1>1, <1>2
<1>7. WindowsInv(key)'
    <2>1. \A y \in Own(key) \cup {x} : y.start = start \/ y.start + Window <= start
        BY <1>2
    <2>2. ASSUME NEW y \in Own(key) \cup {x}, NEW z \in Own(key) \cup {x}, y.start < z.start
          PROVE  y.start + Window <= z.start
        <3>1. CASE y = x \/ z = x
            BY <3>1, <2>1, <2>2, <1>0, <1>2, <1>3
        <3>2. CASE y \in Own(key) /\ z \in Own(key)
            BY <3>2, <2>2 DEF QuotaInv, WindowsInv
        <3> QED BY <3>1, <3>2
    <2>3. ASSUME NEW y \in Own(key) \cup {x} PROVE Units(InWindow(key, y.start)') <= QuotaLimit
        <3>1. CASE y.start = start
            <4>1. Units(InWindow(key, start) \cup {x}) \in Nat
                <5>1. Costly({x})
                    BY UnitsOfOne
                <5>2. Costly(InWindow(key, start))
                    BY <1>0, UnitsMonotonic DEF InWindow
                <5>3. Costly(InWindow(key, start) \cup {x})
                    BY <5>1, <5>2, UnitsTogether
                <5> QED BY <5>3, UnitsMonotonic
            <4> QED BY <3>1, <4>1, <1>0, <1>1, <1>4, <1>6
        <3>2. CASE y.start # start
            <4>1. y \in Own(key)
                BY <3>2, <2>3, <1>2
            <4> QED BY <3>2, <4>1, <1>5 DEF QuotaInv, WindowsInv
        <3> QED BY <3>1, <3>2
    <2>4. \A y \in Own(key)' : Units(InWindow(key, y.start))' <= QuotaLimit
        BY <2>3, <1>4
    <2> QED BY <2>2, <2>4, <1>4, <1>0 DEF WindowsInv
<1>8. BucketInv(key)'
    <2>1. buckets'[key] = [bucket EXCEPT !.used = @ + cost]
        OBVIOUS
    <2>2. buckets'[key].start = start /\ buckets'[key].used = bucket.used + cost
        BY <2>1, <1>2
    <2>3. buckets'[key] \in [start : 0..now', used : 0..QuotaLimit]
        BY <2>1, <1>0, <1>1
    <2>4. Units(InWindow(key, start)') <= buckets'[key].used
        BY <2>2, <1>4, <1>6
    <2>5. \A y \in Own(key)' : y.start = start \/ y.start + Window <= start
        BY <1>2, <1>4
    <2> QED BY <2>2, <2>3, <2>4, <2>5 DEF BucketInv
<1>9. ASSUME NEW k \in DOMAIN buckets, k # key PROVE WindowsInv(k)' /\ BucketInv(k)'
    <2>1. Own(k)' = Own(k) /\ buckets'[k] = buckets[k]
        BY <1>9 DEF Own
    <2>2. ASSUME NEW s PROVE InWindow(k, s)' = InWindow(k, s)
        BY <1>9 DEF InWindow
    <2>3. WindowsInv(k) /\ BucketInv(k)
        BY DEF QuotaInv
    <2>4. WindowsInv(k)'
        BY <2>1, <2>2, <2>3 DEF WindowsInv
    <2>5. InWindow(k, buckets[k].start)' = InWindow(k, buckets[k].start)
        BY <2>1, <1>9 DEF InWindow
    <2>6. BucketInv(k)'
        BY <2>1, <2>3, <2>5 DEF BucketInv
    <2> QED BY <2>4, <2>6
<1> QED BY <1>7, <1>8, <1>9 DEF QuotaInv

LEMMA AllowQuota ==
    ASSUME QuotaInv, CallTypeOK, NEW c \in Runs, Allow(c)
    PROVE  QuotaInv'
<1> DEFINE key == Key(c)
           cost == QuotaUnits(calls[c].invocation.tool)
<1>1. /\ calls[c].pc = "charge" /\ UNCHANGED now
      /\ calls[c].reading \in 0..now /\ now \in Nat /\ key \in DOMAIN buckets
      /\ Window \in Nat \ {0} /\ QuotaLimit \in Nat \ {0}
    BY ToolsAssumption DEF Allow, QuotaInv, ClockInv
<1>2. PICK bucket : bucket = Fresh(buckets[key], calls[c].reading)
    OBVIOUS
<1>3. /\ bucket \in [start : 0..now, used : 0..QuotaLimit]
      /\ calls[c].reading - bucket.start < Window
      /\ Units(InWindow(key, bucket.start)) <= bucket.used
      /\ \A x \in Own(key) : x.start = bucket.start \/ x.start + Window <= bucket.start
    BY <1>1, <1>2, AllowCharges
<1>4. ASSUME NEW pc \in {"operate", "audit"}, Turns(c, pc), calls'[c].reading = calls[c].reading, DOMAIN buckets' = DOMAIN buckets
      PROVE  \A d \in Runs : calls'[d].reading \in 0..now' /\ (calls'[d].pc = "charge" => Key(d)' \in DOMAIN buckets)
    BY <1>1, <1>4 DEF Turns, QuotaInv, ClockInv, Key
<1>5. CASE ~Fits(bucket.used, cost)
    <2>1. calls' = End(c, "RATE_LIMITED") /\ UNCHANGED <<buckets, charges>>
        BY <1>2, <1>5 DEF Allow
    <2>2. Turns(c, "audit") /\ calls'[c].reading = calls[c].reading
        <3>1. Turns(c, "audit")
            BY <2>1, Ended
        <3>2. calls'[c].reading = calls[c].reading
            BY <2>1 DEF End, CallTypeOK, CallFields
        <3> QED BY <3>1, <3>2
    <2>3. now' \in Nat /\ now <= now'
        BY <1>1
    <2> QED BY <2>1, <2>2, <2>3, <1>4, QuotaKept
<1>6. CASE Fits(bucket.used, cost)
    <2> DEFINE charge == [call |-> c, key |-> key, cost |-> cost, reading |-> calls[c].reading,
                          at |-> now, start |-> bucket.start]
    <2>1. /\ buckets' = [buckets EXCEPT ![key] = [bucket EXCEPT !.used = @ + cost]]
          /\ charges' = charges \cup {charge}
          /\ calls' = [calls EXCEPT ![c].pc = "operate"]
        BY <1>2, <1>6 DEF Allow
    <2>2. Turns(c, "operate") /\ calls'[c].reading = calls[c].reading
        BY <2>1 DEF Turns, CallTypeOK, CallFields
    <2>3. PICK x : /\ x = charge /\ x.key = key /\ x.cost = cost /\ x.start = bucket.start
                   /\ x.at = now /\ x.reading = calls[c].reading
        <3>1. /\ charge.key = key /\ charge.cost = cost /\ charge.start = bucket.start
              /\ charge.at = now /\ charge.reading = calls[c].reading
            OBVIOUS
        <3> HIDE DEF charge, key, cost
        <3> QED BY <3>1
    <2>4. cost \in Nat
        BY CostIsNatural
    <2>5. charges' = charges \cup {x} /\ DOMAIN buckets' = DOMAIN buckets
        BY <2>1, <2>3
    <2>6. bucket.start \in 0..now
        BY <1>3
    <2> HIDE DEF charge, cost
    <2>7. Costly(charges')
        <3>1. Costly({x})
            BY <2>3, <2>4, UnitsOfOne
        <3> QED BY <3>1, <2>5, UnitsTogether DEF QuotaInv, ClockInv
    <2>8. x.at < x.start + Window \/ x.at # x.reading
        BY <1>1, <1>3, <2>3, <2>6
    <2>9. ClockInv'
        BY <1>1, <1>4, <2>2, <2>3, <2>5, <2>6, <2>7, <2>8 DEF QuotaInv, ClockInv
    <2> HIDE DEF key
    <2> QED BY <1>1, <1>3, <1>6, <2>1, <2>3, <2>4, <2>5, <2>9, ChargeKept
<1> QED BY <1>5, <1>6

(* Every other step of a call leaves the buckets alone, and its reading    *)
(* is that of the clock when it starts.                                    *)
LEMMA CallQuota ==
    ASSUME QuotaInv, CallTypeOK, NEW c \in Runs,
           \/ Operate(c) \/ StartAsk(c) \/ Receive(c) \/ StopWaiting(c) \/ EndContext(c) \/ Finalize(c)
    PROVE  QuotaInv'
<1>0. UNCHANGED <<buckets, charges, now>> /\ now \in Nat /\ now <= now
    BY DEF Operate, StartAsk, Receive, StopWaiting, EndContext, Finalize, QuotaInv, ClockInv
<1>1. /\ \A d \in Runs \ {c} : calls'[d] = calls[d]
      /\ calls'[c].reading \in {0, calls[c].reading}
      /\ calls'[c].pc = "charge" => calls'[c] = calls[c]
    <2>1. ASSUME NEW result, calls' = End(c, result)
          PROVE  /\ \A d \in Runs \ {c} : calls'[d] = calls[d]
                 /\ calls'[c].reading = calls[c].reading /\ calls'[c].pc = "audit"
        BY <2>1 DEF End, CallTypeOK, CallFields
    <2>2. CASE Operate(c)
        BY <2>1, <2>2 DEF Operate
    <2>3. CASE StartAsk(c)
        <3>1. CASE calls' = [calls EXCEPT ![c].pc = "receive"]
            BY <3>1 DEF CallTypeOK, CallFields
        <3> QED BY <2>1, <2>3, <3>1 DEF StartAsk
    <2>4. CASE Receive(c)
        <3>1. ASSUME NEW answer, calls' = [End(c, "OK") EXCEPT ![c].answer = answer]
              PROVE  /\ \A d \in Runs \ {c} : calls'[d] = calls[d]
                     /\ calls'[c].reading = calls[c].reading /\ calls'[c].pc = "audit"
            BY <3>1 DEF End, CallTypeOK, CallFields
        <3> QED BY <2>1, <2>4, <3>1 DEF Receive
    <2>5. CASE StopWaiting(c)
        BY <2>1, <2>5 DEF StopWaiting
    <2>6. CASE EndContext(c)
        BY <2>6 DEF EndContext
    <2>7. CASE Finalize(c)
        <3>1. PICK result, answer : calls' = [calls EXCEPT ![c] = [NoCall EXCEPT !.pc = "done", !.result = result, !.answer = answer]]
            BY <2>7 DEF Finalize
        <3> QED BY <3>1 DEF NoCall, CallTypeOK
    <2> QED BY <2>2, <2>3, <2>4, <2>5, <2>6, <2>7
<1>2. \A d \in Runs : calls'[d].reading \in 0..now' /\ (calls'[d].pc = "charge" => Key(d)' \in DOMAIN buckets)
    <2>1. ASSUME NEW d \in Runs
          PROVE  calls'[d].reading \in {0, calls[d].reading} /\ (calls'[d].pc = "charge" => calls'[d] = calls[d])
        BY <1>1
    <2>2. \A d \in Runs : calls[d].reading \in 0..now /\ (calls[d].pc = "charge" => Key(d) \in DOMAIN buckets)
        BY DEF QuotaInv, ClockInv
    <2>3. ASSUME NEW d \in Runs PROVE calls'[d].reading \in 0..now'
        BY <1>0, <2>1, <2>2
    <2>4. ASSUME NEW d \in Runs, calls'[d].pc = "charge" PROVE Key(d)' \in DOMAIN buckets
        BY <2>1, <2>2, <2>4 DEF Key
    <2> QED BY <2>3, <2>4
<1> QED BY <1>0, <1>2, QuotaKept

LEMMA StartCallQuota ==
    ASSUME QuotaInv, CallTypeOK, NEW c \in Runs, NEW i \in Invocations, NEW g \in Grants, StartCall(c, i, g)
    PROVE  QuotaInv'
<1>0. UNCHANGED <<buckets, charges, now>> /\ now \in Nat /\ now <= now
    BY DEF StartCall, QuotaInv, ClockInv
<1>1. PICK refusal, pc : calls' = [calls EXCEPT ![c] = [NoCall EXCEPT
              !.invocation = i, !.grant = g, !.reading = now, !.result = refusal, !.pc = pc]]
    BY DEF StartCall
<1>2. /\ \A d \in Runs \ {c} : calls'[d] = calls[d]
      /\ calls'[c].reading = now /\ calls'[c].grant = g /\ calls'[c].invocation = i
    BY <1>1 DEF NoCall, CallTypeOK
<1>3. Key(c)' = <<g.client, i.tool>>
    BY <1>2 DEF Key
<1>4. <<g.client, i.tool>> \in DOMAIN buckets
    BY InvocationsAssumption DEF QuotaInv, ClockInv
<1>5. \A d \in Runs : calls'[d].reading \in 0..now' /\ (calls'[d].pc = "charge" => Key(d)' \in DOMAIN buckets)
    BY <1>0, <1>2, <1>3, <1>4 DEF QuotaInv, ClockInv, Key
<1> QED BY <1>0, <1>5, QuotaKept

LEMMA QuotaStep ==
    ASSUME QuotaInv, CallTypeOK, [Next]_vars
    PROVE  QuotaInv'
<1>1. CASE UNCHANGED <<now, calls, buckets, charges>>
    <2>1. now' \in Nat /\ now <= now'
        BY <1>1 DEF QuotaInv, ClockInv
    <2>2. \A c \in Runs : calls'[c].reading \in 0..now' /\ (calls'[c].pc = "charge" => Key(c)' \in DOMAIN buckets)
        BY <1>1 DEF QuotaInv, ClockInv, Key
    <2> QED BY <1>1, <2>1, <2>2, QuotaKept
<1>2. CASE Tick
    <2>1. now' \in Nat /\ now <= now' /\ UNCHANGED <<calls, buckets, charges>> /\ now \in Nat
        BY <1>2 DEF Tick, QuotaInv, ClockInv
    <2>2. \A c \in Runs : calls'[c].reading \in 0..now' /\ (calls'[c].pc = "charge" => Key(c)' \in DOMAIN buckets)
        BY <2>1 DEF QuotaInv, ClockInv, Key
    <2> QED BY <2>1, <2>2, QuotaKept
<1>3. CASE ToolNext
    <2>1. CASE AgentNext /\ UNCHANGED <<now, buckets, charges, calls, audit>>
        BY <1>1, <2>1
    <2>2. ASSUME NEW c \in Runs, NEW i \in Invocations, NEW g \in Grants, StartCall(c, i, g) PROVE QuotaInv'
        BY <2>2, StartCallQuota
    <2>3. ASSUME NEW c \in Runs, Allow(c) PROVE QuotaInv'
        BY <2>3, AllowQuota
    <2>4. ASSUME NEW c \in Runs,
                 \/ Operate(c) \/ StartAsk(c) \/ Receive(c) \/ StopWaiting(c) \/ EndContext(c) \/ Finalize(c)
          PROVE  QuotaInv'
        BY <2>4, CallQuota
    <2> QED BY <1>2, <1>3, <2>1, <2>2, <2>3, <2>4 DEF ToolNext
<1>4. [Next]_vars => ToolNext \/ UNCHANGED <<now, calls, buckets, charges>>
    BY DEF Next, vars, GraphStep, IndexStep, WikiStep, ToolStep, AssistantStep, answerVars, toolVars
<1> QED BY <1>1, <1>3, <1>4

(* A time of one window's length meets at most two windows of a key with   *)
(* calls that did not wait: those that began before it and those that      *)
(* began in it, for each is charged in its window.                         *)
LEMMA QuotaInvSuffices ==
    ASSUME QuotaInv
    PROVE  QuotaHolds
<1> USE DEF Own
<1>0. Window \in Nat \ {0} /\ QuotaLimit \in Nat \ {0} /\ now \in Nat /\ Costly(charges)
    BY ToolsAssumption DEF QuotaInv, ClockInv
<1>1. SUFFICES ASSUME NEW key \in DOMAIN buckets
      PROVE  LET own == {x \in charges : x.key = key}
                 units(S) == MapThenSumSet(LAMBDA x : x.cost, S)
             IN /\ \A x \in own : units({y \in own : y.start = x.start}) <= QuotaLimit
                /\ \A x, y \in own : x.start < y.start => y.start - x.start >= Window
                /\ \A t \in 0..now : units({x \in own : x.reading = x.at /\ x.at \in t..t + Window - 1}) <= 2 * QuotaLimit
    BY DEF QuotaHolds
<1>2. WindowsInv(key) /\ ClockInv
    BY DEF QuotaInv
<1>3. \A S \in SUBSET charges : Costly(S) /\ MapThenSumSet(LAMBDA x : x.cost, S) = Units(S) /\ Units(S) \in Nat
    <2> SUFFICES ASSUME NEW S \in SUBSET charges
                 PROVE  Costly(S) /\ MapThenSumSet(LAMBDA x : x.cost, S) = Units(S) /\ Units(S) \in Nat
        OBVIOUS
    <2>1. Costly(S) /\ Units(S) \in Nat
        BY <1>0, UnitsMonotonic
    <2> QED BY <2>1, UnitsIsSum
<1>4. ASSUME NEW x \in Own(key)
      PROVE  MapThenSumSet(LAMBDA z : z.cost, {y \in Own(key) : y.start = x.start}) <= QuotaLimit
    <2>1. PICK S \in SUBSET charges : S = {y \in Own(key) : y.start = x.start}
        OBVIOUS
    <2>2. S = InWindow(key, x.start)
        BY <2>1 DEF InWindow
    <2>3. Units(S) <= QuotaLimit
        BY <2>2, <1>2 DEF WindowsInv
    <2> QED BY <2>1, <2>3, <1>3
<1>5. \A x \in Own(key) : x.start \in Nat /\ x.at \in Nat
    BY <1>2 DEF ClockInv
<1>6. ASSUME NEW x \in Own(key), NEW y \in Own(key), x.start < y.start
      PROVE  y.start - x.start >= Window
    <2>1. x.start + Window <= y.start
        BY <1>2, <1>6 DEF WindowsInv
    <2> QED BY <2>1, <1>5, <1>0
<1>7. ASSUME NEW S \in SUBSET Own(key), \A x, y \in S : x.start - y.start < Window
      PROVE  Costly(S) /\ Units(S) \in Nat /\ Units(S) <= QuotaLimit
    <2>1. CASE S = {}
        BY <2>1, <1>0, UnitsOfNothing
    <2>2. CASE S # {}
        <3>1. PICK x \in S : TRUE
            BY <2>2
        <3>2. \A y \in S : y.start = x.start
            BY <1>5, <1>6, <1>7, <1>0
        <3>3. S \subseteq InWindow(key, x.start)
            BY <3>2 DEF InWindow
        <3>4. InWindow(key, x.start) \in SUBSET charges
            BY DEF InWindow
        <3>5. Costly(InWindow(key, x.start))
            BY <3>4, <1>3
        <3>6. Costly(S) /\ Units(S) \in Nat /\ Units(S) <= Units(InWindow(key, x.start)) /\ Units(InWindow(key, x.start)) \in Nat
            BY <3>3, <3>5, UnitsMonotonic
        <3>7. Units(InWindow(key, x.start)) <= QuotaLimit
            BY <3>1, <1>2 DEF WindowsInv
        <3> QED BY <3>6, <3>7, <1>0
    <2> QED BY <2>1, <2>2
<1>8. ASSUME NEW t \in 0..now
      PROVE  MapThenSumSet(LAMBDA z : z.cost, {x \in Own(key) : x.reading = x.at /\ x.at \in t..t + Window - 1}) <= 2 * QuotaLimit
    <2>1. PICK S \in SUBSET Own(key) : S = {x \in Own(key) : x.reading = x.at /\ x.at \in t..t + Window - 1}
        OBVIOUS
    <2>2. \A x \in S : x.start <= x.at /\ x.at < x.start + Window /\ t <= x.at /\ x.at < t + Window
        BY <2>1, <1>2, <1>5, <1>0 DEF ClockInv
    <2>3. PICK early \in SUBSET Own(key), late \in SUBSET Own(key) :
             early = {x \in S : x.start < t} /\ late = {x \in S : x.start >= t}
        OBVIOUS
    <2>4. \A x, y \in early : x.start - y.start < Window
        BY <2>2, <2>3, <1>5, <1>0
    <2>5. \A x, y \in late : x.start - y.start < Window
        BY <2>2, <2>3, <1>5, <1>0
    <2>6. /\ Costly(early) /\ Units(early) \in Nat /\ Units(early) <= QuotaLimit
          /\ Costly(late) /\ Units(late) \in Nat /\ Units(late) <= QuotaLimit
        BY <2>4, <2>5, <1>7
    <2>7. S = early \cup late
        BY <2>3, <1>5
    <2>8. Units(early \cup late) <= Units(early) + Units(late)
        BY <2>6, UnitsTogether
    <2>9. S \in SUBSET charges
        OBVIOUS
    <2>10. Units(S) \in Nat /\ Units(S) = MapThenSumSet(LAMBDA z : z.cost, S)
        BY <2>9, <1>3
    <2>11. Units(S) <= 2 * QuotaLimit
        BY <2>6, <2>7, <2>8, <2>10, <1>0
    <2> QED BY <2>1, <2>10, <2>11
<1> QED BY <1>4, <1>6, <1>8

(* QuotaHolds: no window of a client and tool admits more than the limit,  *)
(* windows begin at least their length apart whatever order the readings   *)
(* of the clock reach the mutex in, and no time of a window's length sees  *)
(* more than twice the limit of the calls that did not wait.               *)
THEOREM QuotasAreKept == Spec => []QuotaHolds
<1>1. Init => QuotaInv
    <2> SUFFICES ASSUME Init PROVE QuotaInv
        OBVIOUS
    <2>1. /\ now = 0 /\ charges = {} /\ calls = [c \in Runs |-> NoCall]
          /\ buckets = [k \in {g.client : g \in Grants} \X Tools |-> None]
        BY DEF Init, ToolInit
    <2>2. ClockInv
        BY <2>1, UnitsOfNothing DEF ClockInv, NoCall
    <2>3. \A key \in DOMAIN buckets : WindowsInv(key) /\ BucketInv(key)
        BY <2>1 DEF WindowsInv, BucketInv, Own
    <2> QED BY <2>2, <2>3 DEF QuotaInv
<1>2. QuotaInv /\ CallTypeOK /\ [Next]_vars => QuotaInv'
    BY QuotaStep
<1>3. QuotaInv => QuotaHolds
    BY QuotaInvSuffices
<1> QED BY <1>1, <1>2, <1>3, AgentInductive, PTL DEF Spec
=============================================================================
