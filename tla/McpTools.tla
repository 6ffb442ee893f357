------------------------------- MODULE McpTools -------------------------------
(***************************************************************************)
(* The tools a client of the process calls. Every call is authorised,      *)
(* charged to a fixed window of its client and tool, carried out by one of *)
(* the services and written to the audit once, whatever became of it.      *)
(* ask_repository starts a run of the agent and waits for its last event.  *)
(*                                                                         *)
(*   invocation  [tool, scoped, valid, question] for ask_repository,       *)
(*               [tool, scoped, valid, snapshot, symbol, slug] otherwise   *)
(*   grant       [client, complete, active, expires, repository, read]     *)
(***************************************************************************)
EXTENDS AgentRuns

CONSTANTS
    Invocations, Grants,
    QuotaLimit, Window,     \* FixedWindowLimiter
    MaxTime                 \* bound of the model on the clock

ASSUME ToolsAssumption ==
    /\ {QuotaLimit, Window} \subseteq Nat \ {0} /\ MaxTime \in Nat
    /\ None \notin [start : Nat, used : Nat]     \* a bucket

VARIABLES
    now,        \* time.Now
    buckets,    \* FixedWindowLimiter.buckets: <<client, tool>> -> [start, used], or None
    charges,    \* history: charges admitted, [call, key, cost, reading, at, start]
    calls,      \* call -> [pc, invocation, grant, reading, result, answer]
    audit       \* MCPAudit.records: call -> its records, in order

toolVars == <<now, buckets, charges, calls, audit, live>>

Tools == {"search_code", "get_symbol", "find_call_chain", "get_wiki_page", "ask_repository", "wiki_page"}
QuotaUnits(tool) == CASE tool = "ask_repository" -> 5 [] tool = "find_call_chain" -> 2 [] OTHER -> 1
ASSUME InvocationsAssumption ==
    \A i \in Invocations : i.tool \in Tools /\ (i.tool = "ask_repository" => i.question \in Questions)

NoCall == [pc |-> "idle", invocation |-> None, grant |-> None, reading |-> 0, result |-> "none", answer |-> None]
ToolInit ==
    /\ now = 0
    /\ buckets = [k \in {g.client : g \in Grants} \X Tools |-> None]
    /\ charges = {}
    /\ calls = [c \in Runs |-> NoCall]
    /\ audit = [c \in Runs |-> <<>>]

End(c, result) == [calls EXCEPT ![c].pc = "audit", ![c].result = result]
Key(c) == <<calls[c].grant.client, calls[c].invocation.tool>>

(* Authorize, in the order of its checks.                                  *)
Authorize(g) ==
    CASE ~g.complete -> "UNAUTHENTICATED"
      [] ~g.active \/ now >= g.expires -> "UNAUTHENTICATED"
      [] ~g.repository \/ ~g.read -> "PERMISSION_DENIED"
      [] OTHER -> "none"

(* guard up to the limiter's mutex: the limiter reads the clock before it  *)
(* waits. A context that has ended counts as a full quota.                 *)
StartCall(c, i, g) ==
    LET refusal == CASE ~i.scoped -> "INVALID_INPUT"
                     [] Authorize(g) # "none" -> Authorize(g)
                     [] ~live[c] -> "RATE_LIMITED"
                     [] OTHER -> "none"
    IN /\ calls[c].pc = "idle"
       /\ calls' = [calls EXCEPT ![c] = [NoCall EXCEPT
              !.invocation = i, !.grant = g, !.reading = now, !.result = refusal,
              !.pc = IF refusal = "none" THEN "charge" ELSE "audit"]]
       /\ UNCHANGED <<agentVars, live, now, buckets, charges, audit, announced>>

(* FixedWindowLimiter.Allow under its mutex.                               *)
Fresh(bucket, reading) ==
    IF bucket = None \/ reading - bucket.start >= Window THEN [start |-> reading, used |-> 0] ELSE bucket
FitsWhenNotFull(used, cost) == used < QuotaLimit

Fits(used, cost) == used + cost <= QuotaLimit

Allow(c) ==
    LET cost == QuotaUnits(calls[c].invocation.tool)
        bucket == Fresh(buckets[Key(c)], calls[c].reading)
    IN /\ calls[c].pc = "charge"
       /\ IF Fits(bucket.used, cost)
          THEN /\ buckets' = [buckets EXCEPT ![Key(c)] = [bucket EXCEPT !.used = @ + cost]]
               /\ charges' = charges \cup {[call |-> c, key |-> Key(c), cost |-> cost, reading |-> calls[c].reading,
                                            at |-> now, start |-> bucket.start]}
               /\ calls' = [calls EXCEPT ![c].pc = "operate"]
          ELSE calls' = End(c, "RATE_LIMITED") /\ UNCHANGED <<buckets, charges>>
       /\ UNCHANGED <<agentVars, live, now, audit, announced>>

(* What the services say of a valid call; a symbol that is in no node of   *)
(* the snapshot is a root the graph store refuses.                         *)
Answers(i) ==
    LET roots(depth) == [roots |-> {i.symbol}, depth |-> depth, direction |-> "BOTH", types |-> {},
                         kinds |-> IF depth = 0 THEN {} ELSE {"CALLS"}, limit |-> IF depth = 0 THEN 1 ELSE 100]
    IN CASE i.tool = "search_code" -> current[i.snapshot] # None
         [] i.tool = "get_symbol" -> MemoryQuery(GraphAt(i.snapshot), roots(0)).error = "none"
         [] i.tool = "find_call_chain" -> MemoryQuery(GraphAt(i.snapshot), roots(2)).error = "none"
         [] OTHER -> pinned[<<i.snapshot, i.slug>>] # None

(* A tool other than ask_repository; its input is checked after the quota  *)
(* is spent, and any service may fail or be cut off.                       *)
Operate(c) ==
    LET i == calls[c].invocation
    IN /\ calls[c].pc = "operate" /\ i.tool # "ask_repository"
       /\ \/ ~i.valid /\ calls' = End(c, "INVALID_INPUT")
          \/ i.valid /\ live[c] /\ Answers(i) /\ calls' = End(c, "OK")
          \/ i.valid /\ calls' = End(c, "UPSTREAM_FAILURE")
       /\ UNCHANGED <<agentVars, live, now, buckets, charges, audit, announced>>

StartAsk(c) ==
    LET q == calls[c].invocation.question
    IN /\ calls[c].pc = "operate" /\ calls[c].invocation.tool = "ask_repository"
       /\ IF AskAccepted(c, q)
          THEN Ask(c, q) /\ calls' = [calls EXCEPT ![c].pc = "receive"]
          ELSE calls' = End(c, "UPSTREAM_FAILURE") /\ UNCHANGED agentVars
       /\ UNCHANGED <<live, now, buckets, charges, audit, announced>>

(* The loop over the events ends at the first terminal one, at the end of  *)
(* the context, or at a channel that is closed without one; the deferred   *)
(* cancel ends the context of the run. Of two that are ready select takes  *)
(* either.                                                                 *)
TerminalEvents(c) == {i \in DOMAIN stream[c] : stream[c][i].type \in {"COMPLETED", "FAILED"}}
Receive(c) ==
    LET last == stream[c][Min(TerminalEvents(c))]
    IN /\ calls[c].pc = "receive" /\ TerminalEvents(c) # {}
       /\ calls' = IF last.type = "COMPLETED" THEN [End(c, "OK") EXCEPT ![c].answer = last.payload]
                   ELSE End(c, "UPSTREAM_FAILURE")
       /\ live' = [live EXCEPT ![c] = FALSE]
       /\ UNCHANGED <<agentVars, now, buckets, charges, audit, announced>>
StopWaiting(c) ==
    /\ calls[c].pc = "receive"
    /\ \/ ~live[c]
       \/ execution[c].pc = "done" /\ TerminalEvents(c) = {}
    /\ calls' = End(c, "UPSTREAM_FAILURE")
    /\ live' = [live EXCEPT ![c] = FALSE]
    /\ UNCHANGED <<agentVars, now, buckets, charges, audit, announced>>

(* The context of a call ends: its caller left, or it took too long.       *)
EndContext(c) ==
    /\ live[c] /\ calls[c].pc \in {"idle", "charge", "operate", "receive"}
    /\ live' = [live EXCEPT ![c] = FALSE]
    /\ UNCHANGED <<agentVars, calls, now, buckets, charges, audit, announced>>

(* finalize: one record, written under a context of its own.               *)
StatusOf(result) ==
    CASE result = "OK" -> "SUCCEEDED"
      [] result \in {"PERMISSION_DENIED", "UNAUTHENTICATED"} -> "DENIED"
      [] result = "RATE_LIMITED" -> "RATE_LIMITED"
      [] OTHER -> "FAILED"
AuditErrorIgnored(c) == calls[c].result

AuditFailed(c) == "AUDIT_FAILURE"

Finalize(c) ==
    LET record == [status |-> StatusOf(calls[c].result), error |-> calls[c].result]
        leave(result) == calls' = [calls EXCEPT ![c] =
                             [NoCall EXCEPT !.pc = "done", !.result = result, !.answer = calls[c].answer]]
    IN /\ calls[c].pc = "audit"
       /\ \/ audit' = [audit EXCEPT ![c] = Append(@, record)] /\ leave(calls[c].result)
          \/ leave(AuditFailed(c)) /\ UNCHANGED audit
       /\ UNCHANGED <<agentVars, live, now, buckets, charges, announced>>

Tick ==
    /\ now < MaxTime
    /\ now' = now + 1
    /\ UNCHANGED <<agentVars, live, calls, buckets, charges, audit, announced>>

ToolNext ==
    \/ Tick
    \/ AgentNext /\ UNCHANGED <<now, buckets, charges, calls, audit>>
    \/ \E c \in Runs :
          \/ \E i \in Invocations, g \in Grants : StartCall(c, i, g)
          \/ Allow(c) \/ Operate(c) \/ StartAsk(c) \/ Receive(c) \/ StopWaiting(c) \/ EndContext(c) \/ Finalize(c)
=============================================================================
