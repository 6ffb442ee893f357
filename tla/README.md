# RepoSense: a TLA+ verification project

RepoSense parses Git repositories into snapshots of code artifacts, builds a
code knowledge graph from each snapshot, and serves queries, retrieval, wiki
pages, agents and patch proposals on top. This directory holds TLA+ models of
its state machines, the TLC instances that check them, and TLAPS proofs.
Paths below are relative to the repository root, `src/`.

## 1. Inventory

Two durable pipelines carry the system; everything else reads their results.

    client -> repository parse pipeline -> parse.completed (outbox, NATS)
           -> graph admission/consumer -> graph build control plane
           -> graph.published (outbox, NATS) -> RAG, wiki, agents

| Component | State | Operations | Hard behaviour | What makes it correct |
|---|---|---|---|---|
| Graph build control plane (`internal/application/graph/{worker,reconciler,runtime}.go`, `internal/adapters/postgres/graph_{build,outbox}_store.go`) | jobs, attempts, revisions, active pointers, outbox rows in PostgreSQL; one candidate node per attempt in Neo4j | claim, heartbeat, candidate stages, seal, activate, fail, expire, delete orphans | several workers and reconcilers, leases judged by different clocks, unknown commits, crashes, pages read once and used later | one owner per job, one publication per job, readers only see complete graphs, budgets, every attempt ends |
| Graph outbox dispatcher (`internal/application/graph/outbox.go`) | `graph_outbox_events` | claim a batch, publish, mark published or failed | claims without a fence, deadlines, crashes between publication and mark | final rows stay final, nothing is marked that was not delivered, every event settles |
| Graph admission and consumer (`admission.go`, `consumer.go`, `nats/graph_subscriber.go`) | jobs, idempotency keys, quotas | submit, consume `parse.completed`, reject | redelivery, unknown commits, quota races | one job per key and per event |
| Graph candidate data plane (`internal/adapters/neo4j`, `worker_builder.go`) | nodes and relations of a candidate, batch stages | create, write pages, complete stages, seal, delete | retried batches | a sealed graph has exactly the artifacts of its source |
| Repository parse pipeline (`internal/application/repository/{lifecycle,tasks,runtime}.go`, `internal/adapters/postgres/repository_store.go`) | parse jobs, snapshots, idempotency rows, outbox rows | submit, retry, cancel, claim, heartbeat, complete, fail, retention | leases by owner name, baseline read early, cancellation races | one running job per key, snapshots in a chain, every job decided |
| Repository outbox (`internal/application/repository/outbox.go`) | `outbox_events` | read, publish, mark | no claim: every dispatcher reads the same rows | delivered at least once, final rows stay final |
| Graph queries (`neo4j/query.go`, `query_service.go`, `memory/graph_repository.go`) | the sealed revision behind the active pointer; the in-memory graph | traverse with limits, filters and budgets | two traversals that cut in different places | both mean the same, and say when they cut |
| Legacy graph service (`internal/application/graph/service.go`) | one graph per snapshot, keys | build | several callers, a failed announcement | a graph is never replaced |
| RAG index and retrieval (`internal/application/rag`) | revisions, the current one per snapshot | index, search | a search between two index builds, two builds at once | best hits of one revision; what is announced can be read |
| Wiki (`internal/application/wiki`) | page revisions, latest numbers, pages pinned by snapshots, jobs by key | generate | two generations of the same pages | gapless revisions, one graph per wiki, pinned pages stay |
| Agent runs (`internal/application/agent`) | runs, conversations, a stream per run | ask | a context that ends anywhere, failing save or announcement | the stream tells what is stored; one commit is cited |
| MCP tools and limiter (`internal/application/mcp`) | windows per client and tool, audit | six tools | readings of the clock in another order, refusals at many places | quota, one true audit record per call |
| Assistant proposals (`internal/application/assistant`, `gitcli/patch_applier.go`) | proposals, keys, sessions; the checkout | propose, approve, reject, apply | calls that stop between patch and record, developers in the same tree | record and checkout agree |
| Visualization | cached layouts of query results | lay out | - | - |
| Git, workspace, parsers, LLM, NATS, HTTP, configuration, processes | none of their own | I/O | - | - |

`PROJECT.json` lists each with its sources and status, and the hazards of the
code at their lines.

## 2. Plan

Done, in this order:

1. `GraphControl`, its abstract specification `GraphPublication`.
2. `GraphOutbox`; `RepositoryTasks`; `RepositoryOutbox` and `GraphAdmission`,
   composed by `GraphConsumer`.
3. `CodeGraph` and `GraphCandidate`: one build of a candidate from a parser
   result, and the queries both stores answer from it.
4. The services of one process, each on top of the ones it reads:
   `LegacyGraph`, `RagRetrieval` and `RagIndex`, `WikiPublication`, `AgentRuns`,
   `McpTools`, `Proposals`, composed by `KnowledgeProcess`.
5. Proofs (section 5): that `GraphControl` implements `GraphPublication`, and a
   theorem for every safety property the passing runs check.

Left, most useful first:

6. The orphan sweep with the order of its pages and deletions that keep failing.
7. The synchronous parse of the command line (`Service.Sync`) on the in-memory
   store; diagnostics and the slots of `QueryService`; the view cache.

## 3. Modules

| Module | What it is |
|---|---|
| `GraphControl` | the control plane of graph builds |
| `GraphPublication` | what it promises: outcome, pointer and event of a revision change in one step, and only to a complete graph |
| `GraphControl_proofs` | invariant proofs, and the proof that `GraphControl` implements `GraphPublication` |
| `GraphOutbox` | delivery of `graph.published` |
| `GraphOutbox_proofs` | invariant proofs for it |
| `RepositoryTasks` | the parse tasks of a repository, from submission to retention |
| `RepositoryTasks_proofs` | invariant proofs for it |
| `RepositoryOutbox` | delivery of `parse.completed` and `parse.failed` |
| `GraphAdmission` | jobs, idempotency keys and quotas of graph builds |
| `GraphConsumer` | both composed: from the outbox of the repository pipeline to a graph build job |
| `GraphConsumer_proofs` | invariant proofs for the three |
| `Faults` | the budget of crashes and unanswered calls the last three share |
| `CodeGraph` | the graph of a revision, and a query of it as Neo4j and the in-memory store compute it |
| `GraphCandidate` | the data plane of one build: from a parser result to a sealed, active revision and its queries |
| `CodeGraph_proofs` | what several proofs need: sums over sets and sequences, sorted sets, filtered and joined sequences; and what a traversal finds |
| `GraphCandidate_proofs` | invariant proofs for one build, and for the queries of what it made active |
| `LegacyGraph` | the graph service that keeps its revisions in memory |
| `RagRetrieval` | one retrieval over the documents of an index revision |
| `RagIndex` | index builds and searches |
| `WikiPublication` | generations of wiki pages and their store |
| `AgentRuns` | runs of the question agent |
| `McpTools` | the tools: authorisation, quota, operation, audit |
| `Proposals` | change proposals, their review and the checkout |
| `KnowledgeProcess` | the services of one process together, and what they promise |
| `AgentRuns_proofs` | invariant proofs for it: the assistant, the agent, the tools and their limiter |
| `Publications_proofs` | the same for the graph, the index, the wiki, their events, citations and searches; extends the one before |
| `MC*` | model values, scopes, symmetry and the order of calls for TLC |

### GraphControl

`jobStatus`, `jobRevision`, `cancelRequested` are columns of
`graph_build_jobs`; `attStatus`, `attJob`, `fence`, `ttl` of
`graph_build_attempts`; `revStatus`, `active`, `outbox` the revision, pointer
and event tables; `candidate` the status of the node in Neo4j. `pc`/`own` say
where each worker stands in `Worker.RunOnce`, `recPc`/`todo` where each
reconciler stands in `Reconciler.RunOnce`. `RunOnce` draws attempt and revision
identity together, so one identity stands for both.

One SQL transaction is one step: the transactions are SERIALIZABLE or single
statements. (The claim takes an advisory lock after its snapshot, but a claim
that would act on a stale snapshot fails on the rows it locks or at commit.)
Each page of a reconciler and each stage of a worker is a step of its own, so
everything else can happen between them.

Time is relative: `ttl[a]` is the lease left on the clock of the database, and
a replica's `time.Now()` is any offset in `-MaxLag..MaxSkew`. The claim, the
activation, the failure and the reconciler use such a reading
(`graph_build_store.go:215,313,352`), the heartbeat tests the row against
`CURRENT_TIMESTAMP` (`:296-299`) and writes an expiry from a reading. A claim
whose answer is lost is `Claim` then `Abandon`; an activation whose answer is
lost is `Activate` that keeps the worker in its retry loop.

`RequestCancel` is external: `src/` reads `cancel_requested` of graph jobs and
never sets it.

Left out: attempt numbers, error texts, metrics, retention periods (an orphan
may be listed as soon as the other conditions hold), the ordering of candidate
rows within a page, and the verification of active revisions that ends a
reconciler's pass, which changes nothing of this state.

### GraphOutbox

`published`, `dead`, `count`, `wait` are columns of `graph_outbox_events`;
`phase`, `timer`, `batch` say where each dispatcher stands in `DispatchOnce`.
Every call has the deadline of its context, and `Tick` cannot pass the deadline
of a call in progress. `Age(d)` is how long ago the clock of the current store
call was read. Replicas share one clock here; skew is the subject of
`GraphControl`. `delivered` is what NATS has accepted. `claimDuration` is drawn
from `ClaimDurations` at the start and never changes, so one run compares
settings; `Covering` says which of them also cover the claim call.

### RepositoryTasks

`status`, `retryable`, `owner`, `cancelRequested` are columns of `parse_jobs`;
`commit`, `parent`, `created` of `repository_snapshots`; `row` is
`parser_idempotency` by key and `events` the rows of `outbox_events`. A job and
its snapshot are drawn, inserted, decided and deleted in the same transactions,
so one identity stands for both. `pc`/`sub` are a client in `Service.Submit`
(`Retry` is `Submit` of the stored command, or refused), `wpc`/`task`/`base` a worker in
`Worker.RunOnce`. Transactions and single statements are steps; everything
between two of them interleaves. The heartbeat runs beside the parse, so
`Heartbeat` and `StopExecution` are possible wherever the worker stands.

`submissionsFail` says whether Git and the baseline lookup may fail in `Submit`;
it is drawn from `FailChoices` at the start and never changes, so one run covers
both cases. `OneTaskUnlessRejected` claims `OneTaskPerKey` where they do not
fail, which is needed (`tasks_duplicate`). `OutcomeIsTold` and
`DecidedStaysDecided` speak about both: the late record of a rejection
(`LateRejection`), the second transaction of `failSubmission`, is the one step
that overwrites a decision, and `DecidedStaysDecided` names it as its exemption;
a success it withdraws has been announced as completed and is announced as
failed too.

Leases are written and judged by `NOW()` of the database alone, so a lease is
either expired or not; it expires under a worker that heartbeats only by a
fault (`MaxFaults`). `created` is the submitter's reading of its clock, taken
before the insertion: jobs may be inserted against that order. The commands
keep what distinguishes their fates: path, URL and provider, as sent and as
stored.

Left out: include paths, credentials, progress, the parse itself (it ends in
success or failure), the binding of a repository to its identity, the cache of
published events, and the retention period (any decided failure may be old
enough). A call of `Submit` that would only read is not represented.

### RepositoryOutbox, GraphAdmission, GraphConsumer

`RepositoryOutbox`: `published`, `dead`, `count`, `due` are columns of
`outbox_events` (`due`: `next_attempt_at` has come), `rows` those retention has
left; `batch` and `mark` say where each dispatcher stands in `DispatchOnce`,
with the delivery count it read. Nothing is claimed. `stream` is what the
durable consumer has not acknowledged, a set: JetStream drops a message whose ID
it knows, and where it does not (its window has passed) the duplicate stands
for the message being there again. Messages of `Events \ Rows` come from other
producers and are in the stream from the start. A row written later is one that
becomes due later. A dead letter may be revived by a failure mark that counts
from an older reading (`repository_store.go:529` sets `dead_lettered_at` to
NULL), so `FinalRowsAreEarned` says that a row is given up only after
`MaxAttempts` failures, not that dead letters stay.

`GraphAdmission`: `job` and `jobKey` are rows of `graph_build_jobs` by
fingerprint, `boundTo` is `graph_idempotency`. The transaction of
`enqueueGraphBuild` is one step (advisory locks, SERIALIZABLE). Its commit may
fail with the rows stored or not; then the job is looked up by its fingerprint,
which may find the job of another request: such a caller is told "accepted"
although its key is not bound. A caller draws the release it runs (`Versions`)
with each call, so callers stand for processes of any release during an upgrade.

`GraphConsumer`: `message` and `verdict` say where each consumer stands in
`Handle` and `Consume`; `rejected` is `graph_rejected_events`. A message stays
in the stream until an acknowledgement, so any consumer may get it again at any
time (the acknowledgement wait may run out) and two may handle it at once.
An event that comes back to a consumer of another release conflicts with its
own binding and is recorded as rejected although its job exists.
`NamesParserResult` is the one check of the payload that depends on the
producer: `NewParseCompletedEvent` never writes `parser_result_version`. Keys of
clients are taken to differ from `parse-event:` keys.

Left out: the contents of events and headers, the metadata lookup of `Submit`
(a submission that fails there changes nothing), `ParseEventHandler`
(`downstream.go`), which no process uses, a limit of deliveries of the durable
consumer (configured outside `src/`), quotas that differ between processes.

### CodeGraph, GraphCandidate

`CodeGraph` has no state. A graph is its artifacts, numbered in the order of
their identities, and its resolved relations; a query is its roots, depth,
direction, filters and limit. `Neo4jQuery` goes level by level with a bounded
query each, refuses what exceeds a budget and asks for one row more than the
limit to know whether it cut; `MemoryQuery` walks whole levels and cuts at the
end, in the order of a digest. `Meant` says by paths, without levels, what both
have to find. `Ordered` is `sort.Slice`: the members of a set, each at the place
that the number of those before it gives; `Kept` is the records of a page that
pass a test, in their order.

`GraphCandidate` is one attempt. `source` is the parser result behind
`PagedGraphSource` (a port no file of the repository implements, hence
external), `candidate` the node of the revision with its rows, `worker` the
local variables of `Worker.execute`: where it stands, the cursor into the
result, the page in hand, what it has left out so far, bytes and counts.
`CheckStage` and the write of a batch are two steps, for the statements of a
Neo4j transaction do not lock what the first one read; each call may be
answered, or fail before or after it took effect, and is repeated up to
`BatchAttempts` times. The result may be replaced once under the reader, the
lease lost, the candidate deleted by the reconciler at any moment. A record is
its identity, its references and three facts: identity fields in order, content
valid, size. What the control plane does in the meantime is `GraphControl`.

### The services of one process

`LegacyGraph`, `RagIndex`, `WikiPublication`, `AgentRuns`, `McpTools` and
`Proposals` extend each other in the order in which the services read one
another, and share `announced`, the events the bus took. Each call of a store is
a critical section of a mutex and one step; what a service reads before it and
uses after it lies in the local variables of the call (`builder`, `indexer`,
`searcher`, `generator`, `execution`, `calls`, `proposer`, `review`), so calls
interleave between any two store calls. A store, a port or the bus may refuse
wherever the code handles an error. An event that was refused is not repeated;
a service announces again when the same request comes back, except the legacy
graph service, whose lookup returns before the publication
(`graph/service.go`), so that the event of a graph may be lost for good.

`RagRetrieval`: scores are integers in units of 1/60 in place of floating point,
a word of a text is one character of the context, BM25 keeps only what ranking
by rarity needs, and the similarity of two texts is a parameter. The reranker of
the repository returns the hits it was given (`Reranked`); the one a search may
be configured with is the parameter `Rerank`, which may also fail.
`RevisionAt`/`GraphAt` are what other services see of the graph,
`current`/`Stored` of the index.

`AgentRuns`: `live` is the context of the run, that of its caller, which may end
at any step; a run is one goroutine and its channel is `stream`, all events sent
to it (the channel is as large as the most that can be sent, which
`StreamsTellOutcome` checks). `ChooseContext` and `RecordFailure` are the two
halves of `fail`: it looks whether the context has ended, then writes with the
context it chose.

`McpTools`: `now` is the clock; a call reads it (`reading`) before it waits for
the limiter's mutex (`Allow`), so readings arrive out of order. `charges` is a
history of what was admitted. `ask_repository` starts a run of `AgentRuns` and
reads its stream; the other tools read the graph, the index and the wiki.

`Proposals`: `tree` is, for each file, which proposals and whether a developer
changed it; `head` is the commit checked out. Applying takes the mutex of the
patch applier, checks the base, then runs git, which changes all files or none,
unless its context kills it (a part of the files may then be changed, and the
record says FAILED only if its context still lives, which it does not). No
process of the repository runs this service yet.

Left out of all of them: texts, prompts, token counts, latency, warnings,
tenants (a snapshot has one), and `Agent.Resume`, which replays the end of a
stored run and changes nothing.

## 4. Runs

| Run | Instance | Shows |
|---|---|---|
| `control_builds` | 2 build versions of a snapshot, 2 attempts, 2 workers, 1 reconciler, lag 1, no skew | takeovers, lost answers, stale pages, cancellation and supersession in both orders; one build per repository; the refinement |
| `control_live` | 2 repositories of a tenant with budget 1, 2 attempts, 1 worker, 1 reconciler, no symmetry | the tenant budget, which is below the global one; liveness with crashes at any point: every attempt ends, and a job is decided unless it is cancelled, or no identity is left and it lost all its attempts |
| `outbox_claims` | 2 dispatchers, 2 events, batches of 2, the shortest claim that `Validate` accepts and the shortest that covers the claim call too | final rows are earned and stay although claims overlap; exclusive claims and exact give-up when they do not; every event settles |
| `tasks_keys` | 1 key, 3 jobs, 2 clients, 2 workers, 1 fault; 4 submissions that do not fail, or 2 that may | where no submission fails, one open task per key, each failure retried once; in both cases key and events agree with the outcome, and only the late record of its rejection overwrites a decision |
| `tasks_live` | 2 keys, 2 commits, 2 jobs, 1 worker, 1 fault, submissions may fail | a success was computed against the baseline it declares; tasks are decided, but for four kinds that get stuck |
| `events` | 1 row and 1 foreign event, 2 consumers, 1 client, 2 releases, room for 1 build per tenant, 1 fault | quotas hold, one build per key, acceptance is true, no event is lost |
| `events_live` | 2 dispatchers, 1 consumer, 1 client, 1 release, 1 fault | marks tell the truth; rows and messages settle |
| `data_plane` | 11 parser results of up to 5 artifacts and 4 relations, pages and batches of 2, 2 failing calls, 324 queries | a sealed candidate is exactly one acceptable result; the two stores agree on every query; an acceptable result is built |
| `publications` | the services of a process, one group of them at a time (below) | eleven properties of searches, announcements, pages, runs, answers, audit, quota and proposals |
| `tasks_duplicate` | submissions fail | **violation**: a key forgets its open retry |
| `tasks_remote` | a remote repository | **violation**: its task is never decided |
| `events_schema` | as `events_live` | **violation**: the pipeline's own `parse.completed` is rejected |

Type invariants (`TypeOK`) are stated where proofs rest on them, and proved;
no run spends a check on them, but for the conjuncts the runs' properties need.

Bounds. Two attempts let a job be taken over from a stale worker; two workers
are a stale and a current owner; a lease of one tick with readings up to one
tick late covers live, just expired and expired for everybody. A takeover of a
takeover (three attempts) and clocks that run ahead (`MaxSkew` above 0) are
covered by the theorems of section 5, which bound neither. `Attempts` is the
only bound on how often a job is claimed; `MaxFaults` bounds crashes and
unanswered calls of dispatchers. Three parse jobs are an attempt, its retry and
a rival of either; where none fails, four submissions (`MaxReadings`) let two
calls retry what two others submitted; where they may fail, two are a
rejection and its retry, which is what it takes for a late record to overtake a
worker, a cancellation or a retry (`tasks_duplicate` has three); one fault is
what it takes to have two workers on one job. In the events runs a fault loses
one commit, mark, acknowledgement or process; two consumers and two releases are
what it takes to handle one message twice with different versions; two rows
would only run side by side, for the dispatchers share nothing between rows.

The parser results of `data_plane` are one without faults, one the quality
policy tolerates, one that needs several batches by size, and one for each way
to be refused (bytes, dangling target, count, quality, commit, capacity,
order); with `other` of the same identities but other content, a replacement
differs in what a page says and not in its size. Pages and batches of two make
every result take several of each. Queries have up to two roots, three steps,
three directions, filters of both kinds and limits of 0 (the default), 1 and 2;
frontiers of 2 and 6 database queries let every budget bind.

`publications` has one more variable, `focus`: a service only reads the results
of the others, so a behaviour moves one group and finds the results of the others
in place or missing: *graph* (three builds, three parse results), *index* (two
builds, the first of the snapshot that may have a graph, and a search), *wiki* (two generations), *tools* (a call of any tool
beside a run that may share its conversation), *quota* (three calls of one tool
that the service refuses, on a clock of five readings and a window of two) and
*assistant* (two proposals, two reviews, a developer). `MCInit` gives what the
other groups left; calls of one kind are alike, so they begin in the order of
their names; in *tools* the second caller asks only where the first asked; in
*assistant* proposals are made before a review or a developer begins, since
making one reads nothing they write. None of these narrows what a call meets
from the calls it races with. That two calls of one kind at a time are enough is
what the stores' structure says: a call that loses a race loses it to the one
that stored last.

Fairness. `Worker.Run`, `Reconciler.Run` and the dispatcher's `Run` call their
step again and again with bounded contexts: weak fairness of `WorkerStep`,
`ReconcilerStep`, `Dispatch` and of time. A worker may crash at every point
nevertheless, since `Abandon` competes with `WorkerStep`. `ListExpired` and
`MarkLost` get strong fairness: the database does not fail for ever and a pass
works from the front of its page, so passes that are cut short again and again
still get through. `outbox_claims` lets publication fail every time; it settles
because attempts are bounded. In `RepositoryTasks` a worker polls for ever and a
parse has a timeout: weak fairness of `ClaimTask` and `Execution`, and of the
expiry of a lease nobody renews. Clients owe nothing. In `events_live`
dispatchers tick and consumers fetch for ever, their calls have deadlines
(weak fairness of `Dispatch` and of `Consume` with `EnqueueStep`), a row's next
attempt comes, and builds end, so that the quota has room again. In `data_plane`
the worker's goroutine keeps running (weak fairness of `Build`); nothing is owed
by the source, the lease or the reconciler. `publications` states no liveness:
the calls of its services end with their callers' contexts, and
`StreamsTellOutcome` says what a stream must hold once a run has ended.

`TasksSettle` names what remains: a task stays RUNNING when it was cancelled
under a worker that did not record it, when its submission failed and that was
not recorded, when another snapshot succeeded since its submission, and when its
commit has a snapshot by now. In the last three the worker parses it, fails to
publish, records nothing (`runtime.go:204-206`) and claims it again.

### Disagreements between code and text

* `tasks_duplicate`: `domain/repository/model.go:54` says an idempotency key
  keeps a request from running twice. `failSubmission` inserts a PENDING task
  and fails it in a second transaction, which names no owner and rebinds the
  key: workers and clients may have executed and retried the task in between,
  and the key forgets the open retry. (So a worker *can* execute it, contrary to
  the comment at `lifecycle.go:242-243`; and a rejected success stops being the
  baseline, which is why `DiffedAgainstBaseline` exempts a base whose success
  was withdrawn.) The same record, because `FailResult` is called with an empty
  owner (`lifecycle.go:279`) and `finalizeWithRetry` checks no status
  (`repository_store.go:241`), turns a SUCCEEDED or CANCELLED job into a FAILED
  one, although `api/openapi/reposense.yaml:179` calls the snapshot immutable.
  That step has no run of its own: it is the exemption `DecidedStaysDecided`
  names, and the case of a job with both events in `OutcomeIsTold`.
* `tasks_remote`: `api/openapi/reposense.yaml:683-689` admits remote
  repositories; `execute` clears their URL but keeps their provider, and the
  command no longer validates (`lifecycle.go:200`).
* `events_schema`: `api/events/parse.completed.v1.schema.json:17-24` has no
  `parser_result_version`, nor has the event `NewParseCompletedEvent` builds;
  the consumer requires it (`consumer.go:186`). Each parse ends in a row of
  `graph_rejected_events`; graph builds start from API requests only, or from
  producers that name the parser result.

Seen while modelling, without a run of their own:

* `api/openapi/reposense.yaml:223` creates a new attempt for a retryable
  failure. `Retry` (`tasks.go:57`) submits the stored command, whose path and
  provider Prepare has rewritten; unless the client wrote the canonical path and
  the provider itself the fingerprint differs and the answer is a conflict.
* `internal/application/graph/runtime.go:14-16` says replicas cannot bypass the
  budgets; the claim counts leases by the clock of the replica
  (`graph_build_store.go:244`), so one that is ahead of the database does not
  count a lease that is still live: with `MaxSkew = 1` TLC violates
  `RepositoryExclusive` and `WithinBudgets`, hence their runs have `MaxSkew = 0`.
* `internal/application/graph/outbox.go:33-34` says the claim must cover the
  batch; the check leaves out the claim call, which runs on the claim's time.
  `ExclusiveClaim` is therefore stated for `Covering` claims.
* `api/openapi/reposense.yaml:214` cancels running tasks; the claim skips them
  once their worker is gone (`repository_store.go:167`), so a cancelled task of a
  crashed worker stays RUNNING: the first of the four kinds of `TasksSettle`.
* `mcp/service.go` answers an unknown symbol with "symbol was not found" when the
  query returns no node; the stores refuse a root they do not have, so the
  caller of `get_symbol` is told of a failure upstream instead.
* A call whose context has ended is refused as RATE_LIMITED: `guard` takes every
  error of the limiter for a full quota.
* When the announcement of a stored answer fails, `fail` cannot write FAILED over
  COMPLETED; the caller is told FAILED and the stored run says COMPLETED.
* A proposal whose context ends after the patch stays APPLYING, and no operation
  leads out of it: a second `Apply` refuses everything but a waiting or an
  applied one. `TreeTellsOutcome` leaves that state open.

## 5. Proofs

All theorems hold for every value of the constants that the named assumptions
admit: any number of jobs, attempts, workers, clients, calls, keys and events,
and no set of them need be finite. Every proof has the same shape. `Init` gives
an inductive invariant, each action keeps each of its parts, the property
follows, and PTL combines the three. The invariants below are what has to be
known in addition to the properties. Every invariant and every action property
of a passing run is stated by a theorem.

### GraphControl_proofs

From `IdentityAssumption`, `ScopeAssumption`, `TimeAssumption` and
`LimitAssumption` (the identities are distinct from `None`, scopes are
functions, limits are positive), for all clock errors: `TypeCorrect`,
`ReadersSeeSealedGraphs`, `JobsPublishOnce`, `FencingHolds`,
`OrphansStayOrphans`, `PointersAgree`, `TransitionsFollowTheDomain`,
`LatestAttemptDecides`, and `Refinement` (of `GraphPublication`).
`TransitionsFollowTheDomain` (the SQL statements stay within the transition
tables of `domain/graph/build.go`) is proved only.

`OneBuildPerRepository` and `BudgetsHold` need `MaxSkew = 0` as well: a claim
counts the leases that are live on the clock of its replica, and one whose clock
is ahead counts too few (see the clocks above). The budget is a statement about
cardinalities: the attempts inserted so far are finitely many, because a step
inserts one at most, and a claim adds one live lease after it has counted fewer
than the budget.

* *Holding*: a worker that is not idle owns an attempt that was inserted.
* *Booked*: an inserted attempt names a job, and a job names only inserted
  attempts of its own as its published revision.
* *SealedInTime*: a worker that has sealed or is activating, and whose attempt
  is RUNNING, has a SEALED candidate. A stale deletion can only hit attempts
  that will never publish.

### GraphOutbox_proofs

From `ConfigAssumption` (what `GraphOutboxConfig.Validate` accepts):
`TypeCorrect`, `MarksAreEarned`, `ClaimsExclude`, `FinalRowsStay`. The backoff
does not matter: of time only two bounds are used, that a call ends by its
deadline and that `next_attempt_at` of a claimed row lies ahead.

* *BatchInHand*, *CountsOnlyGrow*: a batch has each event once and at most
  `BatchSize` of them; the count it read can only be too small.
* *ClaimLasts*, under a covering claim: every row of a batch falls due later
  than the batch can take, measured as the timer of the call in progress and
  two deadlines for each record that follows. So no other dispatcher claims
  the row, and its count is still the one that was read.

### RepositoryTasks_proofs

From `ConstantsAssumption` alone, whether submissions fail or not and even when
all workers share one owner name: `TypeCorrect`, `ChangesAreAgainstTheBaseline`,
`ClientsAreTold`, `DecisionsStand` and `NothingRunsTwice`. The property of the
last has a condition, that no submission fails; the run `tasks_duplicate` shows
a rejected submission breaking `OneTaskPerKey` without it.

* *Leased*: only a RUNNING job has an owner, so whoever finds its name on a row
  may decide it.
* *Dated*: every submission has a reading of the clock of its own.
* *Baselines*, *NoOlderBase*: a baseline was a success and, once withdrawn, is
  never one again; a parse starts from a base that is no older than the
  baseline of its submission, if that still counts. A worker that lost its
  job is exempt, and cannot complete it.
* *RetryableFailed*, *Named*, *RowsAgree*, *EventsAgree* (`ToldInv`): only a
  failed job is retryable, a key names a job that exists and agrees with it, and
  the events agree with the outcome. They survive the late record of a
  rejection, because that record rewrites job, key and event together.
* *NoRejection*, *Origins* with `OneTaskPerKey` (`KeyInv`), where no submission
  fails: no client is about to record a rejection, and a key never again names
  a job that was retried.

### GraphConsumer_proofs

From `OutboxAssumption`, `AdmissionAssumption`, `ConsumerAssumption` and
`FaultAssumption` (clients and consumers are different processes, and clients do
not use the keys of events): `TypeCorrect`, `KeysStartOneBuild`, `QuotasHold`,
`AcceptedFindTheirJob`, `NothingGetsLost` and `MarksAreTrue` (a row is published
only once sent and given up only after `MaxAttempts` failures).

* *Keyed*: a job's key is bound to it, and a key is bound to a job that exists.
  Jobs and bindings are never removed, which keeps acceptances true.
* *Called*, *Busy*: answers belong to calls, verdicts to messages.
* *Bound*: a consumer asks for what its message says, so the key of an event is
  bound to a build of its snapshot, even if another consumer bound it. This is
  why a message rejected for a conflict is not lost: its binding has a job.
* *Decided*: what is about to be acknowledged is settled, what is about to be
  rejected is a completed parse.
* *Quotas*: finitely many jobs are pending, since a step adds at most one, and
  one that adds has found room below both limits.
* *Sent*, *Counted*: a success to be marked was sent; counts that dispatchers
  have read are not ahead of the rows.

### CodeGraph_proofs, GraphCandidate_proofs

`BuildInvariant` (`DataInv`, types included), `SealedGraphsAreExact`,
`ActiveGraphsAnswer`, for every parser result, page and batch size, budget and
query, from `CandidateAssumption` and `GraphBudgets` (limits that the
configuration validates: positive, and at least four database queries),
`ResultsAssumption` (what the types of the parser's API say: sequences of
records with sizes; the contents may be anything, unordered and invalid records
included), `QueriesAssumption` (depth and limit are not negative,
`GraphQuery.Validate`) and `DigestAssumption` (identities that differ have
digests that differ).

* *OneResult*: the result whose checksum was compared is the one that was there
  when the build began, so pages read before and after a replacement are of one
  result or the build fails.
* *InArtifacts*, *InRelations*: at every point of the build a prefix of that
  result has been read. It is in order and within the budgets; what of it is
  invalid was left out and counted; and what is stored lies between what was
  answered and that plus the page in hand, because a batch that was not
  answered may have been written.
* *AtEnd*, *SealedIsEverything*: after the last page the prefix is the result.
  What was sealed is that, with the counts and the quality the worker announces,
  and is not written to again.
* *Verified*: only a worker that has lost its lease can find its candidate
  deleted; so an active revision is a sealed one.

`QueriesAgree` then follows from two facts about `CodeGraph` alone. A level of
a walk is what is within so many steps by paths, and no level, no query of a
page and no limit cuts a node that is nearer than one it keeps (`Neo4jLevels`
stops at the first row too many; what it has not read is farther than all it
has). The prover cannot take induction from its library as a theorem about an
operator, so each induction is by a least counterexample: a set of numbers, or
of subsets of a finite set, which is not empty has a least member
(`LeastNumber`, `LeastSubset`). In the same way recursive functions are shown to
exist, as limits of functions on initial segments (`WalkExists`). Sums are
cardinalities: the `Total` of a function is the number of its tokens, pairs of
an argument and a number below its value; so sums add up, and the folds of the
community modules are shown to compute them.

### The services of one process

Two modules prove about `KnowledgeProcess`, all of whose services take steps,
from the named assumptions of their modules: `None` is no record that a store
can hold; commands, questions and invocations name snapshots, keys, questions
and tools that exist; limits are positive; a question has answers prepared for
every round of retrieval; the commits of parse results and documents are among
`Commits`; a selection is `None` or a sequence of numbers, whatever numbers the
model answered; parse results and inputs are sequences of records, and digests
differ where what they digest does (`ParsedAssumption`, `InputsAssumption`); a
document has a text, since it begins with a name that `buildDocuments` requires;
and the vectorizer gives a number for a request and a document
(`RequestsAssumption`).

`AgentRuns_proofs`, the assistant: `RecordsTellTheTree`.

* *Claimed*: from the claim of a proposal to the record of its outcome one call
  works on it. The store refuses the claim of a version that has moved.
* *Patching*: what is in the checkout, by the stage of that call. Git that is
  killed leaves a part of the files, and a call whose context has ended, which
  can therefore not record FAILED.

`AgentRuns_proofs`, the agent and the tools: `CallersLearnTheOutcome`,
`AuditTellsTheCall`, `OutcomesStay`, `QuotasAreKept`.

* *Sending*, *Ending*: how many events a run has sent at most by the stage it is
  in and its round, none of them terminal before the end.
* *Storing*, *Announcing*: what is stored of a run at each stage, and that its
  event is on the bus only when its stream ends with COMPLETED.
* *Unasked*, *Charging*, *Auditing*, *Answering*: the same for a call of a tool;
  one that has not reached its operation has started no run.
* *ClockInv*, *WindowsInv*, *BucketInv*: the windows of a client and a tool begin
  a length apart or more, and the units charged in each are within the limit;
  those of the window the bucket is in are no more than it has counted, and the
  limiter admits no call that would carry the count over the limit. A call that
  waited for the mutex may have read the clock before the window it is charged
  to began; one that did not wait lies in its window. A time of one window's
  length meets two windows at most, hence twice the limit for calls that did not
  wait. Costs differ by tool, so the sums are totals as above.

`Publications_proofs`: `RacingGenerationsNumberPages`, `PublishedWikisAreWhole`,
`WhatReadersSeeStays`, `EventsNameWhatIsStored`, `AnswersAreOfOneCommit`,
`SearchesAnswerTheRequest`.

* *PagesNumbered*: the stored pages of a slug are those numbered up to its
  latest, each once; their number is then a bijection with an interval.
* *Writing*: what a generation has in hand was built from the graph it was asked
  for, and is numbered at most one above the latest. When the store finds
  neither a stale nor a differing page, each is numbered exactly one above it:
  a generation that lost the race has a page that is not, and stores nothing.
* *PagesGrounded*, *JobsWhole*, *PinnedStored*: a page rests on the published
  graph of its snapshot, which is never replaced; a job has its pages.
* *IndexInv*: a revision is stored under the call that saves it, and the current
  one of a snapshot is a revision of that snapshot.
* *EventsTold*: nothing an event says is ever taken back.
* *SourcesInv*: a published graph is that of its parse result, and the documents
  of a revision are those of an input that may be indexed.
* *CitesInv*, *InvokedInv*: what a run has read so far, and that the part it took
  from the graph is of the commit of that graph, which stays; what it cites, in
  hand or stored, is of what it has read and of one commit, and is empty only
  when nothing was found.
* *SearchInv*: the revision a search was let in for stays, and its answer is
  `Retrieve` over that revision and a graph its snapshot had: none, or the one
  that is never replaced. That the answer has the best hits is then a fact about
  `Retrieve`: the reranker is given the first hits in the order of their values, four
  times as many as are returned, so with the repository's reranker none that was
  cut before it could have been among those returned; and the context is a
  prefix of all texts, of which only the last one shown may be cut.

### Only model-checked

Liveness: `AttemptsEnd`, `JobsAreDecided`, `EventsSettle`, `TasksSettle`,
`EverythingSettles` and `AcceptableIsBuilt`. They rest on fairness and so on
ENABLED, which is outside the prover. TLC checks them on the instances of
section 4.

## 6. Not modelled

* Visualization: a layout of query results with floating-point coordinates; its
  state is a cache of views.
* Git, workspace and the parsers: process and file I/O and text, without state;
  a parse is a success or a failure (`RepositoryTasks`), its result a record
  (`GraphCandidate`, `LegacyGraph`).
* The LLM adapters: their answers are sets of drafts and selections, valid and
  invalid, from which the models choose.
* NATS publisher beyond deduplication and failure, metrics, health probes, HTTP
  mapping, parsing of settings.
* The synchronous parse of the command line, `ParseEventHandler`,
  `QueryDiagnostics` and the slots of `QueryService`, `Agent.Resume`.
* Order within the reconciler's pages: candidates whose deletion keeps failing
  could hold back later ones (`graph_outbox_store.go:206`); no text of the
  repository says otherwise and no property is about it. Likewise a heartbeat
  without an answer, which records a task as cancelled that nobody cancelled
  (`tasks.go:99`): the model does it, no property forbids it.
