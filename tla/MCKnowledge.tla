----------------------------- MODULE MCKnowledge -----------------------------
(* Small instances of the services of one process. A service only reads    *)
(* the results of the others, so a behaviour moves one of them, with the   *)
(* results of the others in place or missing; the tools come twice, for    *)
(* what they answer and for their quota over time.                         *)
EXTENDS KnowledgeProcess

CONSTANTS m1, m2, m3, p1, p2, v1, v2, x1, x2, s1, s2, s3, k1, k2, g1, g2, g3, i1, i2, q1, c1, c2, en, zh

VARIABLE focus

(* Parse results: one with a relation whose target is no artifact, one     *)
(* that is sound, and one with a bad artifact.                             *)
Parse(commit, n, relations) ==
    [complete |-> TRUE, commit |-> commit, relations |-> relations,
     artifacts |-> [i \in 1..n |-> [id |-> i, type |-> IF i = 3 THEN "SYMBOL" ELSE "FILE", valid |-> TRUE]]]
Calls(id, from, to) == [id |-> id, from |-> from, to |-> to, kind |-> "CALLS", valid |-> TRUE]
MCParsed ==
    [s \in {s1, s2, s3} |->
        CASE s = s1 -> Parse("a", 3, <<Calls(1, 1, 2), Calls(2, 3, 4)>>)
          [] s = s2 -> Parse("b", 2, <<Calls(1, 1, 2)>>)
          [] s = s3 -> [Parse("b", 2, <<>>) EXCEPT !.artifacts[2].valid = FALSE]]
MCDigest == <<3, 1, 2, 6, 4, 5, 8, 7>>

(* Documents: an exact and a prefix match, a second version of one of      *)
(* them, and inputs that cannot be indexed.                                *)
Source(artifact, hash, terms, text) ==
    [artifact |-> artifact, commit |-> "a", hash |-> hash, sourceHash |-> hash, language |-> "go",
     kind |-> "CLASS", path |-> <<"src", terms[1]>>, terms |-> terms, text |-> text]
First == Source(1, 1, <<"open">>, <<"open", "file", "open">>)
Second == Source(2, 1, <<"file", "opener">>, <<"file">>)
Third == Source(3, 1, <<"graph">>, <<"graph", "graph">>)
Changed == Source(1, 2, <<"close">>, <<"close", "file">>)
MCInputs ==
    {<<First, Second, Third>>, <<Changed, Second>>, <<First, First>>,
     <<[First EXCEPT !.sourceHash = 2]>>, <<First, [Second EXCEPT !.commit = "b"]>>, <<>>}
MCPrefixed(a, b) == a = "open" /\ b = "opener"
MCCosine(query, d) == IF query = <<"absent">> THEN 0 ELSE IF d.artifact = 3 THEN 30 ELSE IF d.artifact = 2 THEN -10 ELSE 0
MCWeight == [SYMBOL |-> 7, KEYWORD |-> 5, SEMANTIC |-> 5, GRAPH |-> 3]

Find(query, strategies, topK) ==
    [query |-> query, strategies |-> strategies, topK |-> topK, languages |-> {}, kinds |-> {},
     prefixes |-> {}, artifacts |-> {}]
MCRequests ==
    {Find(q, s, k) : q \in {<<"open">>, <<"file", "graph">>}, s \in {{}, {"GRAPH"}, {"KEYWORD", "SEMANTIC"}}, k \in {0, 1}}
    \cup {Find(<<>>, {}, 1), [Find(<<"file">>, {}, 3) EXCEPT !.prefixes = {<<"src", "file">>}, !.kinds = {"CLASS"}],
          [Find(<<"file">>, {"SYMBOL"}, 3) EXCEPT !.languages = {"java"}],
          [Find(<<"open">>, {"SEMANTIC"}, 3) EXCEPT !.artifacts = {1, 3}]}
MCEvidence == Find(<<"file">>, {"SYMBOL", "KEYWORD", "GRAPH"}, 0)
MCRerank(reranker, hits) ==
    CASE reranker = "inverted" -> [i \in DOMAIN hits |-> [hits[i] EXCEPT !.score = 1000 - @]]
      [] reranker = "repeating" -> IF hits = <<>> THEN hits ELSE hits \o <<hits[1]>>

Page(content, commits) == [content |-> content, commits |-> commits]
MCCommands ==
    [key : {k1, k2}, snapshot : {s1}, graphRevision : {g1}, slugs : {<<"overview", "module">>}, locale : {en, zh}]
    \cup [key : {k1, k2}, snapshot : {s2}, graphRevision : {g2}, slugs : {<<"module">>}, locale : {en}]
    \cup [key : {k1}, snapshot : {s1}, graphRevision : {g2}, slugs : {<<"module">>}, locale : {en}]
MCDrafts ==
    {[slug \in {"overview", "module"} |-> Page("x", {commit})] : commit \in {"a", "b"}}
    \cup {[slug \in {"overview", "module"} |-> Page(IF slug = "module" THEN "y" ELSE "x", {"a"})],
          [slug \in {"overview", "module"} |-> Page("x", IF slug = "module" THEN {} ELSE {"a"})]}

(* Questions: one finds nothing in its first round, one does, and two      *)
(* snapshots share a conversation.                                         *)
Rounds == <<Find(<<"absent">>, {}, 3), Find(<<"absent", "file">>, {}, 3)>>
Early == Reverse(Rounds)
Question(s, valid) == [conversation |-> "t", snapshot |-> s, valid |-> valid, rounds |-> Rounds]
MCQuestions == {Question(s1, TRUE), [Question(s1, TRUE) EXCEPT !.rounds = Early], Question(s2, TRUE), Question(s1, FALSE)}
MCCommits == <<"a", "b">>
MCSelections == {None, <<>>, <<1, 0, 1>>, <<2>>}

Use(tool, question, symbol) ==
    [tool |-> tool, scoped |-> TRUE, valid |-> TRUE, question |-> question, snapshot |-> s1, symbol |-> symbol, slug |-> "module"]
Asks == {Use("ask_repository", q, 1) : q \in MCQuestions}
QuotaAsk == Use("ask_repository", Question(s1, FALSE), 1)
MCInvocations ==
    Asks \cup {Use(t, None, 1) : t \in {"search_code", "get_wiki_page", "wiki_page"}}
    \cup {Use(t, None, symbol) : t \in {"get_symbol", "find_call_chain"}, symbol \in {1, 5}}
    \cup {[Use("search_code", None, 1) EXCEPT !.valid = FALSE], [Use("get_symbol", None, 1) EXCEPT !.scoped = FALSE]}
Grant(client) ==
    [client |-> client, complete |-> TRUE, active |-> TRUE, expires |-> 9, repository |-> TRUE, read |-> TRUE]
MCGrants ==
    {Grant(x1), Grant(x2), [Grant(x1) EXCEPT !.complete = FALSE], [Grant(x1) EXCEPT !.expires = 0],
     [Grant(x1) EXCEPT !.repository = FALSE], [Grant(x1) EXCEPT !.read = FALSE]}

Change(key, session, user, intent) ==
    [key |-> key, snapshot |-> s1, session |-> session, user |-> user, intent |-> intent,
     request |-> Find(<<"file">>, {}, 3), selected |-> <<>>]
MCCodingCommands ==
    {Change(k1, "z1", "u1", "PATCH"), Change(k2, "z1", "u2", "PATCH"),
     [Change(k2, "z1", "u1", "REFACTOR") EXCEPT !.selected = <<[at |-> 1, commit |-> "a"]>>, !.request.prefixes = {<<"src", "open">>}],
     Change(k1, "z2", "u1", "EXPLAIN"), [Change(k2, "z1", "u1", "PATCH") EXCEPT !.selected = <<[at |-> 1, commit |-> "b"]>>]}
MCProposalDrafts ==
    {[files |-> f, known |-> TRUE, cites |-> TRUE] : f \in {{}, {1}, {1, 2}}}
    \cup {[files |-> {1}, known |-> FALSE, cites |-> TRUE]}

Built(p, id) == [id |-> id, graph |-> GraphOfParse(p)]
Indexed(id, s, input) == [id |-> id, snapshot |-> s, documents |-> BuildDocuments(input),
                          content |-> RevisionHash(BuildDocuments(input))]
Both == <<First, Second>>
OfCommit(commit) == [i \in 1..3 |-> [<<First, Second, Third>>[i] EXCEPT !.commit = commit]]
APage == [locale |-> en, slug |-> "module", number |-> 1, snapshot |-> s1, graphRevision |-> g1,
          content |-> Page("x", {"a"}), parent |-> FALSE]

(* The graphs of s1 and s2, the index revisions in place.                  *)
Graphs(first, second) == [s \in Snapshots |-> IF s = s1 THEN first ELSE IF s = s2 THEN second ELSE None]
G1 == Built(Parsed[s1], g1)
G2 == Built(Parsed[s2], g2)
GraphsOf ==
    CASE focus = "index" -> {Graphs(None, None), Graphs(G1, None)}
      [] focus = "wiki" -> {Graphs(G1, G2)}
      [] focus = "tools" -> {Graphs(None, None), Graphs(G1, None)}
      [] OTHER -> {Graphs(None, None)}
IndexesOf ==
    CASE focus = "wiki" -> {{Indexed(i1, s1, Both), Indexed(i2, s2, Both)}}
      [] focus = "tools" -> {{}} \cup {{Indexed(i1, s1, OfCommit(commit))} : commit \in {"a", "b"}}
      [] focus = "assistant" -> {{Indexed(i1, s1, Both)}}
      [] OTHER -> {{}}
MCInit ==
    /\ focus \in {"graph", "index", "wiki", "tools", "quota", "assistant"}
    /\ announced = {}
    /\ IF focus = "graph" THEN GraphInit
       ELSE /\ graphs \in GraphsOf
            /\ graphKeys = [k \in Keys |-> IF k = k1 /\ graphs[s1] # None THEN s1 ELSE None]
            /\ builder = [c \in GraphCalls |-> [pc |-> "done", key |-> None, snapshot |-> None]]
    /\ revisions \in IndexesOf
    /\ current = [s \in Snapshots |->
           IF \E r \in revisions : r.snapshot = s THEN (CHOOSE r \in revisions : r.snapshot = s).id ELSE None]
    /\ indexer = [c \in IndexCalls |-> [pc |-> "idle", revision |-> NoRevision]]
    /\ searcher = [q \in Searches |-> NoSearch]
    /\ IF focus = "tools" /\ graphs[s1] # None
       THEN /\ pages = {APage}
            /\ latestPage = [k \in Locales \X Slugs |-> IF k = <<en, "module">> THEN 1 ELSE 0]
            /\ pinned = [k \in Snapshots \X Slugs |-> IF k = <<s1, "module">> THEN PageId(APage) ELSE None]
            /\ wikiJobs = [k \in Keys |-> None]
            /\ generator = [c \in WikiCalls |-> NoGeneration]
       ELSE WikiInit
    /\ AgentInit /\ ToolInit /\ ProposalInit

(* The calls a behaviour makes: any tool, and a run that may share its     *)
(* conversation with one on another snapshot; or, for the quota, calls of  *)
(* one tool that the service refuses. Calls of one kind are alike, so they *)
(* begin in the order of their names; proposals are made before a review   *)
(* or a developer begins, for making one reads nothing that these write.   *)
InOrder(first, second, idle) == second # idle => first # idle
Uses(c, set) == calls'[c].invocation \in set \cup {None}
Of(c, set) == calls'[c].grant \in set \cup {None}
Elsewhere == {Use("ask_repository", Question(s2, TRUE), 1)}
ToolCalls ==
    /\ now' = now
    /\ Uses(m1, MCInvocations \ Elsewhere)
    /\ Of(m1, IF calls'[m1].invocation = Use("search_code", None, 1) THEN MCGrants \ {Grant(x2)} ELSE {Grant(x1)})
    /\ Uses(m2, Elsewhere) /\ Of(m2, {Grant(x2)})
    /\ Uses(m3, {})
    /\ live'[m2] # live[m2] => calls'[m2].pc = "audit"
    /\ calls[m2].pc = "idle" /\ calls'[m2].pc # "idle" =>
          calls[m1].pc # "done" /\ calls[m1].invocation \in Asks \cup {None}
    /\ calls[m1].pc = "idle" /\ calls'[m1].pc # "idle" /\ calls[m2].pc # "idle" => calls'[m1].invocation \in Asks
QuotaCalls ==
    /\ live' = live
    /\ \A c \in Runs : Uses(c, {QuotaAsk}) /\ Of(c, {Grant(x1)}) /\ calls'[c].result # "AUDIT_FAILURE"
    /\ InOrder(calls'[m1].pc, calls'[m2].pc, "idle") /\ InOrder(calls'[m2].pc, calls'[m3].pc, "idle")
AssistantCalls ==
    /\ proposer' # proposer => review = [v \in Reviews |-> NoReview] /\ Developer \notin tree[1] /\ head # None
    /\ InOrder(proposer'[p1].pc, proposer'[p2].pc, "idle") /\ InOrder(review'[v1].pc, review'[v2].pc, "idle")
    /\ Developer \notin tree'[2]

MCNext ==
    /\ focus' = focus
    /\ \/ focus = "graph" /\ GraphStep /\ InOrder(builder'[g1].pc, builder'[g2].pc, "idle") /\ InOrder(builder'[g2].pc, builder'[g3].pc, "idle")
       \/ focus = "index" /\ IndexStep /\ InOrder(indexer'[i1].pc, indexer'[i2].pc, "idle")
          /\ s3 \notin {searcher'[q1].snapshot} \cup {indexer'[c].revision.snapshot : c \in IndexCalls}
          /\ s2 # indexer'[i1].revision.snapshot
       \/ focus = "wiki" /\ WikiStep /\ InOrder(generator'[c1].pc, generator'[c2].pc, "idle")
       \/ focus = "tools" /\ ToolStep /\ ToolCalls
       \/ focus = "quota" /\ ToolStep /\ QuotaCalls
       \/ focus = "assistant" /\ AssistantStep /\ AssistantCalls
MCSpec == MCInit /\ [][MCNext]_<<vars, focus>>
=============================================================================
