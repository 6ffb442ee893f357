\* The services of one process: three graph builds, two index builds and a
\* search, two wiki generations.
SPECIFICATION MCSpec
CONSTANTS
    s1 = s1  s2 = s2  s3 = s3  k1 = k1  k2 = k2  g1 = g1  g2 = g2  g3 = g3
    i1 = i1  i2 = i2  q1 = q1  c1 = c1  c2 = c2  en = en  zh = zh
    m1 = m1  m2 = m2  m3 = m3  p1 = p1  p2 = p2  v1 = v1  v2 = v2  x1 = x1  x2 = x2
    None = None
    DefaultLimit = 20
    MaxNodes = 20
    MaxEdges = 20
    MaxFrontier = 20
    MaxRoots = 20
    MaxQueries = 20
    Digest <- MCDigest
    DefaultTopK = 2
    MaxTopK = 3
    MaxContextChars = 4
    GraphDepth = 1
    GraphSeedCount = 2
    Weight <- MCWeight
    Prefixed <- MCPrefixed
    Cosine <- MCCosine
    Snapshots = {s1, s2, s3}
    Keys = {k1, k2}
    Parsed <- MCParsed
    GraphCalls = {g1, g2, g3}
    MaxArtifacts = 3
    MaxRelations = 3
    IndexCalls = {i1, i2}
    Searches = {q1}
    Inputs <- MCInputs
    Requests <- MCRequests
    MaxDocuments = 3
    Rerankers = {"identity", "inverted", "repeating"}
    Rerank <- MCRerank
    WikiCalls = {c1, c2}
    Commands <- MCCommands
    Overview = "overview"
    EvidenceRequest <- MCEvidence
    Drafts <- MCDrafts
    MaxGraphNodes = 4
    Runs = {m1, m2, m3}
    Questions <- MCQuestions
    MaxRetrievalRounds = 2
    MaxCitations = 2
    AgentGraphLimit = 1
    Commits <- MCCommits
    Selections <- MCSelections
    Invocations <- MCInvocations
    Grants <- MCGrants
    QuotaLimit = 6
    Window = 2
    MaxTime = 4
    Proposers = {p1, p2}
    Reviews = {v1, v2}
    CodingCommands <- MCCodingCommands
    ProposalDrafts <- MCProposalDrafts
    MaxFileChanges = 2
CHECK_DEADLOCK FALSE
INVARIANTS
    SearchAnswersTheRequest
    AnnouncedIsStored
    RevisionsAreGapless
    WikiRestsOnItsGraph
    StreamsTellOutcome
    AnswersCiteOneCommit
    CallsAreAudited
    QuotaHolds
    TreeTellsOutcome
PROPERTIES
    ReadersKeepTheirPages
    FinalStays
