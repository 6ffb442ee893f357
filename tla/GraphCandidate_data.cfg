SPECIFICATION Spec
CONSTANTS
    DefaultLimit = 3
    MaxNodes = 3
    MaxEdges = 3
    MaxFrontier = 2
    MaxRoots = 2
    MaxQueries = 6
    Digest <- MCDigest
    Results <- MCResults
    PageSize = 2
    BatchSize = 2
    MaxBatchBytes = 3
    MaxRecordBytes = 2
    MaxRevisionBytes = 8
    MaxArtifacts = 4
    MaxRelations = 4
    MaxInvalidArtifacts = 1
    MaxInvalidRelations = 2
    MaxInvalidPercent = 60
    SourceAttempts = 2
    BatchAttempts = 2
    Queries <- MCQueries
    MaxFaults = 2
CHECK_DEADLOCK FALSE
INVARIANTS
    SealedIsExact
    QueriesAgree
PROPERTIES
    AcceptableIsBuilt
