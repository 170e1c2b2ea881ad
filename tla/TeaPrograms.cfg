SPECIFICATION Spec
CONSTANTS
    Calls <- MCCalls
    ArgVs <- MCArgVs
    Files <- MCFiles
    Horizon = 2
    Width = 4
    kDefaultWalksPerNode = 5
    kDefaultMaxWalkLen = 4
    kSentinelStartTimestamp <- MCMaxTime
INVARIANTS
    TypeOK
    VerifierExact
    ReportTruthful
    InputComplete
CHECK_DEADLOCK FALSE
