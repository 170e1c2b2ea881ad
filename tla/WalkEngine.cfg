SPECIFICATION Spec
CONSTANTS
    Vertices <- MCVertices
    Adj <- MCAdj
    StartLists <- MCStartLists
    max_walk_len = 4
    kSentinelStartTimestamp <- MCMaxTime
    Threads <- MCThreads
    Chunk = 2
    Underflow = 100
    Seeds <- MCSeeds
    Picks <- MCPicks
    Pick <- MCPick
INVARIANTS
    TypeOK
    WalksVerified
    ExclusiveWalks
    Deterministic
    PrevIsPredecessor
    StatsExact
    EarlyTermination
PROPERTIES
    FinishedWalkStable
    ImplementsTemporalWalk
    CallReturns
