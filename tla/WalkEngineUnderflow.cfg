SPECIFICATION Spec
CONSTANTS
    Vertices <- MCVertices
    Adj <- MCFarAdj
    StartLists <- MCFarStartLists
    max_walk_len = 4
    kSentinelStartTimestamp <- MCMaxTime
    Threads <- MCThreads
    Chunk = 2
    Underflow = 5
    Seeds <- MCSeeds
    Picks <- MCPicks
    Pick <- MCPick
INVARIANT EarlyTermination
