SPECIFICATION Spec
CONSTANTS
    Calls <- MCCalls
    NumThreads = 3
    Chunk = 1
    StableSort = FALSE
INVARIANTS
    TypeOK
    SlotsInSlice
    NoSharedCell
    CandidatePrefix
    UniqueTimesDeterministic
PROPERTIES
    ImplementsAdjacency
