SPECIFICATION Spec
CONSTANTS
    Calls <- MCTies
    NumThreads = 2
    Chunk = 1
    StableSort = TRUE
INVARIANT BuildDeterministic
