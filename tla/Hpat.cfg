SPECIFICATION Spec
CONSTANTS
    Graphs <- MCGraphs
    Biases <- MCUnevenBiases
    Horizon = 3
    kHpatDegreeThreshold = 2
    Budgets = {100, 10000}
INVARIANTS
    TypeOK
    TrunksReadBack
    CoverLookupExact
PROPERTIES
    ImplementsPrefixSampler
