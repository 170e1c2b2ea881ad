SPECIFICATION Spec
CONSTANTS
    Graphs <- MCGraphs
    Biases <- MCBiases
    Horizon = 3
    MinTrunkSizes = {1, 3, 8}
INVARIANTS
    TypeOK
    TrunksReadBack
PROPERTIES
    ImplementsPrefixSampler
