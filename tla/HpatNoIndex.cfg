SPECIFICATION Spec
CONSTANTS
    Graphs <- MCGraphs
    Biases <- MCBiases
    Horizon = 3
    kHpatDegreeThreshold = 2
    Budgets = {0}
PROPERTIES
    ImplementsPrefixSampler
