SPECIFICATION TableSpec
CONSTANTS
    Weights <- MCWeights
    Resolution = 3
    Roundings <- MCRoundings
INVARIANTS
    TableTypeOK
    ProportionalSampling
    MassConserved
    NoWeightNoShare
