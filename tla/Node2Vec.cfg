SPECIFICATION Spec
CONSTANTS
    Calls <- MCCalls
    Horizon = 2
    Node2VecBiases <- MCBiases
    kNode2VecMaxRetries = 3
    kSentinelStartTimestamp = 99
INVARIANTS
    TypeOK
    AcceptedProportional
    CapSkewBounded
PROPERTY
    RetriesEnd
