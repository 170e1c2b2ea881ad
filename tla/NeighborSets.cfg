SPECIFICATION Spec
CONSTANTS
    Calls <- MCCalls
INVARIANTS
    TypeOK
    TransposeExact
    SlicesExact
    ContainsExact
