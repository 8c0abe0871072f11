CONSTANTS
    Lines = {c1, c2}
    NoLine = NoLine
    MaxAttempts = 1
    MaxLogouts = 1
    MaxPairings = 1
    MaxFaults = 2
    MaxWrites = 1
SPECIFICATION Spec
SYMMETRY LineSymmetry
INVARIANTS
    TypeOK
    NeverStranded
    OneLine
    Forgotten
    RetriesBounded
PROPERTIES
    KeptUntilReset
CHECK_DEADLOCK FALSE
