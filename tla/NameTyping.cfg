SPECIFICATION Spec
CONSTANTS
    Chars = {x, y, sign, stop}
    Alphanumeric = {x, y}
    Width <- MCWidth
    Reads <- MCReads
    Gap = Gap
    StopWords <- MCStopWords
    ProfaneWords <- MCProfane
    MaxLen = 4
    x = x
    y = y
    sign = sign
    stop = stop
INVARIANTS
    SimilarBothWays
    FewestEdits
PROPERTIES
    NeverPardoned
CHECK_DEADLOCK FALSE
