CONSTANTS
    Numbers = {n1, n2}
    Names = {Ana, Zoe}
    Ana = Ana
    Anna = Anna
    Zoe = Zoe
    Rude = Rude
    NoName = NoName
    NoRow = NoRow
    Normal <- MCNormal
    Similar <- MCSimilar
    Rejected = {}
    Requests = {p1, p2}
    Users = {u1}
    Ops = {"contribute", "delist", "lookup"}
    MaxItems = 2
SPECIFICATION Spec
SYMMETRY CallSymmetry
INVARIANTS
    CarriedReadsHold
CHECK_DEADLOCK FALSE
