CONSTANTS
    Numbers = {n1}
    Names = {Ana, Anna, Zoe}
    Ana = Ana
    Anna = Anna
    Zoe = Zoe
    Rude = Rude
    NoName = NoName
    NoRow = NoRow
    Normal <- MCNormal
    Similar <- MCSimilar
    Rejected = {}
    Requests = {p1}
    Users = {u1, u2, u3}
    Ops = {"contribute"}
    MaxItems = 3
SPECIFICATION Spec
SYMMETRY FullSymmetry
INVARIANT VerifiedByThree
CHECK_DEADLOCK FALSE
