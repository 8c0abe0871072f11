CONSTANTS
    Numbers = {n1}
    Names = {Ana, Anna, Zoe, Rude}
    Ana = Ana
    Anna = Anna
    Zoe = Zoe
    Rude = Rude
    NoName = NoName
    NoRow = NoRow
    Normal <- MCNormal
    Similar <- MCSimilar
    Rejected = {Rude}
    Requests = {p1, p2, p3}
    Users = {u1}
    Ops = {"delist", "report"}
    MaxItems = 1
SPECIFICATION Spec
SYMMETRY FullSymmetry
INVARIANT NeverReingested
CHECK_DEADLOCK FALSE
