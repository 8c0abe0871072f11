CONSTANTS
    Numbers = {n1}
    Names = {Ana, Anna, Zoe, Rude}
    Ana = Ana
    Anna = Anna
    Zoe = Zoe
    Rude = Rude
    NoName = NoName
    NoRow = NoRow
    Normal <- MCNormal
    Similar <- MCSimilar
    Rejected = {Rude}
    Requests = {p1, p2, p3}
    Users = {u1}
    Ops = {"contribute", "report", "delist", "federation", "crawl", "lookup"}
    MaxItems = 1
SPECIFICATION Spec
SYMMETRY FullSymmetry
INVARIANTS
    TypeOK
    ConfidenceBacked
    NoConfidenceWithoutName
    AnswerBacked
    VotesAccounted
    ReportCountNeverInflated
    ForeignKeysHold
    OnlyOvertakenDataRemains
PROPERTIES
    PrivacyIsPermanent
CHECK_DEADLOCK FALSE
