\* Two numbers and pages of one entry; three writes, one failure.
SPECIFICATION FairSpec
CONSTANTS
    Numbers <- MCNumbers
    Skews <- MCSkews
    Limit = 1
    MaxTime = 3
    MaxWrites = 3
    MaxFailures = 1
INVARIANTS
    TypeOK
    EtagIsStored
    OnlyMissedIsStale
    DirectoryFollows
PROPERTIES
    Mirrors
    CatchesUp
