CONSTANTS
    Lines = {c1, c2}
    NoLine = NoLine
    MaxAttempts = 1
    MaxLogouts = 0
    MaxPairings = 1
    MaxWrites = 1
    MaxFaults = 1
SPECIFICATION FairSpec
PROPERTIES
    BackupConverges
    KeepsTrying
CHECK_DEADLOCK FALSE
