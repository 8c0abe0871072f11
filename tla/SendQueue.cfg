SPECIFICATION FairSpec
CONSTANTS
    Tasks = {t1, t2, t3}
    Asks = {ask}
    Others = {}
    Chains = {c1, c2}
    Handlers = {h1}
    NoTask = NoTask
    Interval = 1
    MaxTracked = 2
    MaxFaults = 1
    t1 = t1
    t2 = t2
    t3 = t3
    ask = ask
    c1 = c1
    c2 = c2
    h1 = h1
INVARIANTS TypeOK EchoLoggedOnlyIfEarly
PROPERTIES SerialSpaced InOrder NothingWaitsForever
CHECK_DEADLOCK FALSE
