\* A Telegram session and two with a code; one person, one chat, one fault.
SPECIFICATION FairSpec
CONSTANTS
    t = t
    u = u
    v = v
    Sessions = {t, u, v}
    ChannelOf <- MCChannelOf
    Digits = {d}
    Names = {n}
    Devices = {e}
    Calls = {a, b}
    Nobody = Nobody
    MaxFaults = 1
    MaxMessages = 2
    MaxCalls = 0
INVARIANTS
    TypeOK
    BurntOnlyByFailure
    ToldIsVerified
    LostOnlyByThrow
PROPERTIES
    GetsToken
CHECK_DEADLOCK FALSE
