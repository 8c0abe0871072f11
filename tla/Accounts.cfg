\* Two calls at a time, four in all, one failure or expiry.
SPECIFICATION ApiSpec
CONSTANTS
    t = t
    u = u
    Sessions = {t, u}
    ChannelOf <- MCChannelOf
    Digits = {d}
    Names = {n}
    Devices = {e}
    Calls = {a, b}
    Nobody = Nobody
    MaxCalls = 4
    MaxFaults = 1
INVARIANTS
    CreatedOnce
    AttestedOrRegistered
PROPERTY
    UsedUpForGood
CHECK_DEADLOCK FALSE
