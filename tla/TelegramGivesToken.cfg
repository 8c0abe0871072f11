\* One session, confirmed over Telegram, and nothing goes wrong.
SPECIFICATION FairSpec
CONSTANTS
    t = t
    u = u
    v = v
    Sessions = {t}
    ChannelOf <- MCChannelOf
    Digits = {d}
    Names = {n}
    Devices = {e}
    Calls = {a, b}
    Nobody = Nobody
    MaxFaults = 0
    MaxMessages = 2
    MaxCalls = 0
PROPERTY
    TelegramGivesToken
CHECK_DEADLOCK FALSE
