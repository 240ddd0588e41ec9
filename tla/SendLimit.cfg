SPECIFICATION FairSpec
CONSTANTS
    Handler = {h1, h2}
    Email = {e1}
    IP = {i1}
    Type = {login}
    Code = {c1}
    None = None
    MinuteMax = 1
    DayMax = 2
    HourMax = 2
    MinuteTTL = 1
    CodeTTL = 1
    HourTTL = 2
    DayTTL = 3
    Attempts = 2
    MailConfigured = TRUE
INVARIANTS TypeOK Budget MinuteOvershoot DayOvershoot HourOvershoot CountersExpire
PROPERTIES WindowsAnchored LimitsLift RedisPartEnds
CHECK_DEADLOCK FALSE
