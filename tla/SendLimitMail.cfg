SPECIFICATION SteadySpec
CONSTANTS
    Handler = {h1, h2}
    Email = {e1}
    IP = {i1}
    Type = {login}
    Code = {c1}
    None = None
    MinuteMax = 1
    DayMax = 2
    HourMax = 3
    MinuteTTL = 1
    CodeTTL = 2
    HourTTL = 3
    DayTTL = 4
    Attempts = 1
    MailConfigured = FALSE
INVARIANT LimitedMeansSent
CHECK_DEADLOCK FALSE
