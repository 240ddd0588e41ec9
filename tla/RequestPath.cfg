SPECIFICATION FairSpec
CONSTANTS
    q1 = q1
    q2 = q2
    Request <- Requests
    Call <- Calls
    MaxAttempts = 2
    Deadline = 1
    Grace = 2
    ReadTime = 1
    HTTPGrace = 3
    Burst = 1
    Rate = 1
    MaxStops = 1
    MaxLost = 1
    None = None
INVARIANTS TypeOK GaugeExact RunsBounded AnswersTrue GatewayStopsClean
PROPERTIES StopSparesCallers RequestsAnswered DrainEnds
