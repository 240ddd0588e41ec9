SPECIFICATION Spec
CONSTANTS
    Caller = {c1, c2, c3}
    MaxRequests = 3
    TripRequests = 5
    Interval = 1
    Timeout = 3
    MaxCounted = 8
PROPERTY TripsAfterFive
