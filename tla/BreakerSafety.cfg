SPECIFICATION Spec
CONSTANTS
    Caller = {c1, c2, c3, c4}
    MaxRequests = 3
    TripRequests = 5
    Interval = 1
    Timeout = 3
    MaxCounted = 8
SYMMETRY CallerSymmetry
INVARIANTS TypeOK SlotsAccounted HalfOpenProbes
PROPERTIES OneFailureNeverTrips ClosesOnlyByStraddler
