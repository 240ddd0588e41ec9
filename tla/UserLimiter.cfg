SPECIFICATION FairSpec
CONSTANTS
    Request = {r1, r2}
    User = {u1, u2}
    Bucket = {b1, b2, b3, b4}
    None = None
    Burst = 2
    Rate = 1
    Period = 1
    MaxExcused = 1
INVARIANTS TypeOK Conforms
PROPERTIES RefusedOnlyWhenSpent IdleForgotten
