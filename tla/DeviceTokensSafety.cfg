SPECIFICATION Spec
CONSTANTS
    Handler = {h1, h2}
    User = {u1}
    Device = {d1, d2}
    Name = {n1}
    Refresh = {r1, r2, r3, r4}
    None = None
    AccessTTL = 2
    RefreshTTL = 3
    Attempts = 2
SYMMETRY Interchangeable
INVARIANTS TypeOK AnsweredLoginStands RefreshOutlivesAccess KeyOutlivesToken
CHECK_DEADLOCK FALSE
