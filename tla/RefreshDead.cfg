SPECIFICATION Spec
CONSTANTS
    Handler = {h1, h2}
    User = {u1}
    Device = {d1}
    Name = {n1}
    Refresh = {r1, r2, r3}
    None = None
    AccessTTL = 1
    RefreshTTL = 2
    Attempts = 2
INVARIANT SomeSessionCallWorks
CHECK_DEADLOCK FALSE
