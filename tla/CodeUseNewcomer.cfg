SPECIFICATION Spec
CONSTANTS
    Handler = {h1}
    Op = {"register"}
    e1 = e1
    p1 = p1
    p2 = p2
    pwA = pwA
    Email = {e1, e2}
    Code = {c1}
    FirstPassword = {pwA}
    NewPassword = {pwB}
    Phone = {p1, p2}
    NoPhone = p2
    None = None
    Seed <- NoUsers
    CodeTTL = 1
    Attempts = 1
    MaxLost = 0
    MaxRows = 2
INVARIANT NewcomersNeedNoPhone
CHECK_DEADLOCK FALSE
