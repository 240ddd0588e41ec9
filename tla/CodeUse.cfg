SPECIFICATION Spec
CONSTANTS
    Handler = {h1, h2}
    Op = {"login", "reset", "register"}
    e1 = e1
    p1 = p1
    p2 = p2
    pwA = pwA
    Email = {e1}
    Code = {c1}
    FirstPassword = {pwA}
    NewPassword = {pwB}
    Phone = {p1, p2}
    NoPhone = p2
    None = None
    Seed <- NobodyOrDisabled
    CodeTTL = 1
    Attempts = 2
    MaxLost = 1
    MaxRows = 2
SYMMETRY Symmetry
INVARIANTS TypeOK UsedMeansDeleted UseBound OnlyMailedCodes FoundStaysFirst
PROPERTIES ImplementsOneTimeCode StepsLeadToAnswer OnlyAddresseesDelete
CHECK_DEADLOCK FALSE
