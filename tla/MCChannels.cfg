SPECIFICATION Spec
CONSTANTS
    x1 = x1
    x2 = x2
    y1 = y1
    y2 = y2
    u1 = u1
    u2 = u2
    s1 = s1
    s2 = s2
    s3 = s3
    z = z
    a1 = a1
    None = None
    Requests = {a1}
    Chunks = {x1, x2}
    Messages = {x1, x2}
    Calls = {y1, y2}
    Faults = {"timeout", "lost", "crash", "revoked", "elsewhere"}
    MaxTime = 1
SYMMETRY Symmetry
INVARIANTS
    ResponsesAreSafe
PROPERTIES
    AccountsAreSafe
CHECK_DEADLOCK FALSE
