SPECIFICATION Spec
CONSTANTS
    x1 = x1
    x2 = x2
    y1 = y1
    y2 = y2
    q = q
    d = d
    None = None
    People = {x1, x2}
    NoAnswer = None
    MaxEpoch = 4
    MaxLate = 2
    Failing = {"open", "join", "retire", "erase"}
SYMMETRY Symmetry
INVARIANTS
    AudienceIsSafe
PROPERTIES
    DeliveriesAreSafe
    TasksAreSafe
CHECK_DEADLOCK FALSE
