SPECIFICATION Spec
CONSTANTS
    x1 = x1
    x2 = x2
    x3 = x3
    y1 = y1
    y2 = y2
    c1 = c1
    o1 = o1
    k = k
    None = None
    Objects = {x1, x2}
    Owners = {o1}
    Erasable = {o1}
    Nothing = None
    Window = 1
    LastTime = 3
    MaxBackups = 2
    MaxRestores = 2
    Users = {x1, x2, x3}
    Companies = {c1}
    Handlers = {x1, x2, x3}
    Asks <- Self
    Administrators = {x1, x2}
    LateJoins = FALSE
    Removals = {x3}
    Failures = {"abort", "restart", "restore", "providers"}
    MaxRestarts = 1
    Nobody = None
SYMMETRY Symmetry
INVARIANTS
    DeletionsAreSafe
    PayloadsAreSafe
PROPERTIES
    ArchiveIsSafe
    PlansAreSafe
CHECK_DEADLOCK FALSE
