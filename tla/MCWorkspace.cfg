SPECIFICATION Spec
CONSTANTS
    x1 = x1
    x2 = x2
    c3 = c3
    c4 = c4
    c5 = c5
    e = e
    p = p
    None = None
    Calls = {x1, x2, c3, c4}
    Keys = {"k1", "k2"}
    Key <- ToolKey
    Request <- ToolRequest
    MaxRunning = 2
    Deadline = 1
    MaxTime = 1
    Faults = {"timeout", "service", "crash"}
SYMMETRY Symmetry
INVARIANTS
    ToolsAreSafe
PROPERTIES
    SchedulesAreSafe
    ReportsAreSafe
    RepositoryIsSafe
    MemoryIsSafe
    KeepsRevisionPromise
CHECK_DEADLOCK FALSE
