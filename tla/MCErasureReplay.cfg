SPECIFICATION DeletionSpec
CONSTANTS
    u1 = u1
    u2 = u2
    h1 = h1
    h2 = h2
    Nobody = Nobody
    Users = {u1, u2}
    Companies = {c1}
    Handlers = {h1, h2}
    Asks <- TwoAsk
    Administrators = {}
    LateJoins = FALSE
    Removals = {}
    Failures = {"abort", "restart"}
    MaxRestarts = 1
INVARIANT
    CompanyKeepsAdmin
CHECK_DEADLOCK FALSE
