SPECIFICATION OutboxSafety
CONSTANTS
    Lane = "outbox"
    MaxRows = 2
    Tokens = {t1, t2, t3}
    Contents = {}
    None = None
    MaxRetries = 1
    Drains = {d1, d2}
    Faults = {"refused", "rate_limited", "answer_lost", "timeout", "crash"}
SYMMETRY Symmetry
INVARIANTS
    OutboxTypeOK
    QueueInv
    RequestsAreAuthorized
PROPERTIES
    KeepsMessagePromise
    LostLeaseStaysLost
CHECK_DEADLOCK FALSE
