SPECIFICATION InboxSafety
CONSTANTS
    Lane = "inbox"
    MaxRows = 2
    Tokens = {t1, t2, t3}
    Contents = {c1, c2}
    None = None
    MaxRetries = 0
    Handoffs = {h1, h2}
    Faults = {"media_failed", "artifact_missing", "timeout", "send_throws", "crash", "replay", "session_ends"}
    MaxSessions = 2
    MaxCopies = 1
SYMMETRY Symmetry
INVARIANTS
    InboxTypeOK
    TurnsFollowInbox
    AcceptedWasConsumed
    NoConflictingReplay
PROPERTIES
    ContentIsStable
CHECK_DEADLOCK FALSE
