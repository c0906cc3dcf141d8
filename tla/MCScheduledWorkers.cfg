SPECIFICATION MCSafety
CONSTANTS
    Runs = {r1}
    Channels = {"interactive", "native"}
    Tokens = {t1, t2}
    ReportTokens = {p1}
    Sessions = {t1, t2}
    Turns = {u1, u2}
    None = None
    Answers = {a1, a2}
    Faults = {"dispatch_crash", "send_unknown", "send_refused", "answer_crash", "answer_unknown", "worker_failure", "parked_failure"}
    MaxAttempts = 2
    MaxQuestions = 2
    MaxDelegations = 2
    MaxReads = 2
SYMMETRY Symmetry
INVARIANTS
    WorkersTypeOK
    QuestionsStand
PROPERTIES
    FollowsStore
    FinalWordsEnd
CHECK_DEADLOCK FALSE
