SPECIFICATION WorkersSpec
CONSTANTS
    Runs = {r1}
    Channels = {"interactive"}
    Tokens = {t1, t2}
    ReportTokens = {p1}
    Sessions = {t1, t2}
    Turns = {u1}
    None = None
    Answers = {}
    Faults = {"dispatch_crash"}
    MaxAttempts = 2
    MaxQuestions = 0
    MaxDelegations = 0
    MaxReads = 1

PROPERTY
    RunSettles
CHECK_DEADLOCK FALSE
