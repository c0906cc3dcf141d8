SPECIFICATION Spec
CONSTANTS
    Runs = {r1}
    Channels = {"interactive", "native"}
    Tokens = {t1, t2, t3}
    ReportTokens = {p1, p2}
    Sessions = {s1, s2}
    Turns = {u1, u2}
    None = None
    MaxAttempts = 3
    MaxQuestions = 2
    MaxReads = 1
SYMMETRY Symmetry
INVARIANTS
    RunsInv
    AttemptsAreLeases
    FinishedMeansOutcome
PROPERTIES
    FinishedIsFinal
    LostLeaseStaysLost
    SettledReportStays
    KeepsPromise
CHECK_DEADLOCK FALSE
