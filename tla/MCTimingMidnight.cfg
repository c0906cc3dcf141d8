SPECIFICATION Spec
CONSTANTS
    Day = 12
    Hour = 2
    None = None
    End = 228
    Timings <- MCTimings
    Starts <- MCStarts
PROPERTIES
    WeeklyRunsEveryWeek
CHECK_DEADLOCK FALSE
