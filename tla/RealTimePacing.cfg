SPECIFICATION ClockSpec
CONSTANTS
    Interval = 3
    MaxDuration = 8
    MaxStartDelay = 1
    NumIntervals = 4
    ExitAfterEnd = TRUE
    ExitTimeout = 5
INVARIANTS
    NeverAhead
    TicksAccountedFor
    InSyncWhileFast
    StopsPromptly
