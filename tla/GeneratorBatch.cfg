SPECIFICATION FairSpec
CONSTANTS
    NumScenarios = 2
    Scale <- InlineFirstScale
    Concurrency <- InlineFirstConcurrency
    Points <- InlineFirstPoints
    Rate <- InlineFirstRate
    NumIntervals = 2
    RealTime = FALSE
    ExitAfterEnd = TRUE
INVARIANTS
    TypeOK
    CountsEveryDataPoint
PROPERTIES
    RoundsSpec
    QuietAfterShutdown
