SPECIFICATION Spec
CONSTANTS
    NumScenarios = 2
    Scale <- InlineLastScale
    Concurrency <- InlineLastConcurrency
    Points <- InlineLastPoints
    Rate <- InlineLastRate
    NumIntervals = 1
    RealTime = FALSE
    ExitAfterEnd = FALSE
INVARIANTS
    CountsEveryDataPoint
