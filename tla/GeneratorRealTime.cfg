SPECIFICATION FairSpec
CONSTANTS
    NumScenarios = 2
    Scale <- RealTimeScale
    Concurrency <- RealTimeConcurrency
    Points <- RealTimePoints
    Rate <- RealTimeRate
    NumIntervals = 2
    RealTime = TRUE
    ExitAfterEnd = TRUE
INVARIANTS
    NoDataRace
    EmitsCurrentTemplate
    SeedsIndependentOfSchedule
    ExitOnlyWhenComplete
PROPERTIES
    ShutdownCompletes
    RunsToCompletion
