SPECIFICATION FairSpec
CONSTANTS
    Inputs <- SmallInputs
    Options <- Overrides
    Injected <- Keys
    Scale = 2
    InstanceOffset = 5
    StartTime = 10
    EndTime = 17
    Interval = 3
    Jitters <- NoOrLargeJitter
INVARIANTS
    RenderedAsWritten
    FirstParsableDecides
    SeriesPreserved
    OverridesHonoured
    PlanPerSeries
PROPERTIES
    TimestampsIncrease
    LoopsEnd
