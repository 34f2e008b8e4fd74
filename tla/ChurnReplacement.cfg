SPECIFICATION Spec
CONSTANTS
    Configs <- Both
    Failing <- Few
    InstanceOffset = 3
    NumIntervals = 13
    Half = 1000
INVARIANTS
    ReplacementsMatchRate
    LatestUnlessMissed
PROPERTIES
    EveryInstanceEmits
    ExactSamplesPerTurn
