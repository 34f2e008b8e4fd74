SPECIFICATION Spec
CONSTANTS
    Kinds <- PlainGauges
    Seeds <- OutOfUnit
    Noise <- NarrowNoise
    Median = 55
    Interval = 100
    NumIntervals = 3
INVARIANTS
    GaugeNotLocked
