SPECIFICATION Spec
CONSTANTS
    Kinds <- AllKinds
    Seeds <- MixedSeeds
    Noise <- NarrowNoise
    Median = 55
    Interval = 200
    NumIntervals = 3
INVARIANTS
    RatiosStayRatios
    GaugesKeptAboveOne
    StableBinaryNeverFlips
PROPERTIES
    CountersNeverDecrease
