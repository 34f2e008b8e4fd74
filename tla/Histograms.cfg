SPECIFICATION Spec
CONSTANTS
    Kinds <- AllKinds
    Samples <- MixedSamples
    Instances <- Hashes
    Explicit <- Buckets
    Noise <- Steps
    MaxScale = 2
    MaxSize = 4
    Base = 16
    Lowered <- RoundedDown
    NumIntervals = 2
INVARIANTS ObservationsConserved NeverEmpty RangeIsExact
PROPERTIES BucketsStayInPlace CountsGrowAtScale
