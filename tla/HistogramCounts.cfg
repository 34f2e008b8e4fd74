SPECIFICATION Spec
CONSTANTS
    Kinds <- Cumulative
    Samples <- PositiveSamples
    Instances <- Hashes
    Explicit <- Buckets
    Noise <- Steps
    MaxScale = 2
    MaxSize = 4
    Base = 16
    Lowered <- RoundedDown
    NumIntervals = 2
PROPERTY CountsGrow
