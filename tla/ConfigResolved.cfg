SPECIFICATION Spec
CONSTANTS
    Configs <- All
    Now = 10
    Second = 2
    MaxTime = 1000
    Half = 1000
INVARIANTS
    TimesResolved
    WorkersShareInstances
    ChurnRateExact
