SPECIFICATION Spec
CONSTANTS
    Name <- Names
    Class <- Classes
    Templates <- UpToThree
INVARIANTS
    AcceptsWellHinted
    HintsAsDeclared
    StrippedOnSuccessOnly
