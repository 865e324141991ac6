SPECIFICATION Spec
CONSTANTS
    Families = {"order", "equal", "consts", "generic"}
    MaxSteps = 4
CHECK_DEADLOCK FALSE
INVARIANTS
    TypesCompile
    EqualityIsStructural
