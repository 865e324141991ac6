SPECIFICATION Spec
CONSTANTS
    Shapes <- ShapesDef
    Features = {}
CHECK_DEADLOCK FALSE
INVARIANTS NothingEscapes FreesNoFrame OnePassIsEnough
