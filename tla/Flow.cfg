SPECIFICATION Spec
CONSTANTS
    Topics = {"exits", "order", "self", "marks"}
    Size = 3
    Turns = 3
CHECK_DEADLOCK FALSE
INVARIANTS
    RunsAsWritten
    CompilesToC
    BranchOrderFree
    BaseCaseKept
