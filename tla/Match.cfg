SPECIFICATION Spec
CONSTANTS
    Variants <- MCVariants
    Ints = {"0", "5", "7"}
    Addresses = {"p1", "p2"}
    MaxOrExpansion = 4
    Subject <- MCSubject
    Written <- MCWritten
    Inst <- MCInst
    MaxArms = 3
    NoValue = NoValue
    Garbage = Garbage
INVARIANTS FirstMatchRuns WitnessUncovered
