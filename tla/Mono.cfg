SPECIFICATION FairSpec
CONSTANTS
    Program <- Programs
    Inst <- Instance
    Function <- FunctionInst
    Seeds <- ProgramSeeds
    Refs <- ProgramRefs
    Fields <- ProgramFields
    Depth <- InstDepth
    Template <- DeclOf
    Asked <- ReachedFromSeeds
    HasConstArg <- TakesConst
    Rejected <- AssertFails
    Broken <- EvalFailed
    ErrConst = ErrConst
    MAX_DEPTH = 3
    MAX_INSTANCES = 6
    MAX_PER_TEMPLATE = 2
    Wrapper = {"opt"}
    Aggregate = {"box", "node"}
    Callee = {"f", "g"}
    ConstGeneric = {"g"}
    MaxWord = 4
    MaxConst = 3
    BodySites <- FunctionBodySites
    FieldSites <- TypeFieldSites
    SeedSites <- MainSites
INVARIANTS CodegenClosed VerdictRight
PROPERTIES Termination ImplementsClosure
CHECK_DEADLOCK FALSE
