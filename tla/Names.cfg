SPECIFICATION Spec
CONSTANTS
    Decls <- DeclsDef
    Programs <- ProgramsDef
    Atoms <- AtomsDef
CHECK_DEADLOCK FALSE
INVARIANTS AcceptsTheWellFormed NamesMean OnDemandOnce
