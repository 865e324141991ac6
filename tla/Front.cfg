SPECIFICATION Spec
CONSTANTS
    Dir = {"top", "lib"}
    Cwd = "top"
    Sub = {"here", "down", "up"}
    Cd <- MCCd
    Base = {"a", "b", "c", "l"}
    Rsp = {"A", "B", "C"}
    Canon <- MCCanon
    Missing = Missing
    Contents <- MCContents
    CommandLines <- MCCommandLines
    Word <- MCWord
    Equals <- MCEquals
    Glob <- MCGlob
    Host <- MCHost
    None = None
    ArgsMaxDepth = 2
    Line <- MCLine
    Flag <- MCFlag
    Ident <- MCIdent
    Literal <- MCLiteral
    NoFlag = NoFlag
    MaxCondDepth = 3
    MaxIndent = 3
    Text <- MCText
    Shape <- MCShape
    MostShapes = 4
    MostLines = 5
    MostTokens = 2
    MostCondTokens = 5
INVARIANTS SplicedInPlace RefusedForCause ParsedAsGiven BranchSelected OffsideRule ConditionsRead
