\* One directory with a symbolic link, the stdlib elsewhere, no one else on the disk.
SPECIFICATION FairSpec
CONSTANTS
    Path <- FlatPath
    Target <- FlatTarget
    Dir <- FlatDir
    DirOf <- FlatDirOf
    Chain <- FlatChain
    Link <- FlatLink
    Text = {"def", "use", "tab"}
    LexFails = {"tab"}
    SemErrors <- MCSemErrors
    SemMsg <- MCSemMsg
    FeedPath = {"std"}
    Absent = Absent
    Broken = Broken
    NoKey = NoKey
    InitDisk <- FlatDisk
    InitRsp <- FlatRsp
    RspChoice = {}
    EditPath = {"a", "link"}
    Kinds = {"open", "change", "close", "query"}
    MaxSend = 4
    MaxQueue = 2
    MaxDisk = 0
INVARIANTS
    UnitsCurrent
    EveryDocAnalyzed
    AllErrorsShown
    IdleIsClean
PROPERTIES
    EditsRealized
CHECK_DEADLOCK FALSE
