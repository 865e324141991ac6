\* Files and response files change under the server; the session ends in every way.
SPECIFICATION Spec
CONSTANTS
    Path <- RoutesPath
    Target <- RoutesTarget
    Dir <- RoutesDir
    DirOf <- RoutesDirOf
    Chain <- RoutesChain
    Link <- NoLink
    Text = {"def", "use", "mix", "tab"}
    LexFails = {"tab"}
    SemErrors <- MCSemErrors
    SemMsg <- MCSemMsg
    FeedPath = {}
    Absent = Absent
    Broken = Broken
    NoKey = NoKey
    InitDisk <- RoutesDisk
    InitRsp <- RoutesRsp
    RspChoice <- RoutesRspChoice
    EditPath = {"m", "lib"}
    Kinds = {"open", "change", "close", "query", "shutdown", "request", "exit", "notification", "malformed", "eof"}
    MaxSend = 4
    MaxQueue = 1
    MaxDisk = 1
INVARIANTS
    SquigglesTracked
    UnitsBorne
    AnswersCurrent
CHECK_DEADLOCK FALSE
