SPECIFICATION FairSandboxSpec
CONSTANTS
    t1 = t1  t2 = t2
    NoKey = NoKey  NoTask = NoTask  NoEntry = NoEntry  NoReport = NoReport  NoJob = NoJob
    Task = {t1, t2}
    Host = {}  Reader = {}  Admin = {}  Actor = {}  Target = {}  Key = {}  Submission = {}
    Dispatch <- MCDispatch
    MaxTime = 2
    KeepFor = 1
    BeatEvery = 1
    Lengthy = {}
    MaxStarts = 2
    Bulky = {"result"}
    Strays = {"absent", "fits"}
INVARIANTS
    NeverStuck
    OwesAtMostOne
    ExecutorStartsOnce
    NothingLeftBehind
    OutputIsManifest
    SuccessHasEvidence
PROPERTIES
    RecordedIsNotRerun
    RecordIsStable
    OnlyALeftoverBlocks
