SPECIFICATION FairRelaySpec
CONSTANTS
    t1 = t1  t2 = t2
    h1 = h1  alice = alice  bob = bob  build = build  k1 = k1
    NoKey = NoKey  NoTask = NoTask  NoEntry = NoEntry  NoReport = NoReport  NoJob = NoJob
    Task = {t1}
    Host = {h1}
    Self = h1
    Reader = {alice}
    Admin = {}
    Actor = {alice}
    Target = {build}
    Key = {k1}
    Submission <- Mixed
    MaxTime = 3
    StaleAfter = 1
    HeartbeatFresh = 1
    Retention = 1
    KeepFor = 2
    BeatEvery = 1
    Lengthy = {t1}
    NetworkFaults = 1
    AgentCrashes = 1
    StoreCrashes = 1
    DiskFaults = 1
INVARIANTS
    AtMostOnce
    SuccessIsEarned
    InterruptedMeansGone
    KeptIsAcknowledged
    NobodyIsStuck
PROPERTIES
    AgentLetsGo
