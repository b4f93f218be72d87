SPECIFICATION RelaySpec
CONSTANTS
    t1 = t1  t2 = t2
    h1 = h1  alice = alice  bob = bob  build = build  k1 = k1
    NoKey = NoKey  NoTask = NoTask  NoEntry = NoEntry  NoReport = NoReport  NoJob = NoJob
    Task = {t1}
    Host = {h1}
    Self = h1
    Reader = {alice}
    Admin = {}
    Actor = {alice}
    Target = {build}
    Key = {k1}
    Submission <- Rounds
    MaxTime = 5
    StaleAfter = 2
    HeartbeatFresh = 1
    Retention = 1
    KeepFor = 2
    BeatEvery = 1
    Lengthy = {}
    NetworkFaults = 0
    AgentCrashes = 0
    StoreCrashes = 0
    DiskFaults = 0
INVARIANTS
    AcknowledgedIsStored
