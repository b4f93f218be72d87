SPECIFICATION RoundSpec
CONSTANTS
    t1 = t1  t2 = t2  c1 = c1  c2 = c2
    h1 = h1  alice = alice  build = build  k1 = k1
    NoKey = NoKey  NoTask = NoTask
    Task = {t1, t2}
    Host = {h1}
    Reader = {alice}
    Admin = {}
    Actor = {alice}
    Target = {build}
    Key = {k1}
    Submission <- MCSubmission
    MaxTime = 2
    StaleAfter = 0
    HeartbeatFresh = 0
    Retention = 0
    Call = {c1, c2}
    Caller = alice
    WaitCap = 1
INVARIANTS
    BundlesAgree
    BundleIsCoherent
    ReplaysShareTheRound
    CallCanGoOn
PROPERTIES
    CallsReturn
