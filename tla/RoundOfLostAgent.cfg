SPECIFICATION RoundSpec
CONSTANTS
    t1 = t1  t2 = t2  c1 = c1  c2 = c2
    h1 = h1  alice = alice  build = build  k1 = k1
    NoKey = NoKey  NoTask = NoTask
    Task = {t1}
    Host = {h1}
    Reader = {alice}
    Admin = {}
    Actor = {alice}
    Target = {build}
    Key = {k1}
    Submission <- MCSubmission
    MaxTime = 4
    StaleAfter = 1
    HeartbeatFresh = 1
    Retention = 1
    Call = {c1}
    Caller = alice
    WaitCap = 2
INVARIANTS
    TerminalIsBundled
