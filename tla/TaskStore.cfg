SPECIFICATION Spec
CONSTANTS
    t1 = t1  t2 = t2
    h1 = h1
    alice = alice  bob = bob
    build = build  k1 = k1
    NoKey = NoKey  NoTask = NoTask
    Task = {t1, t2}
    Host = {h1}
    Reader = {alice, bob}
    Admin = {}
    Actor = {alice, bob}
    Target = {build}
    Key = {k1}
    Submission <- MCSubmission
    MaxTime = 3
    StaleAfter = 1
    HeartbeatFresh = 1
    Retention = 1
SYMMETRY MCSymmetry
INVARIANTS
    HandedOnce
    OneTaskPerKey
    EvidenceHasVerdict
    ObservedOnce
    NoOvertaking
PROPERTIES
    TerminalStable
    RetainedForItsTime
