SPECIFICATION EdgeSpec
CONSTANTS
    Client = {c1, c2}
    Redirect = {u1}
    Verifier = {v1, v2}
    Sub = {s1, s2}
    Bearer = {b1, b2}
    Code = {k1}
    Access = {a1, a2}
    Refresh = {r1, r2, r3}
    CodeTtl = 1
    AccessTtl = 1
    RefreshTtl = 1
    LastTick = 2
    NoEntry = NoEntry  NoRow = NoRow  Idle = Idle  NoRequest = NoRequest
SYMMETRY MCSymmetry
INVARIANTS
    GrantNeverForks
    RevocationEndsGrant
    TokensStayWithTheirClient
PROPERTIES
    ImplementsGrant
    AdmittedAsApproved
