SPECIFICATION AccessSpec
CONSTANTS
    m1 = m1  m2 = m2  h1 = h1  h2 = h2  n1 = n1  cap1 = cap1
    AnyHost = AnyHost  NoRow = NoRow  NoTicket = NoTicket
    Machine = {m1, m2}  Hostname = {n1}  NameOf <- MCNameOf
    HostId = {h1, h2}
    Ticket = {k1, k2}
    Pass = {p1}  Client = {c1}
    Cap = {cap1}  Scope <- MCScope
    Ttl = {0, 1}  TicketTtl = 1  LastTick = 3
INVARIANTS
    EnrolledOnce
    TaskIsAuthorized
PROPERTIES
    NameReachesItsAgent
