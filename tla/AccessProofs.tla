---------------------------- MODULE AccessProofs ----------------------------
(***************************************************************************)
(* Proofs that enrollment, host names and client tokens keep what Access   *)
(* promises, for any machines, names, tokens, scopes and times.            *)
(***************************************************************************)
EXTENDS Access, TLAPS

\* The step of one machine's agent process or of its operator.
AgentStep(m) ==
    \/ StartAgent(m) \/ AskInVain(m) \/ SaveCredential(m) \/ AgentCrash(m) \/ RemoveFile(m)
    \/ Heartbeat(m) \/ LateReport(m)
    \/ \E h \in HostId, arrives \in BOOLEAN : Enroll(m, h, arrives)

\* A row in the registry was paid for with a token that is spent, and carries
\* the name of the machine that asked for it.
RowsArePaid ==
    \A h \in HostId : agents[h] # NoRow =>
        /\ agents[h].ticket \in drawn /\ tickets[agents[h].ticket] = 0
        /\ agents[h].hostname = NameOf[agents[h].for]

OneRowPerTicket ==
    \A h, i \in HostId : agents[h] # NoRow /\ agents[i] # NoRow
                         /\ agents[h].ticket = agents[i].ticket => h = i

\* A credential, on disk or on its way there, is of a row made for the machine.
CredentialsAreOwn ==
    \A m \in Machine : \A h \in {file[m], fresh[m]} \cap HostId :
        agents[h] # NoRow /\ agents[h].for = m

\* What the agent process has at hand at each point.
ProcessHasWhatItNeeds ==
    \A m \in Machine :
        /\ config[m] \in drawn \cup {NoTicket}
        /\ proc[m] = "asking" => config[m] # NoTicket
        /\ proc[m] = "saving" => fresh[m] \in HostId
        /\ proc[m] = "running" => file[m] \in HostId

\* The audit trail has the creation of the token with this client and scope.
Granted(p, c, s) == [event |-> "CREATED", pass |-> p, client |-> c, scope |-> s] \in audit

\* Tokens, the request in progress and the tasks have their grant on record.
GrantsOnRecord ==
    /\ \A p \in Pass : passes[p] # NoRow => Granted(p, passes[p].client, passes[p].scope)
    /\ request.at \in {"authenticated", "resolved"} => Granted(request.pass, request.client, request.scope)
    /\ request.at = "resolved" => Allowed(request.scope, request.host, request.cap)
    /\ \A t \in tasks : \E s \in Scope : Granted(t.pass, t.client, s) /\ Allowed(s, t.host, t.cap)

RegistryInv == RowsArePaid /\ OneRowPerTicket /\ CredentialsAreOwn /\ ProcessHasWhatItNeeds

AccessInv == AccessTypeOK /\ RegistryInv /\ GrantsOnRecord

\* The invariant holds of an empty database and machines that never enrolled.
LEMMA AccessInvInit ==
    ASSUME AccessInit
    PROVE  AccessInv
<1>1. AccessTypeOK
  BY DEF AccessInit, AccessTypeOK, Quiet
<1>2. RegistryInv
  BY NamesAssumption
     DEF AccessInit, RegistryInv, RowsArePaid, OneRowPerTicket, CredentialsAreOwn, ProcessHasWhatItNeeds
<1>3. GrantsOnRecord
  BY DEF AccessInit, GrantsOnRecord, Quiet
<1> QED BY <1>1, <1>2, <1>3 DEF AccessInv

\* A step is one of a machine or of the Controller and its clients.
LEMMA AccessStepKinds ==
    ASSUME [AccessNext]_accessVars
    PROVE  \/ \E k \in Ticket : CreateEnrollment(k) \/ \E m \in Machine : Configure(m, k)
           \/ \E m \in Machine : AgentStep(m)
           \/ RestartController
           \/ \E p \in Pass, c \in Client, s \in Scope, ttl \in Ttl : CreateClient(p, c, s, ttl)
           \/ \E c \in Client : RevokeClients(c)
           \/ \E p \in Pass, id \in Identifier, cap \in Cap : Authenticate(p, id, cap)
           \/ ResolveHost \/ CreateTask \/ Tick \/ UNCHANGED accessVars
BY DEF AccessNext, AgentStep

-----------------------------------------------------------------------------
(* Types                                                                   *)

\* Enrolling adds a row of the machine that asks, under a token.
LEMMA EnrollType ==
    ASSUME AccessInv, NEW m \in Machine, NEW h \in HostId, NEW arrives \in BOOLEAN, Enroll(m, h, arrives)
    PROVE  /\ config[m] \in Ticket /\ config[m] \in drawn /\ tickets[config[m]] # 0 /\ agents[h] = NoRow
           /\ [hostname |-> NameOf[m], ticket |-> config[m], for |-> m] \in AgentRow
           /\ AccessTypeOK'
<1>1. config[m] \in Ticket /\ config[m] \in drawn
  BY DEF AccessInv, AccessTypeOK, RegistryInv, ProcessHasWhatItNeeds, Enroll
<1>2. [hostname |-> NameOf[m], ticket |-> config[m], for |-> m] \in AgentRow
  BY <1>1, NamesAssumption DEF AgentRow
<1>3. tickets[config[m]] # 0 /\ agents[h] = NoRow
  BY DEF Enroll, TicketValid
<1>4. AccessTypeOK'
  BY <1>1, <1>2 DEF AccessInv, AccessTypeOK, Enroll, clientVars
<1> QED BY <1>1, <1>2, <1>3, <1>4

\* The variables of Access stay well typed.
LEMMA AccessTypeStep ==
    ASSUME AccessInv, [AccessNext]_accessVars
    PROVE  AccessTypeOK'
<1>i. AccessTypeOK
  BY DEF AccessInv
<1> USE DEF AccessTypeOK, registryVars, clientVars
<1>1. ASSUME NEW k \in Ticket, CreateEnrollment(k)
      PROVE  AccessTypeOK'
  <2>1. clock + TicketTtl \in Nat
    BY <1>i, TimesAssumption
  <2>2. tickets' \in [Ticket -> Nat] /\ drawn' \subseteq Ticket
    BY <1>i, <1>1, <2>1 DEF CreateEnrollment
  <2> QED BY <1>i, <1>1, <2>2 DEF CreateEnrollment
<1>2. ASSUME NEW k \in Ticket, NEW m \in Machine, Configure(m, k)
      PROVE  AccessTypeOK'
  BY <1>i, <1>2 DEF Configure
<1>3. ASSUME NEW m \in Machine, AgentStep(m)
      PROVE  AccessTypeOK'
  <2>1. CASE StartAgent(m) \/ AskInVain(m) \/ AgentCrash(m)
    BY <1>i, <2>1 DEF StartAgent, AskInVain, AgentCrash
  <2>2. CASE SaveCredential(m) \/ RemoveFile(m)
    BY <1>i, <2>2 DEF SaveCredential, RemoveFile
  <2>3. CASE Heartbeat(m) \/ LateReport(m)
    BY <1>i, <2>3 DEF Heartbeat, LateReport
  <2>4. CASE \E h \in HostId, arrives \in BOOLEAN : Enroll(m, h, arrives)
    BY <2>4, EnrollType
  <2> QED BY <1>3, <2>1, <2>2, <2>3, <2>4 DEF AgentStep
<1>4. CASE RestartController
  BY <1>i, <1>4 DEF RestartController
<1>t. CASE Tick
  BY <1>i, <1>t DEF Tick
<1>5. ASSUME NEW p \in Pass, NEW c \in Client, NEW s \in Scope, NEW ttl \in Ttl, CreateClient(p, c, s, ttl)
      PROVE  AccessTypeOK'
  <2>1. [client |-> c, scope |-> s, expires |-> IF ttl = 0 THEN 0 ELSE clock + ttl] \in PassRow
    BY <1>i, TimesAssumption DEF PassRow
  <2>2. [event |-> "CREATED", pass |-> p, client |-> c, scope |-> s] \in Event
    BY DEF Event
  <2> QED BY <1>i, <1>5, <2>1, <2>2 DEF CreateClient
<1>6. ASSUME NEW c \in Client, RevokeClients(c)
      PROVE  AccessTypeOK'
  <2>1. passes' \in [Pass -> PassRow \cup {NoRow}]
    BY <1>i, <1>6 DEF RevokeClients
  <2>2. audit' \subseteq Event
    <3>1. \A p \in Pass : passes[p] # NoRow => passes[p].scope \in Scope
      BY <1>i DEF PassRow
    <3> QED BY <1>i, <1>6, <3>1 DEF RevokeClients, Event
  <2> QED BY <1>i, <1>6, <2>1, <2>2 DEF RevokeClients
<1>7. ASSUME NEW p \in Pass, NEW id \in Identifier, NEW cap \in Cap, Authenticate(p, id, cap)
      PROVE  AccessTypeOK'
  <2>1. passes[p] \in PassRow
    BY <1>i, <1>7 DEF Authenticate, Live
  <2>2. request' \in Authenticated
    BY <1>7, <2>1 DEF Authenticate, Authenticated, PassRow
  <2> QED BY <1>i, <1>7, <2>2 DEF Authenticate
<1>8. CASE ResolveHost
  <2>1. request \in Authenticated
    BY <1>i, <1>8 DEF ResolveHost, Resolved, Quiet
  <2>2. \A id \in Identifier : Matches(id) \subseteq HostId
    BY DEF Matches
  <2>3. request' \in Resolved \cup {Quiet}
    BY <1>8, <2>1, <2>2 DEF ResolveHost, Authenticated, Resolved
  <2> QED BY <1>i, <1>8, <2>3 DEF ResolveHost
<1>9. CASE CreateTask
  <2>1. request \in Resolved
    BY <1>i, <1>9 DEF CreateTask, Authenticated, Quiet
  <2>2. [client |-> request.client, host |-> request.host, cap |-> request.cap, pass |-> request.pass]
            \in TaskRow
    BY <2>1 DEF Resolved, TaskRow
  <2> QED BY <1>i, <1>9, <2>2 DEF CreateTask
<1>10. CASE UNCHANGED accessVars
  BY <1>i, <1>10 DEF accessVars
<1> QED BY <1>1, <1>2, <1>3, <1>4, <1>t, <1>5, <1>6, <1>7, <1>8, <1>9, <1>10, AccessStepKinds

-----------------------------------------------------------------------------
(* The registry                                                            *)

\* No step makes two hosts of a token or gives a machine another's credential.
LEMMA RegistryStep ==
    ASSUME AccessInv, [AccessNext]_accessVars
    PROVE  RegistryInv'
<1> USE DEF RegistryInv, RowsArePaid, OneRowPerTicket, CredentialsAreOwn, ProcessHasWhatItNeeds
<1>i. RegistryInv /\ AccessTypeOK
  BY DEF AccessInv
<1>t. /\ agents \in [HostId -> AgentRow \cup {NoRow}] /\ tickets \in [Ticket -> Nat]
      /\ config \in [Machine -> Ticket \cup {NoTicket}]
      /\ file \in [Machine -> HostId \cup {"absent", "partial"}]
      /\ fresh \in [Machine -> HostId \cup {"absent"}]
      /\ proc \in [Machine -> {"down", "asking", "saving", "running"}]
      /\ "absent" \notin HostId /\ "partial" \notin HostId
  BY <1>i, NamesAssumption DEF AccessTypeOK
<1>1. ASSUME NEW k \in Ticket, CreateEnrollment(k)
      PROVE  RegistryInv'
  BY <1>i, <1>t, <1>1, NoneAssumption DEF CreateEnrollment, AgentRow
<1>2. ASSUME NEW k \in Ticket, NEW m \in Machine, Configure(m, k)
      PROVE  RegistryInv'
  BY <1>i, <1>t, <1>2, NoneAssumption DEF Configure
<1>3. ASSUME NEW m \in Machine, AgentStep(m)
      PROVE  RegistryInv'
  <2>1. CASE StartAgent(m)
    BY <1>i, <1>t, <2>1 DEF StartAgent
  <2>2. CASE AskInVain(m) \/ AgentCrash(m)
    BY <1>i, <1>t, <2>2 DEF AskInVain, AgentCrash
  <2>3. CASE SaveCredential(m)
    BY <1>i, <1>t, <2>3 DEF SaveCredential
  <2>4. CASE RemoveFile(m)
    BY <1>i, <1>t, <2>4 DEF RemoveFile
  <2>5. CASE Heartbeat(m) \/ LateReport(m)
    BY <1>i, <2>5 DEF Heartbeat, LateReport, registryVars
  <2>6. ASSUME NEW h \in HostId, NEW arrives \in BOOLEAN, Enroll(m, h, arrives)
        PROVE  RegistryInv'
    <3>0. /\ config[m] \in Ticket /\ config[m] \in drawn /\ tickets[config[m]] # 0 /\ agents[h] = NoRow
          /\ [hostname |-> NameOf[m], ticket |-> config[m], for |-> m] # NoRow
      BY <2>6, EnrollType, NoneAssumption
    <3>1. /\ agents' = [agents EXCEPT ![h] = [hostname |-> NameOf[m], ticket |-> config[m], for |-> m]]
          /\ tickets' = [tickets EXCEPT ![config[m]] = 0]
          /\ UNCHANGED <<drawn, config, file>>
      BY <2>6 DEF Enroll
    <3>2. \/ fresh' = [fresh EXCEPT ![m] = h] /\ proc' = [proc EXCEPT ![m] = "saving"]
          \/ fresh' = fresh /\ proc' = [proc EXCEPT ![m] = "down"]
      BY <2>6 DEF Enroll
    <3>3. \A i \in HostId : agents[i] # NoRow => i # h /\ agents'[i] = agents[i] /\ agents[i].ticket # config[m]
                                                 /\ agents[i].ticket \in Ticket
      BY <1>i, <1>t, <3>0, <3>1 DEF AgentRow
    <3>4. agents'[h] = [hostname |-> NameOf[m], ticket |-> config[m], for |-> m] /\ agents'[h] # NoRow
          /\ \A i \in HostId \ {h} : agents'[i] = agents[i]
      BY <1>t, <3>0, <3>1
    <3>5. RowsArePaid'
      BY <1>i, <1>t, <3>0, <3>1, <3>3, <3>4
    <3>6. OneRowPerTicket'
      BY <1>i, <3>3, <3>4
    <3>7. CredentialsAreOwn'
      BY <1>i, <1>t, <3>1, <3>2, <3>3, <3>4
    <3>8. ProcessHasWhatItNeeds'
      BY <1>i, <1>t, <3>1, <3>2
    <3> QED BY <3>5, <3>6, <3>7, <3>8
  <2> QED BY <1>3, <2>1, <2>2, <2>3, <2>4, <2>5, <2>6 DEF AgentStep
<1>4. CASE \/ RestartController \/ ResolveHost \/ CreateTask \/ Tick \/ UNCHANGED accessVars
           \/ \E p \in Pass, c \in Client, s \in Scope, ttl \in Ttl : CreateClient(p, c, s, ttl)
           \/ \E c \in Client : RevokeClients(c)
           \/ \E p \in Pass, id \in Identifier, cap \in Cap : Authenticate(p, id, cap)
  <2>1. UNCHANGED registryVars
    BY <1>4 DEF RestartController, ResolveHost, CreateTask, Tick, accessVars, CreateClient, RevokeClients,
       Authenticate
  <2> QED BY <1>i, <2>1 DEF registryVars
<1> QED BY <1>1, <1>2, <1>3, <1>4, AccessStepKinds

-----------------------------------------------------------------------------
(* Client tokens and tasks                                                 *)

\* Every step that passes a grant on keeps it on record, and none removes one.
LEMMA GrantsStep ==
    ASSUME AccessInv, [AccessNext]_accessVars
    PROVE  GrantsOnRecord'
<1> USE DEF GrantsOnRecord, Granted, Allowed
<1>i. GrantsOnRecord /\ AccessTypeOK
  BY DEF AccessInv
<1>t. /\ passes \in [Pass -> PassRow \cup {NoRow}] /\ NoRow \notin PassRow
      /\ request \in Authenticated \cup Resolved \cup {Quiet}
  BY <1>i, NoneAssumption DEF AccessTypeOK
<1>1. ASSUME NEW p \in Pass, NEW c \in Client, NEW s \in Scope, NEW ttl \in Ttl, CreateClient(p, c, s, ttl)
      PROVE  GrantsOnRecord'
  <2>1. audit \subseteq audit' /\ Granted(p, c, s)' /\ UNCHANGED <<request, tasks>>
    BY <1>1 DEF CreateClient
  <2>2. passes'[p].client = c /\ passes'[p].scope = s /\ \A q \in Pass \ {p} : passes'[q] = passes[q]
    BY <1>1, <1>t DEF CreateClient
  <2> QED BY <1>i, <2>1, <2>2
<1>2. ASSUME NEW c \in Client, RevokeClients(c)
      PROVE  GrantsOnRecord'
  <2>1. audit \subseteq audit' /\ UNCHANGED <<request, tasks>>
    BY <1>2 DEF RevokeClients
  <2>2. \A p \in Pass : passes'[p] = NoRow \/ passes'[p] = passes[p]
    BY <1>2 DEF RevokeClients
  <2> QED BY <1>i, <2>1, <2>2
<1>3. ASSUME NEW p \in Pass, NEW id \in Identifier, NEW cap \in Cap, Authenticate(p, id, cap)
      PROVE  GrantsOnRecord'
  BY <1>i, <1>3 DEF Authenticate, Live
<1>4. CASE ResolveHost
  BY <1>i, <1>4 DEF ResolveHost, Quiet
<1>5. CASE CreateTask
  <2>1. request \in Resolved /\ request.scope \in Scope
    BY <1>5, <1>t DEF CreateTask, Authenticated, Resolved, Quiet
  <2>2. UNCHANGED <<passes, audit>> /\ request' = Quiet
        /\ tasks' = tasks \cup {[client |-> request.client, host |-> request.host,
                                 cap |-> request.cap, pass |-> request.pass]}
    BY <1>5 DEF CreateTask
  <2>3. Granted(request.pass, request.client, request.scope)
        /\ Allowed(request.scope, request.host, request.cap)
    BY <1>i, <1>5 DEF CreateTask
  <2> QED BY <1>i, <2>1, <2>2, <2>3 DEF Quiet
<1>6. CASE RestartController
  BY <1>i, <1>6 DEF RestartController, Quiet
<1>7. CASE UNCHANGED clientVars
  BY <1>i, <1>7 DEF clientVars
<1>8. ASSUME NEW m \in Machine, AgentStep(m)
      PROVE  UNCHANGED clientVars
  BY <1>8 DEF AgentStep, StartAgent, AskInVain, SaveCredential, AgentCrash, RemoveFile, Heartbeat,
     LateReport, Enroll
<1>9. ASSUME NEW k \in Ticket, CreateEnrollment(k) \/ \E m \in Machine : Configure(m, k)
      PROVE  UNCHANGED clientVars
  BY <1>9 DEF CreateEnrollment, Configure
<1>10. Tick \/ UNCHANGED accessVars => UNCHANGED clientVars
  BY DEF Tick, accessVars
<1> QED BY <1>1, <1>2, <1>3, <1>4, <1>5, <1>6, <1>7, <1>8, <1>9, <1>10, AccessStepKinds

-----------------------------------------------------------------------------
(* The theorems                                                            *)

\* The inductive invariant: rows, credentials and grants account for each other.
THEOREM AccessInvariant == AccessSpec => []AccessInv
<1>1. AccessInv /\ [AccessNext]_accessVars => AccessInv'
  BY AccessTypeStep, RegistryStep, GrantsStep DEF AccessInv
<1> QED BY AccessInvInit, <1>1, PTL DEF AccessSpec

\* The variables of Access stay well typed.
THEOREM AccessTypeCorrect == AccessSpec => []AccessTypeOK
<1>1. AccessInv => AccessTypeOK
  BY DEF AccessInv
<1> QED BY AccessInvariant, <1>1, PTL

\* A token enrolls one host and a credential is of a host enrolled for the
\* machine that holds it, however enrollments are lost and repeated.
THEOREM MachinesAreEnrolledOnce == AccessSpec => []EnrolledOnce
<1>1. AccessInv => EnrolledOnce
  BY DEF AccessInv, RegistryInv, OneRowPerTicket, CredentialsAreOwn, EnrolledOnce
<1> QED BY AccessInvariant, <1>1, PTL

\* A request by hostname never goes past an agent that runs under the name.
THEOREM NamesReachTheirAgents == AccessSpec => NameReachesItsAgent
<1>1. ASSUME AccessInv, [AccessNext]_accessVars,
             request.at = "authenticated", request'.at = "resolved", request.wanted \in Hostname,
             NEW m \in Machine, proc[m] = "running", NameOf[m] = request.wanted
      PROVE  file[m] = request'.host
  <2>1. ResolveHost
    <3>1. request' # request /\ request' # Quiet
      BY <1>1 DEF Quiet
    <3>2. \A k \in Ticket : ~(CreateEnrollment(k) \/ \E n \in Machine : Configure(n, k))
      BY <3>1 DEF CreateEnrollment, Configure, clientVars
    <3>3. \A n \in Machine : ~AgentStep(n)
      BY <3>1 DEF AgentStep, StartAgent, AskInVain, SaveCredential, AgentCrash, RemoveFile, Heartbeat,
         LateReport, Enroll, clientVars
    <3>4. ~RestartController /\ ~CreateTask /\ ~Tick /\ ~UNCHANGED accessVars
      BY <3>1 DEF RestartController, CreateTask, Tick, accessVars, clientVars
    <3>5. /\ \A p \in Pass, c \in Client, s \in Scope, ttl \in Ttl : ~CreateClient(p, c, s, ttl)
          /\ \A c \in Client : ~RevokeClients(c)
      BY <3>1 DEF CreateClient, RevokeClients
    <3>6. \A p \in Pass, id \in Identifier, cap \in Cap : ~Authenticate(p, id, cap)
      BY <1>1 DEF Authenticate, Quiet
    <3> QED BY <1>1, <3>2, <3>3, <3>4, <3>5, <3>6, AccessStepKinds
  <2>2. request'.host \in Matches(request.wanted)
    BY <1>1, <2>1 DEF ResolveHost, Quiet
  <2>3. request.wanted \notin HostId
    BY <1>1, NamesAssumption
  <2>4. Named(request.wanted) = {request'.host}
    BY <2>2, <2>3 DEF Matches
  <2>5. file[m] \in HostId /\ agents[file[m]] # NoRow /\ agents[file[m]].for = m
    BY <1>1 DEF AccessInv, RegistryInv, ProcessHasWhatItNeeds, CredentialsAreOwn
  <2>6. agents[file[m]].hostname = request.wanted
    BY <1>1, <2>5 DEF AccessInv, RegistryInv, RowsArePaid
  <2>7. file[m] \in Named(request.wanted)
    BY <2>5, <2>6 DEF Named
  <2> QED BY <2>4, <2>7
<1>2. AccessInv /\ [AccessNext]_accessVars =>
        [request.at = "authenticated" /\ request'.at = "resolved" /\ request.wanted \in Hostname =>
           \A m \in Machine : proc[m] = "running" /\ NameOf[m] = request.wanted =>
               file[m] = request'.host]_accessVars
  BY <1>1
<1> QED BY AccessInvariant, <1>2, PTL DEF AccessSpec, NameReachesItsAgent

\* The audit trail explains every task, whatever was revoked, expired or
\* enrolled between the steps of its request.
THEOREM TasksAreAuthorized == AccessSpec => []TaskIsAuthorized
<1>1. AccessInv => TaskIsAuthorized
  <2> SUFFICES ASSUME AccessInv, NEW t \in tasks
               PROVE  \E e \in audit :
                          /\ e.event = "CREATED" /\ e.pass = t.pass /\ e.client = t.client
                          /\ {AnyHost, t.host} \cap e.scope.hosts # {} /\ t.cap \in e.scope.caps
    BY DEF TaskIsAuthorized
  <2>1. PICK s \in Scope : Granted(t.pass, t.client, s) /\ Allowed(s, t.host, t.cap)
    BY DEF AccessInv, GrantsOnRecord
  <2> DEFINE e == [event |-> "CREATED", pass |-> t.pass, client |-> t.client, scope |-> s]
  <2>2. e \in audit
    BY <2>1 DEF Granted
  <2>3. {AnyHost, t.host} \cap e.scope.hosts # {} /\ t.cap \in e.scope.caps
    BY <2>1 DEF Allowed
  <2> QED BY <2>2, <2>3
<1> QED BY AccessInvariant, <1>1, PTL
=============================================================================
