------------------------------- MODULE Access -------------------------------
(***************************************************************************)
(* Who may speak to the Controller: enrollment of agents with one-time     *)
(* tokens and the agents' credential files (credentials() of agent.py),    *)
(* client tokens made and revoked by another process (admin.py), and the   *)
(* path of POST /v1/tasks: authenticate, resolve the host, check the       *)
(* scope, create.  Each is a Store method under the store's lock; what     *)
(* lies between two of them is an interleaving point.                      *)
(*                                                                         *)
(* The admin process shares the SQLite file, so it is locked out while a   *)
(* method of the Controller has left a write transaction open (nothing in  *)
(* the code bounds for how long: an agent that beats ends it, but an agent *)
(* that is blocked in an execution does not beat).  Left out:              *)
(* the administrator's own token, which the Controller is started with; a  *)
(* client token whose file could not be written is one nobody presents.    *)
(***************************************************************************)
EXTENDS Integers

CONSTANTS
    Machine, Hostname,
    NameOf,      \* the hostname a machine enrolls under
    HostId,      \* the ids enroll can draw
    Ticket,      \* the enrollment tokens create_enrollment can draw
    Pass,        \* the client tokens create_client can draw
    Client,      \* identities
    Cap,         \* capability scopes: an R0 capability, run_registered_task:ID...
    Scope,       \* the scopes tokens are made with (admin.py adds "*" to its --host)
    Ttl,         \* the values of --ttl-seconds
    TicketTtl,
    LastTick,    \* bound: the clock stops here
    AnyHost, NoRow, NoTicket

Identifier == HostId \cup Hostname      \* what clients name a host by
ScopeRow == [hosts : SUBSET (HostId \cup {AnyHost}), caps : SUBSET Cap]

ASSUME NamesAssumption ==
    /\ NameOf \in [Machine -> Hostname]
    /\ HostId \cap Hostname = {}      \* nobody calls a machine by a uuid4
    /\ {"absent", "partial"} \cap HostId = {}
ASSUME ScopeAssumption == Scope \subseteq ScopeRow
ASSUME TimesAssumption == Ttl \subseteq Nat /\ TicketTtl \in Nat /\ LastTick \in Nat \ {0}

VARIABLES
    clock,     \* now()
    tickets,   \* enrollment_tokens.expires_at; 0 without a row
    drawn,     \* tickets created so far
    agents,    \* agents
    config,    \* enrollment_token in the machine's configuration
    file,      \* the machine's credential file
    proc,      \* the machine's agent process
    fresh,     \* the reply to its enrollment that is not yet saved
    passes,    \* client_tokens
    audit,     \* client_token_audit
    request,   \* the POST /v1/tasks in progress; bound: one at a time
    tasks,     \* what was created, by whom
    open       \* the Controller's connection holds a write transaction

registryVars == <<tickets, drawn, agents, config, file, proc, fresh>>
clientVars == <<passes, audit, request, tasks>>
accessVars == <<clock, registryVars, clientVars, open>>

AgentRow == [hostname : Hostname, ticket : Ticket, for : Machine]      \* `ticket', `for': history
PassRow == [client : Client, scope : Scope, expires : Nat]             \* 0 stands for NULL
Event == [event : {"CREATED", "REVOKED"}, pass : Pass, client : Client, scope : Scope]
Authenticated == [at : {"authenticated"}, pass : Pass, client : Client, scope : Scope,
                  wanted : Identifier, cap : Cap]
Resolved == [at : {"resolved"}, pass : Pass, client : Client, scope : Scope,
             host : HostId, cap : Cap]
TaskRow == [client : Client, host : HostId, cap : Cap, pass : Pass]    \* `pass': history

ASSUME NoneAssumption == NoRow \notin AgentRow \cup PassRow /\ NoTicket \notin Ticket
                         /\ AnyHost \notin HostId

Quiet == [at |-> "none"]

AccessInit ==
    /\ clock = 1
    /\ tickets = [k \in Ticket |-> 0] /\ drawn = {}
    /\ agents = [h \in HostId |-> NoRow]
    /\ config = [m \in Machine |-> NoTicket]
    /\ file = [m \in Machine |-> "absent"]
    /\ proc = [m \in Machine |-> "down"]
    /\ fresh = [m \in Machine |-> "absent"]
    /\ passes = [p \in Pass |-> NoRow] /\ audit = {}
    /\ request = Quiet /\ tasks = {}
    /\ open = FALSE

-----------------------------------------------------------------------------
(* Enrollment                                                              *)

\* An administrator asks for a token; an operator puts one into a machine's
\* configuration, perhaps one that was used.
CreateEnrollment(k) ==
    /\ k \notin drawn
    /\ drawn' = drawn \cup {k}
    /\ tickets' = [tickets EXCEPT ![k] = clock + TicketTtl]
    /\ open' = FALSE
    /\ UNCHANGED <<clock, agents, config, file, proc, fresh, clientVars>>

Configure(m, k) ==
    /\ k \in drawn
    /\ config' = [config EXCEPT ![m] = k]
    /\ UNCHANGED <<clock, tickets, drawn, agents, file, proc, fresh, clientVars, open>>

\* The head of run(): a credential file is used, without one the agent asks.
\* A file cut short is no JSON and ends every start.
StartAgent(m) ==
    /\ proc[m] = "down" /\ file[m] # "partial"
    /\ \/ file[m] = "absent" /\ config[m] # NoTicket /\ proc' = [proc EXCEPT ![m] = "asking"]
       \/ file[m] \in HostId /\ proc' = [proc EXCEPT ![m] = "running"]
    /\ UNCHANGED <<clock, tickets, drawn, agents, config, file, fresh, clientVars, open>>

TicketValid(k) == tickets[k] # 0 /\ tickets[k] >= clock

\* Slip: the token is left in the table.
EnrollAgain(m, h, arrives) ==
    /\ proc[m] = "asking" /\ TicketValid(config[m]) /\ agents[h] = NoRow
    /\ agents' = [agents EXCEPT ![h] = [hostname |-> NameOf[m], ticket |-> config[m], for |-> m]]
    /\ open' = FALSE
    /\ IF arrives
       THEN fresh' = [fresh EXCEPT ![m] = h] /\ proc' = [proc EXCEPT ![m] = "saving"]
       ELSE proc' = [proc EXCEPT ![m] = "down"] /\ UNCHANGED fresh
    /\ UNCHANGED <<clock, tickets, drawn, config, file, clientVars>>

\* Store.enroll and its reply; a lost one ends the agent process.
Enroll(m, h, arrives) ==
    /\ proc[m] = "asking" /\ TicketValid(config[m]) /\ agents[h] = NoRow
    /\ tickets' = [tickets EXCEPT ![config[m]] = 0]
    /\ agents' = [agents EXCEPT ![h] = [hostname |-> NameOf[m], ticket |-> config[m], for |-> m]]
    /\ open' = FALSE
    /\ IF arrives
       THEN fresh' = [fresh EXCEPT ![m] = h] /\ proc' = [proc EXCEPT ![m] = "saving"]
       ELSE proc' = [proc EXCEPT ![m] = "down"] /\ UNCHANGED fresh
    /\ UNCHANGED <<clock, drawn, config, file, clientVars>>

\* The request is refused (401) or does not get through: run() ends.
AskInVain(m) ==
    /\ proc[m] = "asking"
    /\ proc' = [proc EXCEPT ![m] = "down"]
    /\ UNCHANGED <<clock, tickets, drawn, agents, config, file, fresh, clientVars, open>>

\* path.write_text is not atomic: it may leave a file cut short.
SaveCredential(m) ==
    /\ proc[m] = "saving"
    /\ \/ file' = [file EXCEPT ![m] = fresh[m]] /\ proc' = [proc EXCEPT ![m] = "running"]
       \/ file' = [file EXCEPT ![m] = "partial"] /\ proc' = [proc EXCEPT ![m] = "down"]
    /\ fresh' = [fresh EXCEPT ![m] = "absent"]
    /\ UNCHANGED <<clock, tickets, drawn, agents, config, clientVars, open>>

AgentCrash(m) ==
    /\ proc[m] # "down"
    /\ proc' = [proc EXCEPT ![m] = "down"]
    /\ fresh' = [fresh EXCEPT ![m] = "absent"]
    /\ UNCHANGED <<clock, tickets, drawn, agents, config, file, clientVars, open>>

RemoveFile(m) ==      \* by hand
    /\ file[m] = "partial"
    /\ file' = [file EXCEPT ![m] = "absent"]
    /\ UNCHANGED <<clock, tickets, drawn, agents, config, proc, fresh, clientVars, open>>

-----------------------------------------------------------------------------
(* What the Controller's connection leaves behind                          *)

\* A heartbeat updates its row and commits, and with it what was left open.
Heartbeat(m) ==
    /\ proc[m] = "running"
    /\ open' = FALSE
    /\ UNCHANGED <<clock, registryVars, clientVars>>

\* The report of a task that has its verdict: finish_task expires results and
\* returns before it commits.
LateReport(m) ==
    /\ proc[m] = "running"
    /\ \E t \in tasks : t.host = file[m]
    /\ open' = TRUE
    /\ UNCHANGED <<clock, registryVars, clientVars>>

RestartController ==      \* the open transaction is rolled back
    /\ open' = FALSE
    /\ request' = Quiet
    /\ UNCHANGED <<clock, registryVars, passes, audit, tasks>>

-----------------------------------------------------------------------------
(* Client tokens: the admin process                                        *)

\* create_client; a ttl of 0 is taken for none.
CreateClient(p, c, s, ttl) ==
    /\ ~open
    /\ passes[p] = NoRow /\ ~\E e \in audit : e.pass = p
    /\ passes' = [passes EXCEPT ![p] =
           [client |-> c, scope |-> s, expires |-> IF ttl = 0 THEN 0 ELSE clock + ttl]]
    /\ audit' = audit \cup {[event |-> "CREATED", pass |-> p, client |-> c, scope |-> s]}
    /\ UNCHANGED <<clock, registryVars, request, tasks, open>>

\* revoke_clients; like any command of the admin process it ends with an error
\* while the Controller holds the write lock.
RevokeClients(c) ==
    /\ ~open
    /\ LET theirs == {p \in Pass : passes[p] # NoRow /\ passes[p].client = c} IN
         /\ audit' = audit \cup {[event |-> "REVOKED", pass |-> p, client |-> c,
                                  scope |-> passes[p].scope] : p \in theirs}
         /\ passes' = [p \in Pass |-> IF p \in theirs THEN NoRow ELSE passes[p]]
    /\ UNCHANGED <<clock, registryVars, request, tasks, open>>

-----------------------------------------------------------------------------
(* POST /v1/tasks                                                          *)

Live(p) == passes[p] # NoRow /\ (passes[p].expires = 0 \/ passes[p].expires >= clock)

Authenticate(p, wanted, cap) ==
    /\ request = Quiet
    /\ Live(p)
    /\ request' = [at |-> "authenticated", pass |-> p, client |-> passes[p].client,
                   scope |-> passes[p].scope, wanted |-> wanted, cap |-> cap]
    /\ UNCHANGED <<clock, registryVars, passes, audit, tasks, open>>

Named(name) == {h \in HostId : agents[h] # NoRow /\ agents[h].hostname = name}

\* Slip: the first row with the name is taken.
MatchesAny(id) == IF id \in HostId THEN {id} \cap {h \in HostId : agents[h] # NoRow} ELSE Named(id)

\* resolve_host: by host id, or by a hostname that only one row has.
Matches(id) ==
    IF id \in HostId THEN {id} \cap {h \in HostId : agents[h] # NoRow}
    ELSE {h \in HostId : Named(id) = {h}}

\* Slip: the scope of hosts is compared for host ids only.
AllowedByName(scope, host, cap) == cap \in scope.caps

Allowed(scope, host, cap) ==
    /\ AnyHost \in scope.hosts \/ host \in scope.hosts
    /\ cap \in scope.caps

\* An unknown or ambiguous host, or one out of scope, is answered 404, 409, 403.
ResolveHost ==
    /\ request.at = "authenticated"
    /\ \/ \E h \in Matches(request.wanted) :
            /\ Allowed(request.scope, h, request.cap)
            /\ request' = [at |-> "resolved", pass |-> request.pass, client |-> request.client,
                           scope |-> request.scope, host |-> h, cap |-> request.cap]
       \/ /\ ~\E h \in Matches(request.wanted) : Allowed(request.scope, h, request.cap)
          /\ request' = Quiet
    /\ UNCHANGED <<clock, registryVars, passes, audit, tasks, open>>

CreateTask ==
    /\ request.at = "resolved"
    /\ tasks' = tasks \cup {[client |-> request.client, host |-> request.host,
                             cap |-> request.cap, pass |-> request.pass]}
    /\ open' = FALSE
    /\ request' = Quiet
    /\ UNCHANGED <<clock, registryVars, passes, audit>>

Tick ==
    /\ clock < LastTick
    /\ clock' = clock + 1
    /\ UNCHANGED <<registryVars, clientVars, open>>

-----------------------------------------------------------------------------
AccessNext ==
    \/ \E k \in Ticket : CreateEnrollment(k) \/ \E m \in Machine : Configure(m, k)
    \/ \E m \in Machine :
         \/ StartAgent(m) \/ AskInVain(m) \/ SaveCredential(m) \/ AgentCrash(m) \/ RemoveFile(m)
         \/ Heartbeat(m) \/ LateReport(m)
         \/ \E h \in HostId, arrives \in BOOLEAN : Enroll(m, h, arrives)
    \/ RestartController
    \/ \E p \in Pass, c \in Client, s \in Scope, ttl \in Ttl : CreateClient(p, c, s, ttl)
    \/ \E c \in Client : RevokeClients(c)
    \/ \E p \in Pass, id \in Identifier, cap \in Cap : Authenticate(p, id, cap)
    \/ ResolveHost \/ CreateTask \/ Tick

AccessSpec == AccessInit /\ [][AccessNext]_accessVars

-----------------------------------------------------------------------------
AccessTypeOK ==
    /\ clock \in Nat
    /\ tickets \in [Ticket -> Nat] /\ drawn \subseteq Ticket
    /\ agents \in [HostId -> AgentRow \cup {NoRow}]
    /\ config \in [Machine -> Ticket \cup {NoTicket}]
    /\ file \in [Machine -> HostId \cup {"absent", "partial"}]
    /\ proc \in [Machine -> {"down", "asking", "saving", "running"}]
    /\ fresh \in [Machine -> HostId \cup {"absent"}]
    /\ passes \in [Pass -> PassRow \cup {NoRow}]
    /\ audit \subseteq Event
    /\ request \in Authenticated \cup Resolved \cup {Quiet}
    /\ tasks \subseteq TaskRow
    /\ open \in BOOLEAN

\* However enrollments are repeated after lost replies, crashes and copied
\* configurations, a token enrolls one host, and every credential in use is of
\* a host that was enrolled for that machine: no two machines are one host.
EnrolledOnce ==
    /\ \A h, i \in HostId : agents[h] # NoRow /\ agents[i] # NoRow
                            /\ agents[h].ticket = agents[i].ticket => h = i
    /\ \A m \in Machine : file[m] \in HostId => agents[file[m]] # NoRow /\ agents[file[m]].for = m

\* A request that names a host by its hostname never goes past an agent that
\* runs under the name: rows left by lost enrollments make the name ambiguous
\* rather than catch its tasks.
NameReachesItsAgent ==
    [][request.at = "authenticated" /\ request'.at = "resolved" /\ request.wanted \in Hostname =>
         \A m \in Machine : proc[m] = "running" /\ NameOf[m] = request.wanted =>
             file[m] = request'.host]_accessVars

\* The audit trail explains every task: its actor was given a token whose
\* scope permits the capability on the host that was resolved, though tokens
\* are revoked, expire and hosts are enrolled between the steps of a request.
TaskIsAuthorized ==
    \A t \in tasks : \E e \in audit :
        /\ e.event = "CREATED" /\ e.pass = t.pass /\ e.client = t.client
        /\ {AnyHost, t.host} \cap e.scope.hosts # {} /\ t.cap \in e.scope.caps
=============================================================================
