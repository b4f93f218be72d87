# A TLA+ model of RelayMe

RelayMe lets a remote client (a command line, an MCP client) have tasks executed
on a private host: the client submits a task to the **Controller**, the **Host
Agent** of the host polls the Controller, executes the task and reports the
result, and the client collects it. This directory models the parts of that
program whose correctness depends on the order in which things happen, checks
them with TLC, and proves the main results with TLAPS. `PROJECT.json` is the
index: components, runs, mutants, the map from definitions to source lines,
findings, hazards, theorems.

## 1. Inventory

| Component | Source | State | Operations | What is hard |
|---|---|---|---|---|
| Task store | `relayme/controller.py`, `Store` | SQLite: `tasks`, `r1_idempotency`, `r1_results`, `execution_audit`, `agents.last_heartbeat`; in memory: `results` of observations | create, next, finish, read, artifact read, reviewable list, heartbeat, restart | long polls that outlive their agent, late and duplicate reports, a task given up by whoever reads it, two commits in one method, retention |
| Host agent | `relayme/agent.py`, `run`, `AgentPolicy` | in memory: pending report, known executions, undelivered ones, last heartbeat; on disk: the execution state file | post, confirm, beat, poll, execute, persist, restart | crash at any point, failing disk, lost replies, one thread for everything |
| Enrollment, registry | `Store.create_enrollment`, `enroll`, `resolve_host`; `credentials()` of the agent | SQLite: `enrollment_tokens`, `agents`; the agent's credential file | create a token, enroll, save, resolve | the one-time token is spent before the credential is saved; names need not be unique |
| Client tokens | `Store.create_client`, `revoke_clients`, `authenticate_client`, `Api`, `relayme/admin.py` | SQLite: `client_tokens`, `client_token_audit` | create, revoke, authenticate, authorize | revocation while a request is in progress; a second process that writes and can be locked out |
| MCP adapter | `adapters/mcp/server.py` | none of its own; a call's progress | `run_task`, `run_executor_round`, `collect_executor_round`, bundle | a bundle is many requests; waits |
| OAuth edge | `adapters/mcp/oauth.py` | SQLite: clients, codes, access and refresh tokens, allowlist | register, authorize, exchange, rotate, revoke, admit, edit the allowlist | several commits per request, a second process that writes |
| Remote transport | `adapters/mcp/remote.py` | none | forward the bearer token | - |
| Executor sandbox | `AgentPolicy.start_registered_executor_task`, `run_registered_task`, `_run_executor_process` | worktree, brief, output directory, container | prepare, spawn, wait, drain, remove, collect, clean up, record | clean-up on every path; what outlives a crash; processes left behind |
| Launcher | `adapters/executors/launcher.py` | the files of the output directory | run the coding agent, the tests, write the result | it is the process in the container and may fail or be killed anywhere |
| Read operations, loaders, CLI | `agent.py`, `cli.py` | none | - | - |

How they interact: clients, the MCP adapter and agents talk HTTP to the Controller's
`Api`, whose handlers call `Store` methods. All `Store` methods take one
process-wide lock, so a method is a step; the only waits are `next_task`'s
condition variable and the clients' polling loops. `admin.py` is a process of its
own that opens the same SQLite file. The agent is one thread; it starts the
processes of registered tasks and containers, and those outlive it. The MCP
adapter's tools are synchronous functions: one adapter process makes one call at
a time, but nothing limits the adapter processes that speak to a Controller, so
calls run side by side. The OAuth edge runs its handlers on one event loop and
shares its database with a command-line tool.

What makes each part correct:

* *store* - a verdict is final; a task is handed out once, oldest first; a key
  names one execution for ever; evidence exists only beside a reported verdict
  and for its whole retention; an observation is read once;
* *agent* - recorded work is not run again; a record does not change; it never
  takes new work while it owes a report; it gets rid of everything it took;
* *sandbox* - an executor task is started once, whatever crashed before; an
  execution leaves nothing behind but its output directory; that directory is
  what was reported; success needs evidence; every execution ends;
* *access* - one enrollment, one host; a hostname never leads past its agent;
  every task was permitted by a grant on the audit trail;
* *relay* - work runs at most once; SUCCEEDED means it ran and succeeded;
  AGENT_INTERRUPTED means the agent no longer has it; as long as nothing keeps
  the agent's one thread for good, every task is handed out and let go of; one
  that somebody reads when it is overdue ends;
* *round tools* - bundles are coherent, agree with each other and with the
  task; calls return;
* *OAuth edge* - a grant never forks, stays with its client and subject, ends
  when revoked; the allowlist decides at every request.

## 2. Modules

    Wire            tasks, requests, reports, time
      TaskStore       class Store: a task's life in the Controller
        ExecutorRound   the MCP round tools over the store
      HostAgent       run() and the execution records, replies as parameters
        LoneAgent       the agent against any Controller
          Sandbox         its executions in detail, with the launcher
      Relay           TaskStore and HostAgent over a failing network
    RoundTrip       Sandbox, Relay and ExecutorRound together
    TaskLifecycle   what the relay promises about one task (abstract)
    OAuthEdge       the OAuth 2.1 edge
    GrantLifecycle  what the edge promises about one authorization (abstract)
    Access          enrollment, client tokens, authorization
    TaskStoreProofs, HostAgentProofs, SandboxProofs (of LoneAgent too),
    RelayProofs, ExecutorRoundProofs, RoundTripProofs, OAuthEdgeProofs,
    AccessProofs    theorems
    MC*             small instances for TLC

`PROJECT.json` maps every definition to its lines. Definitions whose comment
begins with "Slip" are not part of the model: each is the mutated form of the
definition that follows, and shows that a property notices such a mistake.

### Wire

A request is its actor, host, capability class, target and idempotency key; the
capability classes are `observation` (R0), `registered` and `executor`. A report
is its verdict, whether its result is absent, plain or tagged with the execution
id, and whether its JSON is too large. There is one clock: clocks of different
machines are assumed not to drift. Its ticks are the seconds of `time.time()`,
scaled down.

### TaskStore

| Action | Code | Remarks |
|---|---|---|
| `CreateTask` | `create_task` | insert-or-ignore into `r1_idempotency`, then the task, in one transaction |
| `NextTask` | `next_task` when it finds a row | a poll without result changes nothing |
| `FinishTask` | `finish_task` | the oversize branches are `RecordedVerdict` and `Stored`; the early return for finished persistent tasks is `Finished` |
| `FinishCrash` | `finish_task`, the process dying after line 243 | the verdict is committed, the rest is not |
| `FinishError` | `finish_task`, the database failing after line 243 | at the result, which is lost then, or at the audit row, when the result stays in the open transaction and enters with the next commit; the Controller lives on |
| `ReadTask` | `task()` behind three routes | gives up what is too old, pops an observation, then compares the actor |
| `ReviewableTasks`, `Heartbeat`, `Restart` | `reviewable_tasks`, `heartbeat`, `__init__` | |

Every operation that calls `_expire_r1_results` applies `Swept`. `handed` and
`observed` are history variables. In this module callers are arbitrary: any
agent may poll and report anything for its host, so what holds here does not
depend on how agents behave. `CANCELLED` is in the code's `TERMINAL` but no code
sets it.

### HostAgent, LoneAgent

The loop of `run()` is a program counter: `top`, `postMem`, `postKept`, `beat`,
`poll`, `exec`, `running`, and `down` or `halted` when the process has ended. An
action takes the reply as a parameter: `ok`, `refused` (4xx, which `request`
turns into `RuntimeError` and the loop does not catch) or `unavailable`. `book`
is `_completed_executions` with expiry and delivery, `disk` the state file;
writing may fail (`written`), and so may reading it at the start: `StartUnread`
begins with an empty book and leaves the file as it is, until the next write
replaces it or a later start reads it. `unread` is history: the tasks whose
records a start could not read while they were on disk; what the code cannot
promise of them is left out of `RecordedIsNotRerun`, `RecordIsStable` and
`InterruptedMeansGone`. A report is `large` if its request body passes what the
Controller takes; `Lengthy` are the tasks whose results may be so: observations
(a file near 1 MB) and executor results, whose two escaped streams of 64 KB leave
room but whose tests and file names come on top. A refusal before anything ran (`Refuse`) covers
unregistered tasks, cooldown and the like, and may always happen. `Break` is
any other exception of an execution. The agent's unit is restarted when the
process ends: `Start` is enabled from `down` and `halted`.

`LoneAgent` lets the Controller answer anything, hand out any task again, and
refuse anything.

### Sandbox

`Sandbox` implements `LoneAgent` with the execution of `job` as a sequence of
stages. A failure at any stage leads to `cleanup` (the `finally` block), a crash
leaves everything as it is, and on disk.

| Action | Code | Remarks |
|---|---|---|
| `Elsewhere` | `run()`, observations | the loop outside of an execution |
| `Prepare` | `agent.py`, `mkdir(exist_ok=False)`, brief, base revision | an output directory that exists refuses the task |
| `AddWorktree` | `git worktree add` | a failed one may be there in part |
| `Spawn`, `CannotSpawn` | `subprocess.Popen` | from here the task counts as started |
| `ProcessEnds`, `TimeOut` | `process.wait` | the process waited for is the container's client; its death need not end the container |
| `Drain` | joining the readers, closing the pipes | blocked while a left-behind process holds them (`held`) |
| `Remove` | `podman rm -f` | exit code ignored; may time out |
| `CollectOutput` | diffs, filter, manifest | may raise after or before the filter; `rmtree(ignore_errors=True)` may leave a stray directory it cannot empty (`Remains`) |
| `CleanUp` | `finally` | may be cut short: by a tool that fails, or at once if the container has made a directory of `brief.txt`, which `unlink` cannot remove |
| `RecordEnding` | `_remember`, the exception handlers of `run()` | `FinishExecution`, `Break` or `Refuse` of `HostAgent` |
| `Dies`, `LeftoverEnds` | a crash; the end of a left-behind process | |
| `RunEngine`, `RunTests`, `WriteResult`, `LauncherFails` | `launcher.py` | the container |

A registered task goes through `wait`, `drain` and `record` only. A file is
absent, fits its limit, is too big, or (a stray) is a folder; what it says is left out, except that a
`result.json` whose fields have unexpected types makes `CollectOutput` raise. `marred`
is history: the tasks whose execution the agent died in, or whose clean-up a
failing tool or `brief.txt` cut short. The code promises nothing of those but that they are
not started again. If the configured command is the launcher itself and not
podman, `launcher` is the process that ended, and `Remove` finds nothing.

### Relay, TaskLifecycle

`Relay` conjoins actions of the two: a report is served while the agent waits
for it, and then its reply arrives or is lost; or it is never served. A long
poll is different: its handler lives up to 25 s whether or not the agent is
there, so a poll whose agent crashed or whose connection broke becomes an
*orphan*, which may still take a task. The Controller's crash ends all orphans.
Only `Self`'s agent is modelled. The Api refuses a body over 1,000,000 bytes
before it looks at anything else (`TooLarge`, `ReportTooLarge`): the agent gets a
400, or a reset connection while it is still sending, and the store is not
touched. Database errors between the two commits are drawn from the same budget as
Controller crashes (`ServedInPart`). Faults come from a budget (`faults`), so that a
behaviour has finitely many. `TaskLifecycle` is the abstract specification:
submitted, handed out, begun at most once, ended for good, SUCCEEDED only after
the work succeeded; `Relay` implements it with `state <- status`.

### ExecutorRound

A call is a sequence of requests: submit (or take an id), read the status until
it is terminal for the adapter or the deadline passes, fetch the result, then
the artifacts. Between two requests anything may happen to the store. A request
may fail, served or not. `executor_report.md` and its fallback `analysis.md` are
one request here, and of the artifacts the model keeps whether any was found.
`run_task` (the single-task tool) is the same waiting loop without a bundle.

### RoundTrip

The three parts of one round share variables: `ExecutorRound` and `Relay` the
store, `Relay` and `Sandbox` the agent. `TripSpec` is their conjunction, so a
step of the whole is one that each part allows or does not notice: a report
being served is a report in `Relay`, a step of some agent in `ExecutorRound` and a
turn of the loop in `Sandbox`; what happens in the container is noticed by
`Sandbox` alone. The clients of the whole are the tool calls. `Dispatch`, the
capability with which each task reaches the agent, is a constant: it stands for
what the calls turn out to request, and `CapabilitiesAreSettled` says that every
behaviour of the relay has a fitting one. `RoundTrip` has properties of its own,
which no part can state: they relate what a call has read to the container.

### OAuthEdge

Handlers do not await between reading the form and replying, so a `/token`
request excludes every other handler (`busy`), but it commits three times:
consuming code or refresh token, inserting the access token, inserting the
refresh token. Between two commits the CLI may edit the allowlist, time passes,
or the server dies. A request whose client, redirect URI or verifier does not
match burns the code. A challenge stands for its one verifier (S256 is
injective as far as anybody knows). `root` names the code that a token descends
from, and `cut` the grants whose live refresh token was revoked; both are
history. One `/mcp` request at a time is in progress (`serving`). Scopes are left
out: the edge stores them and enforces none. `GrantLifecycle` is the abstract
specification of one authorization: approved, exchanged once, then its right to
go on is in one place, the refresh token or the request that rotates it, until
it is gone for good. `OAuthEdge` implements it (`ImplementsGrant`) with
the approved codes and, for each, `Ways`, which reads from the three tables and
the request in progress where its right is.

### Access

| Action | Code | Remarks |
|---|---|---|
| `CreateEnrollment` | `create_enrollment` | |
| `Enroll` | `enroll`, and the agent that reads the reply or loses it | the token is deleted and the row inserted in one transaction |
| `StartAgent`, `AskInVain`, `SaveCredential`, `AgentCrash` | `credentials()` and its call in `run()` | `write_text` may leave the file cut short (`partial`), which ends every start until the operator removes the file |
| `Configure`, `RemoveFile` | the operator | external; a configuration with a spent token is allowed |
| `Heartbeat`, `LateReport` | `heartbeat`, the early return of `finish_task` | who commits what was left uncommitted |
| `RestartController` | `Store.__init__` | an open transaction is rolled back |
| `CreateClient`, `RevokeClients` | `create_client`, `revoke_clients` as `admin.py` calls them | wait for the write lock (`open`), or fail |
| `Authenticate`, `ResolveHost`, `CreateTask` | `POST /v1/tasks` | three separate acquisitions of the lock; anything may come between |

A request keeps the scope it was authenticated with, as the code does: a
revocation ends tokens, not requests in progress. `ticket` and `for` of a host's row
and `pass` of a task are history. Left out is the administrator's own token,
which the Controller is started with and which permits everything.

## 3. Runs

| Run | Instance | Shows |
|---|---|---|
| `store` | 2 tasks, 1 host, 2 clients, 3 kinds of request, 3 ticks | the seven safety properties of `TaskStore` that a run checks, under arbitrary callers |
| `sandbox` | a registered and an executor task, handed out until there were two starts, 2 ticks, records kept 1, `result.json` may be too large, the engine may leave a stray | owing, records and restarts against any Controller; one start, nothing left behind, directory and manifest, evidence, every execution ends and never gets stuck on the way |
| `access` | 2 machines of one name, 2 host ids, 2 enrollment tokens, 1 client token, scopes for all hosts and for one, life times 0 and 1, 3 ticks | one token one host, names reach their agents, tasks are authorized |
| `relay_faults` | 1 task (executor or observation, its report may be large), 3 ticks, one fault of each of four kinds | what clients read agrees with the host; nobody is stuck; `AgentLetsGo` |
| `relay_progress` | 2 rounds, the result of one may be large, 2 ticks, one network fault, one agent crash | refinement of `TaskLifecycle`, `QueuedIsTaken`, `RunningEnds` |
| `executor_round` | 2 calls, one key, 2 tasks, 2 ticks | coherent and agreeing bundles, one execution per key, calls can go on and return |
| `oauth_edge` | 2 clients, 2 subjects, 2 bearers, 1 code, 2 access and 3 refresh tokens, 2 ticks | refinement of `GrantLifecycle`; grants do not fork, end when revoked, stay with their client; admission follows the allowlist |
| `relay_late_result` | 1 round, no fault | finding: an acknowledged result can be dropped |
| `relay_split_commit` | 1 round, one Controller crash | finding: SUCCEEDED without audit row |
| `relay_refused_read` | 1 observation, 2 readers, no fault | finding: a read that returns no result uses the observation up |
| `relay_lost_reply` | 1 observation, one network fault | finding: one lost reply ends the agent |
| `round_of_lost_agent` | 1 call, 1 round | finding: a lost round is never bundled |

The bounds. Times are scaled: what matters of 300 s, 90 s and the retention
periods is which of two deadlines passes first, and every run lets each of them
pass at least once within its clock. Two tasks are enough for every property
that relates two (keys, overtaking, owing two reports), one for the others; the
one-task runs spend their states on faults instead. One fault of a kind is
enough for each single hazard; combinations of one of each kind are covered by
`relay_faults`. `sandbox` allows two starts, of one task or of both, because the
properties are about reruns and about two records; one executor task is enough because the agent
executes one job at a time and a task's files are its own; one bulky file is
enough because all are treated alike. In `access` one name for both machines is
what makes names ambiguous, and one client token is enough because no step
relates two. In `oauth_edge` three refresh tokens make two
rotations, one code is enough because grants only share `busy`; proofs cover
the rest. The sets of tasks, codes, tokens and clients are symmetric where the
run says so, and no run with symmetry checks liveness.

The runs disable no deadlock check: each system can always do something
(clients read, operators edit, processes restart). That says little about one
actor, so three runs have an invariant that says an actor's own next step is
possible wherever the others and the faults have left it: `NeverStuck` (the
agent inside an execution, unless a left-behind process holds its pipes),
`NobodyIsStuck` (a turn of the agent's loop outside of executions; the read that
gives up an overdue task) and `CallCanGoOn` (a round tool). They are statements about ENABLED, and they are what
the proofs of the liveness properties rest on. The type invariants,
and `InterruptedWasHeard` are listed in no run: they are proved.

Fairness. `FairRelaySpec` assumes weak fairness of the turn of the agent's loop
outside of executions (`AgentTurn`: every request has a time-out, a failed one is
retried with a bounded pause) and of time, and nothing else. It does not assume
that an execution ends (`OnlyALeftoverBlocks` says when it does not), nor that an
agent that ended is started again (its unit restarts it a bounded number of
times, `PROJECT_STATE.md:38`), nor that anybody reads a task: `wait_for_task` stops
at its deadline, a round after 120 s at most, `collect_executor_round` reads once,
and the give-up of a lost task exists only inside a read. The properties say
instead what they depend on. `AgentLetsGo` and `QueuedIsTaken` hold, or the agent is
`Blocked`: from some time on stopped, or in one execution, or again and again
refused a report for its size. `RunningEnds` says of each task that it ends if its
reads are fair, which is a condition in the property (`EndsIfRead`); it is stated for
tasks whose limit falls within the bounded clock. Faults are finite by their
budget, not by fairness: nothing forces a fault. `RoundSpec` assumes that the
adapter process of a call runs and that time passes, and nothing of agents.
`FairSandboxSpec` assumes weak fairness of what the agent does without waiting
for another process (`Execution`): every wait has a time-out (`TimeOut` is part of it)
except closing the pipes, which is why `Drain` needs `~held`. Nothing is assumed
of the container or of processes left behind. `AccessSpec` assumes no fairness. How
long the administrator is locked out by a transaction that `finish_task` left open
(`LateReport`) is nobody's promise: a heartbeat ends it, but an agent whose thread
is blocked sends none.

## 4. Proofs

`TaskStoreProofs` proves the type invariant and the eight safety properties of
`TaskStore` for every set of
tasks, hosts, clients and keys and every value of the time limits (the freshness
limit must not exceed the stale limit, 90 s and 300 s in the code). The argument
goes through one lemma, `StepOfTask`: whatever the step, a task stays as it is,
or is queued, handed out, reported or given up, and each of these says what
happens to its row, result, audit row and history. The inductive invariants are
small once this is known; each is defined next to its theorem.

`OAuthEdgeProofs` proves the edge's properties for all sets and life times.
`Kept` says that every token, and the request between two commits, has the
client and subject of its code; it is needed to see that a fresh code shares its
identity with nothing (`NothingBefore`). `Linear` adds that a grant counts at most
once. `Moves` says how what counts for a grant moves in a step: from code to
request, from request to refresh token and back, or away.

`HostAgentProofs` holds lemmas about the loop alone, for any replies. `LoopInv` is
the inductive strengthening of `OwesAtMostOne`: a stopped process has nothing in
memory; the book is ahead of the file (what the file holds undelivered or
unexpired is in the book); the snapshot that `run()` takes at the top of its
loop is still right when it posts; an execution under way is not in the book.
Without the second part a restart could bring back a record that the loop has
acknowledged, without the fourth a finished execution could overwrite another
record. The other lemmas say where a value comes from: a job from a poll, a
record from an execution, a report from a job. The first part of
`SandboxProofs` concludes the safety properties of `LoneAgent`, for any Controller and any number of reruns of
unrecorded tasks; it needs that a task's capability never changes
(`DispatchAssumption`).

`SandboxProofs` then shows that a step of `Sandbox` is a step of `LoneAgent` or
leaves the agent as it is (`SandboxImplementsLoneAgent`), so everything proved of
the agent is true of it with its executions in detail
(`SandboxKeepsAgentPromises`). `SandboxInv` has five parts. `StageFits` ties the
stage to the loop's program counter and to what exists of the job; `StartedOnce`
says that a task was started only if its output directory exists, and once,
except that the directory of the job at hand may be new; `Residue` says which
tasks may have something on disk or running at which stage; `TidyAllAlong` is
`OutputIsManifest` from the moment of `CollectOutput`, before there is a record;
`EvidenceAllAlong` follows a success from the launcher's good end through `ending`
to `outcome`. None of the checked properties is inductive alone: each speaks of
the end of an execution, and the strengthening says what holds in its middle.

`AccessProofs` uses `AccessInv`: `RowsArePaid` and `OneRowPerTicket` (a host's
row was paid for with a token that is gone, and by nobody else),
`CredentialsAreOwn` (also for a reply that is not yet saved),
`ProcessHasWhatItNeeds` (a running agent has a credential, so its row exists) and
`GrantsOnRecord` (a live client token, a request in progress and a task each have
the event that created their token on the audit trail, with the same scope).

`RelayProofs` first shows that each of the relay's many interleavings has one of
eight shapes (`Shape`): a step of the store beside a step of the loop. From
that, `RelayImplementsStore`: the relay's store is the one of `TaskStore`, so
everything proved there is true here (`RelayKeepsStorePromises`, and
`RelayKeepsAgentPromises` for the loop). `RelayInv` then relates the two sides:
what the agent holds, in memory, in its file or in its hands, was handed out to
it (`HoldsOnlyTaken`); work starts after the hand-out and once (`WorkedInTurn`);
every success on its way to the client, also one that only the file still
remembers, was earned (`SuccessIsEarnedAllAlong`); an agent that holds a running
task has not been heard since it took it (`HeldSinceBeat`), which is why a task
called AGENT_INTERRUPTED cannot be with it, unless as a record that a start
could not read. Even of such records `RememberedIsNotRerun` says that they do not
run again: what is remembered anywhere was handed out, and nothing is handed
out twice. The theorems hold for every number
of faults. `RelayImplementsLifecycle` is the refinement: initial states map to
initial states, and each step is, for each task, a step of `TaskLifecycle` or a
stutter.

`RoundTripProofs` puts the parts together. `RelayImplementsLoneAgent` shows that
the agent which serves this Controller is the agent that serves any, under the
condition `Dispatched` (tasks reach it with the capability they were requested
with) and if `LoneAgent`'s bound lets every task start once; with it, what `SandboxProofs` says
of `LoneAgent` and what `RelayProofs` says of the relay are about the same
agent. `TripInv` adds to the invariants of the parts what links them: a container
runs only for an executor task (`OnlyExecutorsRun`), and what was started was
dispatched with the capability in its row (`StartedAsRequested`), so that the
store's executor tasks are the sandbox's. Three theorems follow, for any faults:
a call that has read SUCCEEDED can rely on the container's good end and its files
(`SuccessReadIsTrue`); one that has read AGENT_INTERRUPTED can rely on nobody
working on the task and, unless the agent died in it or its clean-up was cut
short, on nothing of it being left (`InterruptionReadIsTrue`; a running container
has no record yet, `RecordsAreOfEndedWork`, so records that could not be read do
not matter for it); and submitting a keyed round
again starts its work at most once in all (`KeyedRoundsAreRunOnce`). Finding 2 of
section 5 costs a SUCCEEDED round its result, but, as the first says, never its truth.

Four theorems draw the line around the findings of section 5, which say what
can be lost; these say what cannot, for any number of faults:
`AcknowledgedResultIsStored` (a result is dropped only after a Controller crash or
database error, a state file that could not be written or read, or a read that
gave the task up), `SuccessHasAuditRow` (only a Controller crash or database error
costs an audit row), `FewReportsEndTheAgent` (only the report of an observation, or
one over the body limit, is refused) and `ConfirmedTasksHaveEnded` (what is no
longer redelivered has ended). They rest on `EvidenceInv`:
a job at hand has neither record nor verdict, a report without a result is a
failure of a task without a record, so what is reported and remembered is also
stored. The condition "no such fault yet" is that its budget is untouched.

`ExecutorRoundProofs` proves the safety properties of the round tools in the same
way: a call's requests are requests a client may make (`RoundImplementsStore`),
so a call's invariant (`CallInv`) need only survive what `StepOfTask` allows to
happen between two of its requests. `NotServable` is the part that is needed for
coherence: a result that was replaced or has expired never comes back, so no
artifact is found after it.

`EdgeImplementsGrants` is the refinement of `GrantLifecycle`: with `Moves` and
`Linear`, a grant's ways to go on are at most one, and every step of the edge
(each commit of a `/token` request by itself, deaths and allowlist edits
included) moves it, ends it or leaves it.

Liveness is proved as far as the prover reaches. It has no ENABLED and no
induction in temporal formulas, so each theorem names what it takes from
elsewhere as a hypothesis:

| Theorem | Property | Hypotheses | Where they come from |
|---|---|---|---|
| `HandedOutEnds` | `RunningEnds` (for each task, if its reads are fair) | `[]NobodyIsStuck`, `TimePasses` | TLC; fairness of `Passing` |
| `AgentLetsGoOfAll` | `AgentLetsGo` (or `Blocked`) | `[]NobodyIsStuck`, `FaultsEnd` | TLC; the fault budget |
| `QueuedAreTaken` | `QueuedIsTaken` (or `Blocked`) | the same, `HandOutsEnd`, `OnlyOurHost` | also: tasks are finitely many, each handed out once |
| `EveryCallReturns` | `CallsReturn` | `[]CallCanGoOn`, `TimePasses` | TLC; fairness of `Tick` |
| `ExecutionsEnd` | `OnlyALeftoverBlocks` | `[]NeverStuck` | TLC |

`TimePasses` (the clock reaches its bound), `FaultsEnd` (some fault is the last) and
`HandOutsEnd` (some hand-out is the last) each follow from the specification by
an induction over a number that moves one way between bounds; `OnlyOurHost` (all
requests are for the modelled host) is a condition on the constants, as in the
runs. What is proved is everything else: for the agent, that each step without
fault moves it on to its next poll and none moves it back (`Progress`,
`ProgressIsMade`), where an execution and a stop are places it may never leave and
the theorems then conclude `Blocked`; for a call and an execution the same over their places and stages.
The runs check the same properties from fairness alone, without hypotheses.

Assumed are the constants' assumptions in the modules: time limits are naturals,
the values that stand for absence (`NoTask`, `NoKey`, `NoJob`, `NoReport`,
`NoEntry`...) are none of the values they stand beside, and requests are well
formed.

Only model-checked: the three invariants about ENABLED (`NeverStuck`,
`NobodyIsStuck`, `CallCanGoOn`), which the prover has no rules for;
that liveness holds without the hypotheses above; and the five violations. Every
other property that a passing run checks is stated by a theorem. Only proved, with
no run: the properties of `RoundTrip`. TLC enumerates the next-state relations of
its three parts one inside the other, which takes minutes where the others take
seconds. With the conjunction written as one relation it did finish an instance
of one task, one call and two ticks without faults (255 654 states): the three
properties hold there, and a bundled SUCCEEDED round with its files is among the
states. With four ticks and a lost poll it also reaches a call that reads
AGENT_INTERRUPTED. So the theorems speak of states that exist.

## 5. Findings

Each is a run that TLC ends with a counterexample to a sentence of the
repository; `PROJECT.json` quotes the sentence.

1. A task RUNNING for more than 300 s is given up by the next read, although
   executions may be configured to run longer; the agent's later report is
   acknowledged and dropped (`controller.py:238`, `272`).
2. `finish_task` commits the verdict before result and audit row; a crash in
   between leaves SUCCEEDED without either, and the agent's redelivery is
   acknowledged and dropped (`controller.py:243`).
3. `task()` pops an observation before the caller is compared with the actor, and
   for reads that return no result (`controller.py:297`).
4. The retry of an observation's report after a lost reply is answered 409,
   which ends the agent (`controller.py:435`, `agent.py:437`).
5. The adapter does not know AGENT_LOST and AGENT_INTERRUPTED, so such a round
   is reported RUNNING for ever (`server.py:219`).

Noted without a run:

* an access token is accepted in the second it expires but not listed as active
  in it (`oauth.py:369`, `439`); tokens of a removed subject work again when the
  subject is added again before they expire;
* the time-out of an execution does not bound it: a process left behind that
  keeps the pipes open blocks the agent's only thread while it closes
  them, and with it heartbeats and all other tasks (`OnlyALeftoverBlocks` states
  the exception);
* a report whose request body passes 1,000,000 bytes is answered 400 by
  `Api.body` (`controller.py:386`) whatever its task is: an observation of that size
  ends the agent once, a kept executor result ends it at every start until its
  record expires. `finish_task` has a branch that would store a replacement for
  an oversize result (`controller.py:224`), and `tests/test_v01.py:416` calls it directly;
  no report that came over HTTP can reach it, since the body is at least as
  long as the result in it;
* a state file that cannot be read or is cut short is taken for none
  (`agent.py:70`): the agent beats while an undelivered record may be on disk, so
  AGENT_INTERRUPTED may be said of a task whose report comes with a later start;
* a lost task that nobody reads after its 300 s stays RUNNING;
* a directory that the container leaves and the agent cannot empty stays in the
  output directory (`agent.py:381`); a directory in the place of `brief.txt` makes
  the clean-up end before worktree and result are dealt with (`agent.py:393`);
* when `podman rm -f` fails, the container may go on writing into the output
  directory after its manifest was made (`marred`);
* a `result.json` with fields of unexpected types loses the result of work that
  was finished (`CollectOutput`);
* a lost reply to an enrollment leaves a row without an agent, which makes the
  hostname ambiguous from then on; a credential file cut short ends every start
  of the agent until it is removed by hand;
* `--host` of `create-client` appends to the default `["*"]`, so every token it makes
  is for all hosts; a `--ttl-seconds` of 0 makes a token that never expires.

## 6. Not modelled, and the plan

Not modelled: HTTP parsing and validation (its decisions are guards here), the
remote transport and the single-task tools of the adapter (they forward one
request, or wait like `run_executor_round`), the agent's read operations and
configuration loaders, the registration limiter, the timing of the cooldown
(being refused for it is part of `Refuse`), formatting. Of the OAuth edge, scopes
and metadata are left out. `PROJECT.json` gives the reason for each component.

The plan, in its order:

1. `Wire`, `TaskStore` and its proofs - done.
2. `HostAgent`, `LoneAgent`, `Relay`, `TaskLifecycle` - done.
3. `ExecutorRound` - done.
4. `OAuthEdge` and its proofs - done.
5. `RelayProofs`, `SandboxProofs` (its part on `LoneAgent`), `ExecutorRoundProofs` -
   done.
6. `Sandbox`: executions in detail, implementing `LoneAgent`, with the launcher
   as the process in the container - done.
7. `Access`: enrollment, credential files, hostnames, client tokens against
   requests in progress - done.
8. Smaller algorithms: cooldown, bounded capture, the registration limiter. Left
   out: each is a comparison or a counter in one thread, which a unit test
   reaches; what they decide is nondeterministic where it matters.
9. Proofs of the safety properties of 6 and 7 - done.
10. `GrantLifecycle`; liveness from named hypotheses; the limits of the findings
    - done.
11. `RoundTrip`: the parts of a round together, and the relay's agent as
    `LoneAgent` - done.
