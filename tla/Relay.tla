-------------------------------- MODULE Relay --------------------------------
(***************************************************************************)
(* The relay as a whole: clients, the Controller's task store and the Host *)
(* Agent of one host, over HTTP connections and processes that fail.       *)
(*                                                                         *)
(* A report or a heartbeat is served while its sender waits: the           *)
(* Controller either never sees it, or serves it, and then the reply       *)
(* arrives or is lost.  A long poll outlives its sender: next_task holds   *)
(* it up to 25 s, and when the agent died or gave up meanwhile, the        *)
(* handler, now an orphan, still takes a task for it.                      *)
(*                                                                         *)
(* Faults (crashes, lost requests and replies, failed disk writes) are     *)
(* drawn from a budget, so that finitely many happen in a behaviour.       *)
(***************************************************************************)
EXTENDS TaskStore, HostAgent

CONSTANTS
    Self,           \* the host whose agent is modelled
    NetworkFaults,  \* bound: lost requests and replies
    AgentCrashes,   \* bound
    StoreCrashes,   \* bound: Controller restarts, planned or not, and database errors
    DiskFaults      \* bound: the execution state file cannot be written, or read

ASSUME RelayAssumption ==
    /\ Self \in Host
    /\ {NetworkFaults, AgentCrashes, StoreCrashes, DiskFaults} \subseteq Nat

VARIABLES
    orphans,   \* poll handlers whose agent is gone
    faults     \* what is left of the budget

relayVars == <<now, storeVars, agentVars, orphans, faults>>

Budget == [network |-> NetworkFaults, agent |-> AgentCrashes,
           store |-> StoreCrashes, disk |-> DiskFaults]

Calm == UNCHANGED faults
Fault(kind) == faults[kind] > 0 /\ faults' = [faults EXCEPT ![kind] = @ - 1]
Writing(written) == IF written THEN Calm ELSE Fault("disk")

RelayInit ==
    /\ Init
    /\ AgentInit
    /\ orphans = 0
    /\ faults = Budget

-----------------------------------------------------------------------------
(* Reports: POST /v1/agent/tasks/result                                    *)

\* The wire form of a pending report.  Api.body() refuses what is larger than
\* finish_task would store, so `big' is out of the agent's reach.
Posted(p) == [verdict |-> p.verdict, result |-> p.result, big |-> FALSE]

TooLarge(p) == p.result = "large"

Served(p) == ~TooLarge(p) /\ FinishTask(Self, p.task, Posted(p))

Reply(p) == IF Acknowledged(Self, p.task) /\ ~TooLarge(p) THEN "ok" ELSE "refused"

ReportMem ==
    /\ pc = "postMem"
    /\ Served(mem)
    /\ \/ PostMem(Reply(mem)) /\ Calm
       \/ PostMem("unavailable") /\ Fault("network")      \* the reply is lost
    /\ UNCHANGED <<now, orphans>>

ReportKept ==
    /\ pc = "postKept"
    /\ delivery \in Undelivered(book)
    /\ Served(KeptReport(delivery))
    /\ \/ \E written \in BOOLEAN :
             PostKept(Reply(KeptReport(delivery)), written) /\ Writing(written)
       \/ PostKept("unavailable", TRUE) /\ Fault("network")
    /\ UNCHANGED <<now, orphans>>

\* The Api refuses a body over its limit unread, before it looks at the task;
\* the agent gets the 400 or a connection that is reset under its request.
ReportTooLarge ==
    /\ \E reply \in {"refused", "unavailable"} :
          \/ pc = "postMem" /\ TooLarge(mem) /\ PostMem(reply)
          \/ /\ pc = "postKept"
             /\ delivery \in Undelivered(book) /\ TooLarge(KeptReport(delivery))
             /\ PostKept(reply, TRUE)
    /\ Calm
    /\ UNCHANGED <<now, storeVars, orphans>>

\* The Controller dies, or its database fails, while it serves a report,
\* between its two commits.
ServedInPart(p) ==
    /\ ~TooLarge(p)
    /\ \/ FinishCrash(Self, p.task, Posted(p)) /\ orphans' = 0
       \/ FinishError(Self, p.task, Posted(p)) /\ UNCHANGED orphans

ReportCut ==
    /\ \/ pc = "postMem" /\ ServedInPart(mem) /\ PostMem("unavailable")
       \/ /\ pc = "postKept"
          /\ delivery \in Undelivered(book)
          /\ ServedInPart(KeptReport(delivery))
          /\ PostKept("unavailable", TRUE)
    /\ Fault("store")
    /\ UNCHANGED now

\* A post or beat that never reaches the Controller.
RequestLost ==
    /\ PostMem("unavailable") \/ PostKept("unavailable", TRUE) \/ Beat("unavailable")
    /\ Fault("network")
    /\ UNCHANGED <<now, storeVars, orphans>>

HeartbeatServed ==
    /\ pc = "beat"
    /\ Heartbeat(Self)
    /\ \/ Beat("ok") /\ Calm
       \/ Beat("unavailable") /\ Fault("network")
    /\ UNCHANGED <<now, orphans>>

-----------------------------------------------------------------------------
(* Polls: GET /v1/agent/tasks/next                                         *)

PollServed ==
    /\ \E t \in Task :
          NextTask(Self, t) /\ PollTask([task |-> t, capability |-> request[t].capability])
    /\ Calm
    /\ UNCHANGED <<now, orphans>>

PollTimesOut ==
    /\ PollEmpty("ok")
    /\ \A t \in Task : ~QueuedFor(Self, t)
    /\ Calm
    /\ UNCHANGED <<now, storeVars, orphans>>

PollLost ==      \* the connection breaks; the handler does not notice
    /\ PollEmpty("unavailable")
    /\ Fault("network")
    /\ orphans' = orphans + 1
    /\ UNCHANGED <<now, storeVars>>

OrphanTakes ==
    /\ orphans > 0
    /\ \E t \in Task : NextTask(Self, t)
    /\ orphans' = orphans - 1
    /\ Calm
    /\ UNCHANGED <<now, agentVars>>

OrphanEnds ==
    /\ orphans > 0
    /\ \A t \in Task : ~QueuedFor(Self, t)
    /\ orphans' = orphans - 1
    /\ Calm
    /\ UNCHANGED <<now, storeVars, agentVars>>

-----------------------------------------------------------------------------
(* The rest of the agent's loop, and the processes' ends                   *)

AgentLocal ==
    /\ \/ (Start \/ Execute) /\ Calm
       \/ StartUnread /\ Fault("disk")
       \/ \E written \in BOOLEAN : Save(written) /\ Writing(written)
    /\ UNCHANGED <<now, storeVars, orphans>>

AgentCrash ==
    /\ Crash
    /\ Fault("agent")
    /\ orphans' = IF pc = "poll" THEN orphans + 1 ELSE orphans
    /\ UNCHANGED <<now, storeVars>>

\* A poll that was waiting sees its connection reset.
StoreCrash ==
    /\ Restart
    /\ Fault("store")
    /\ orphans' = 0
    /\ PollEmpty("unavailable") \/ (pc # "poll" /\ UNCHANGED agentVars)
    /\ UNCHANGED now

Clients == ClientStep /\ Calm /\ UNCHANGED <<now, agentVars, orphans>>

Passing == Tick /\ Calm /\ UNCHANGED <<storeVars, agentVars, orphans>>

RelayNext ==
    \/ ReportMem \/ ReportKept \/ ReportTooLarge \/ ReportCut \/ RequestLost
    \/ HeartbeatServed
    \/ PollServed \/ PollTimesOut \/ PollLost \/ OrphanTakes \/ OrphanEnds
    \/ AgentLocal \/ AgentCrash \/ StoreCrash
    \/ Clients \/ Passing

RelaySpec == RelayInit /\ [][RelayNext]_relayVars

\* What the code's scheduling gives.  The turn of the agent's loop is fair: its
\* requests have time-outs, its waits are bounded.  What is not fair: an
\* execution may never end (a process it leaves behind holds its pipes), an
\* agent that ended may not be started again (its unit restarts it a bounded
\* number of times), and nobody need read a task (wait_for_task of cli.py and
\* the round tools stop long before a task is overdue).  Time passes, and the
\* budget makes faults finite.
Looping == pc \notin Stopped \cup {"running"}

AgentTurn ==
    /\ Looping
    /\ \/ ReportMem \/ ReportKept \/ ReportTooLarge \/ HeartbeatServed
       \/ PollServed \/ PollTimesOut \/ AgentLocal

FairRelaySpec ==
    /\ RelaySpec
    /\ WF_relayVars(AgentTurn)
    /\ WF_relayVars(Passing)

\* GET /v1/tasks/<id>, by whoever asks.
ClientPolls(t) ==
    /\ \E reader \in Reader : ReadTask(t, reader, FALSE)
    /\ Calm /\ UNCHANGED <<now, agentVars, orphans>>

-----------------------------------------------------------------------------
(* Properties                                                              *)

RelayTypeOK ==
    /\ TypeOK /\ AgentTypeOK
    /\ orphans \in Nat
    /\ faults \in [{"network", "agent", "store", "disk"} -> Nat]

\* The agent holds a task while it executes it or owes a report of it, on
\* disk too: a restart picks that up again.
Owes(t) == (mem # NoReport /\ mem.task = t) \/ t \in Undelivered(book) \cup Undelivered(disk)
Holds(t) == (job # NoJob /\ job.task = t) \/ Owes(t)

\* The work of a task is started at most once, through lost polls, orphaned
\* handlers, crashes of either side and redelivery.
AtMostOnce == \A t \in Task : starts[t] <= 1

\* A client that reads SUCCEEDED can rely on it: the work was started on the
\* host and succeeded there.
SuccessIsEarned ==
    \A t \in Task : status[t] = "SUCCEEDED" => starts[t] = 1 /\ outcome[t] = "succeeded"

\* AGENT_INTERRUPTED is the truth: the agent that is heartbeating again
\* neither executes the task nor will ever report it.  (It rests on the
\* agent being single-threaded and posting before it beats, and on
\* HeartbeatFresh <= StaleAfter.)  Except for a record on disk that a start
\* could not read: the agent beats without it and may find it again later.
InterruptedMeansGone ==
    \A t \in Task \ unread : status[t] = "AGENT_INTERRUPTED" => ~Holds(t)

\* A kept result, in memory or on disk, is refused for its size alone: never
\* because the task was given up, reported already or lost to a restart, so
\* that redelivering it ends no agent.
KeptIsAcknowledged ==
    \A b \in {book, disk} : \A t \in Undelivered(b) :
        Reply(PayloadOf(t, b[t])) = "refused" => b[t].large

\* Wherever crashes, lost replies and refusals leave it, a turn of the agent's
\* loop has a next step once the faults are over, and a task that ran too long
\* can be read by someone, which ends it: nobody waits for what never comes.
\* (An execution may: OnlyALeftoverBlocks of Sandbox says when.)
NobodyIsStuck ==
    /\ Looping => ENABLED <<AgentTurn>>_relayVars
    /\ \A t \in Task : Stale(t) => ENABLED <<ClientPolls(t)>>_relayVars

\* The relay implements the abstract life cycle of a task.
Lifecycle == INSTANCE TaskLifecycle WITH state <- status
ImplementsLifecycle == Lifecycle!LSpec

\* What the code does not keep from happening for good: the agent is not
\* started again, an execution does not end, or the agent is refused a report
\* for its size, over and over, until its record expires.
Oversized ==
    \/ pc = "postMem" /\ TooLarge(mem)
    \/ pc = "postKept" /\ delivery \in Undelivered(book) /\ TooLarge(KeptReport(delivery))

Blocked == <>[](pc \in Stopped) \/ <>[](pc = "running") \/ []<>Oversized

\* The agent lets go of every task it takes: it reports it, or it loses it in
\* a crash, or its record expires; it never keeps retrying for ever.
AgentLetsGo ==
    (\A t \in Task : Holds(t) ~> ~Holds(t) \/ t \in unread) \/ Blocked

\* A queued task is handed out, whatever was queued before it.
QueuedIsTaken ==
    (\A t \in Task : status[t] = "QUEUED" ~> status[t] # "QUEUED") \/ Blocked

EndsIfRead(t) ==
    WF_relayVars(ClientPolls(t)) =>
        (status[t] = "RUNNING" /\ started[t] + StaleAfter < MaxTime ~> status[t] \in Terminal)

\* A task handed out ends, even one that an orphaned poll took or whose agent
\* died, if someone reads it once it can be given up and the bounded clock
\* gets that far.  (Nothing in the code reads a task for that long of itself:
\* unread, such a task stays RUNNING.)
RunningEnds == \A t \in Task : EndsIfRead(t)

-----------------------------------------------------------------------------
(* What the documentation says and the code does not do                    *)

\* README.md:34 "tasks persist in SQLite with atomic idempotency and
\* replayable results", docs/mcp.md:87 "If terminal, compiles and returns the
\* exact same structured review bundle": the result of an execution that the
\* Controller acknowledged is there to be collected (or was, until it expired).
AcknowledgedIsStored ==
    \A t \in Task : book[t] # NoEntry /\ book[t].delivered => retained[t] # "absent"

\* docs/release-notes-v0.7.0.md:31 "Tasks, execution metadata, and audit
\* records persist in SQLite": a persistent task that SUCCEEDED has its audit
\* row.
SuccessIsAudited ==
    \A t \in Task : status[t] = "SUCCEEDED" /\ IsPersistent(t) => t \in audited

\* controller.py:45 "clients receive an observation once": the observation of
\* an R0 task that SUCCEEDED is waiting for its client or has reached it.
ObservationReachesClient ==
    \A t \in Task :
        status[t] = "SUCCEEDED" /\ ~IsPersistent(t) => t \in results \/ observed[t] = 1

\* PROJECT_STATE.md:14 "bounded exponential-backoff recovery for temporary
\* Controller/network failures": such a failure never ends the agent.
RecoversFromNetworkFaults == pc # "halted"
=============================================================================
