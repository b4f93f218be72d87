------------------------------ MODULE HostAgent ------------------------------
(***************************************************************************)
(* One Host Agent process: run() of relayme/agent.py and the execution     *)
(* records of AgentPolicy.  The agent is a single thread: each turn of its *)
(* loop posts what is pending, beats if due, polls for one task and        *)
(* executes it.  Actions take the Controller's reply as a parameter:       *)
(*     "ok"           a 2xx reply arrived                                  *)
(*     "refused"      a 4xx reply arrived: RuntimeError ends the process   *)
(*     "unavailable"  5xx or no reply: ControllerUnavailable, back off,    *)
(*                    next turn of the loop                                *)
(* and `written' says whether writing the execution state file succeeded.  *)
(* A "large" report is one whose request body the Controller does not take *)
(* (Api.body): more than 1,000,000 bytes, whatever is in it.               *)
(***************************************************************************)
EXTENDS Wire

CONSTANTS
    KeepFor,      \* execution_result_retention_seconds
    BeatEvery,    \* 30 s between heartbeats
    Lengthy,      \* the tasks whose results may make a large report
    NoEntry, NoReport, NoJob

ASSUME AgentTimesAssumption == KeepFor \in Nat \ {0} /\ BeatEvery \in Nat
ASSUME LengthyAssumption == Lengthy \subseteq Task

VARIABLES
    pc,        \* where the loop is; "down" before a start, "halted" after RuntimeError
    job,       \* the task the last poll returned
    mem,       \* pending_result
    delivery,  \* pending_r1[0] as snapshot at the top of the loop
    book,      \* _completed_executions, _execution_expiry and _pending_delivery
    disk,      \* the execution state file
    lastBeat,  \* last_heartbeat (local)
    starts,    \* history: how often the task's work was started
    outcome,   \* history: how that work ended
    unread     \* history: tasks whose record a start could not read, while it is on disk

agentVars == <<pc, job, mem, delivery, book, disk, lastBeat, starts, outcome, unread>>
bookVars == <<book, disk>>
historyVars == <<starts, outcome, unread>>

Stopped == {"down", "halted"}
Place == Stopped \cup {"top", "postMem", "postKept", "beat", "poll", "exec", "running"}
Job == [task: Task, capability: Capability]
Pending == [task: Task, verdict: Verdict, result: {"none", "plain", "tagged", "large"}]
Entry == [state: {"succeeded", "failed"}, expires: Nat, delivered: BOOLEAN, large: BOOLEAN]
Outcome == {"none", "succeeded", "failed"}

ASSUME AbsenceAssumption == NoJob \notin Job /\ NoReport \notin Pending /\ NoEntry \notin Entry

\* Slip: a result that exists is a success.
VerdictOfAny(state) == "SUCCEEDED"

VerdictOf(state) == IF state = "succeeded" THEN "SUCCEEDED" ELSE "FAILED"

OnDisk(d) == {t \in Task : d[t] # NoEntry}
Undelivered(b) == {t \in Task : b[t] # NoEntry /\ ~b[t].delivered}

\* What _load_execution_state keeps and _persist_execution_state writes.
Current(b) == [t \in Task |-> IF b[t] # NoEntry /\ b[t].expires > now THEN b[t] ELSE NoEntry]

Carried(e) == IF e.large THEN "large" ELSE "tagged"

\* The payload that pending_delivery_payloads makes of an entry.
PayloadOf(t, e) == [task |-> t, verdict |-> VerdictOf(e.state), result |-> Carried(e)]
KeptReport(t) == PayloadOf(t, book[t])

AgentInit ==
    /\ pc = "down"
    /\ job = NoJob
    /\ mem = NoReport
    /\ delivery = NoTask
    /\ book = [t \in Task |-> NoEntry]
    /\ disk = [t \in Task |-> NoEntry]
    /\ lastBeat = 0
    /\ starts = [t \in Task |-> 0]
    /\ outcome = [t \in Task |-> "none"]
    /\ unread = {}

\* The process ends: whatever it held in memory is gone.
Die(how) ==
    /\ pc' = how
    /\ job' = NoJob
    /\ mem' = NoReport
    /\ delivery' = NoTask
    /\ book' = [t \in Task |-> NoEntry]
    /\ lastBeat' = 0

\* Slip: the delivered flag is not read back.
StartForgetful ==
    /\ pc \in Stopped
    /\ book' = [t \in Task |-> IF Current(disk)[t] = NoEntry THEN NoEntry
                               ELSE [Current(disk)[t] EXCEPT !.delivered = FALSE]]
    /\ disk' = book'
    /\ unread' = unread \cap OnDisk(disk')
    /\ lastBeat' \in {0, now}
    /\ pc' = "top"
    /\ UNCHANGED <<job, mem, delivery, starts, outcome>>

\* AgentPolicy.__init__ and the head of run(), when the execution state file
\* can be read or there is none.  A write that fails ends the start.
\* last_heartbeat = 0.0 is compared with the host's uptime, so the first beat
\* is due at once unless the host has just booted.
Start ==
    /\ pc \in Stopped
    /\ book' = Current(disk)
    /\ disk' = Current(disk)
    /\ unread' = unread \cap OnDisk(Current(disk))
    /\ lastBeat' \in {0, now}
    /\ pc' = "top"
    /\ UNCHANGED <<job, mem, delivery, starts, outcome>>

\* The same when it cannot be read or is no JSON: the agent starts without
\* its records, and leaves the file alone until it next writes it.
StartUnread ==
    /\ pc \in Stopped
    /\ unread' = OnDisk(disk)
    /\ lastBeat' \in {0, now}
    /\ pc' = "top"
    /\ UNCHANGED <<job, mem, delivery, bookVars, starts, outcome>>

Crash ==
    /\ pc \notin Stopped
    /\ Die("down")
    /\ UNCHANGED <<disk, historyVars>>

-----------------------------------------------------------------------------
(* The turn of the loop                                                    *)

BeatDue == now - lastBeat >= BeatEvery
AfterPosts == IF BeatDue THEN "beat" ELSE "poll"
AfterMem(d) == IF d # NoTask THEN "postKept" ELSE AfterPosts

\* pending_delivery_payloads drops what expired (and writes the file) before
\* it lists what is undelivered; an unwritable file ends the process.
DropExpired ==
    /\ book' = Current(book)
    /\ disk' = IF Current(book) # book THEN Current(book) ELSE disk

CannotDrop == Current(book) # book /\ Die("down") /\ UNCHANGED disk

\* Slip: the heartbeat is moved to the head of the loop.
TopBeatsFirst(written) ==
    /\ pc = "top"
    /\ DropExpired
    /\ \/ delivery' \in Undelivered(Current(book))
       \/ Undelivered(Current(book)) = {} /\ delivery' = NoTask
    /\ pc' = IF BeatDue THEN "beat"
             ELSE IF mem # NoReport THEN "postMem" ELSE AfterMem(delivery')
    /\ UNCHANGED <<job, mem, lastBeat, historyVars>>

Top(written) ==
    /\ pc = "top"
    /\ \/ /\ written
          /\ DropExpired
          /\ \/ delivery' \in Undelivered(Current(book))
             \/ Undelivered(Current(book)) = {} /\ delivery' = NoTask
          /\ pc' = IF mem # NoReport THEN "postMem" ELSE AfterMem(delivery')
          /\ UNCHANGED <<job, mem, lastBeat>>
       \/ ~written /\ CannotDrop
    /\ UNCHANGED historyVars

\* Slip: after a failed post the loop goes on to poll.
PostMemGoesOn(reply) ==
    /\ pc = "postMem"
    /\ \/ reply = "ok" /\ mem' = NoReport /\ UNCHANGED <<job, delivery, book, lastBeat>>
       \/ reply = "unavailable" /\ UNCHANGED <<job, mem, delivery, book, lastBeat>>
    /\ pc' = AfterMem(delivery)
    /\ UNCHANGED <<disk, historyVars>>

PostMem(reply) ==
    /\ pc = "postMem"
    /\ \/ /\ reply = "ok"
          /\ mem' = NoReport
          /\ pc' = AfterMem(delivery)
          /\ UNCHANGED <<job, delivery, book, lastBeat>>
       \/ /\ reply = "unavailable"
          /\ pc' = "top"
          /\ UNCHANGED <<job, mem, delivery, book, lastBeat>>
       \/ reply = "refused" /\ Die("halted")
    /\ UNCHANGED <<disk, historyVars>>

\* Slip: the confirmation is not recorded.
ConfirmedNot(t) == Current(book)

\* mark_delivery_confirmed
Confirmed(t) == Current([book EXCEPT ![t].delivered = TRUE])

PostKept(reply, written) ==
    /\ pc = "postKept"
    /\ \/ /\ reply = "ok"
          /\ delivery \in Undelivered(book)
          /\ IF written
             THEN /\ book' = Confirmed(delivery)
                  /\ disk' = Confirmed(delivery)
                  /\ delivery' = NoTask
                  /\ pc' = AfterPosts
                  /\ UNCHANGED <<job, mem, lastBeat>>
             ELSE Die("down") /\ UNCHANGED disk
       \/ /\ reply = "unavailable"
          /\ pc' = "top"
          /\ UNCHANGED <<job, mem, delivery, bookVars, lastBeat>>
       \/ reply = "refused" /\ Die("halted") /\ UNCHANGED disk
    /\ UNCHANGED historyVars

\* Slip: a beat starts the loop over and does not note its time.
BeatAgain(reply) ==
    /\ pc = "beat"
    /\ pc' = "top"
    /\ UNCHANGED <<job, mem, delivery, bookVars, lastBeat, historyVars>>

Beat(reply) ==
    /\ pc = "beat"
    /\ \/ reply = "ok" /\ lastBeat' = now /\ pc' = "poll" /\ UNCHANGED <<job, mem, delivery, book>>
       \/ reply = "unavailable" /\ pc' = "top" /\ UNCHANGED <<job, mem, delivery, book, lastBeat>>
       \/ reply = "refused" /\ Die("halted")
    /\ UNCHANGED <<disk, historyVars>>

PollEmpty(reply) ==      \* "ok" stands for {"task": null}
    /\ pc = "poll"
    /\ \/ /\ reply \in {"ok", "unavailable"}
          /\ pc' = "top"
          /\ UNCHANGED <<job, mem, delivery, book, lastBeat>>
       \/ reply = "refused" /\ Die("halted")
    /\ UNCHANGED <<disk, historyVars>>

PollTask(j) ==
    /\ pc = "poll"
    /\ job' = j
    /\ pc' = "exec"
    /\ UNCHANGED <<mem, delivery, bookVars, lastBeat, historyVars>>

-----------------------------------------------------------------------------
(* policy.execute and what the loop makes of its result                    *)

JobPersistent == job.capability \in Persistent
JobReport(verdict, result) == [task |-> job.task, verdict |-> verdict, result |-> result]
Tagged == IF JobPersistent THEN "tagged" ELSE "none"

\* PolicyError before anything ran: not registered, in cooldown, as root,
\* command or sandbox cannot start.
Refuse ==
    /\ pc = "exec"
    /\ mem' = JobReport("FAILED", Tagged)
    /\ job' = NoJob
    /\ pc' = "top"
    /\ UNCHANGED <<delivery, bookVars, lastBeat, historyVars>>

\* The execution is known already: its result is reported, nothing runs.
\* What expired during the poll is dropped before the result is queued.
Recall(written) ==
    /\ pc = "exec"
    /\ JobPersistent /\ book[job.task] # NoEntry
    /\ \/ /\ written
          /\ DropExpired
          /\ mem' = IF job.task \in Undelivered(Current(book)) THEN mem
                    ELSE KeptReport(job.task)
          /\ job' = NoJob
          /\ pc' = "top"
          /\ UNCHANGED <<delivery, lastBeat>>
       \/ ~written /\ CannotDrop
    /\ UNCHANGED historyVars

\* Slip: the known executions are not consulted.
LaunchAnyway ==
    /\ pc = "exec"
    /\ starts' = [starts EXCEPT ![job.task] = @ + 1]
    /\ pc' = "running"
    /\ UNCHANGED <<job, mem, delivery, bookVars, lastBeat, outcome, unread>>

Launch ==
    /\ pc = "exec"
    /\ JobPersistent => book[job.task] = NoEntry
    /\ starts' = [starts EXCEPT ![job.task] = @ + 1]
    /\ pc' = "running"
    /\ UNCHANGED <<job, mem, delivery, bookVars, lastBeat, outcome, unread>>

\* An R0 operation ends with its observation or with an error.
FinishObservation(state) ==
    /\ pc = "running" /\ ~JobPersistent
    /\ outcome' = [outcome EXCEPT ![job.task] = state]
    /\ \E result \in CASE state = "failed" -> {"none"}
                       [] job.task \in Lengthy -> {"plain", "large"}
                       [] OTHER -> {"plain"} :
         mem' = JobReport(VerdictOf(state), result)
    /\ job' = NoJob
    /\ pc' = "top"
    /\ UNCHANGED <<delivery, bookVars, lastBeat, starts, unread>>

\* What an execution leaves in the book.  The two streams of a registered task
\* are cut at 64 KB and fit, however they are escaped; the tests and file names
\* of an executor's result come on top.
NewEntries(state) ==
    [state: {state}, expires: {now + KeepFor}, delivered: {FALSE},
     large: {FALSE, job.capability = "executor" /\ job.task \in Lengthy}]

\* A registered or executor task ends (a time-out is a failure); its record
\* enters the book before the file is written.
FinishExecution(state, written) ==
    /\ pc = "running" /\ JobPersistent
    /\ outcome' = [outcome EXCEPT ![job.task] = state]
    /\ \E entry \in NewEntries(state) : book' = Current([book EXCEPT ![job.task] = entry])
    /\ IF written THEN disk' = book' /\ UNCHANGED mem
       ELSE mem' = JobReport("FAILED", "none") /\ UNCHANGED disk
    /\ job' = NoJob
    /\ pc' = "top"
    /\ UNCHANGED <<delivery, lastBeat, starts, unread>>

\* Any other exception, preparing the sandbox or cleaning it up for instance:
\* the task is reported as failed with no result and no record.
Break ==
    /\ pc \in {"exec", "running"} /\ JobPersistent
    /\ \/ pc = "exec" /\ book[job.task] = NoEntry /\ UNCHANGED outcome
       \/ pc = "running" /\ outcome' = [outcome EXCEPT ![job.task] = "failed"]
    /\ mem' = JobReport("FAILED", "none")
    /\ job' = NoJob
    /\ pc' = "top"
    /\ UNCHANGED <<delivery, bookVars, lastBeat, starts, unread>>

Execute ==      \* the ways a turn ends without the execution state file
    \/ Refuse \/ Launch \/ Break
    \/ \E state \in {"succeeded", "failed"} : FinishObservation(state)

Save(written) ==      \* the steps that may write it
    \/ Top(written) \/ Recall(written)
    \/ \E state \in {"succeeded", "failed"} : FinishExecution(state, written)

-----------------------------------------------------------------------------
AgentTypeOK ==
    /\ pc \in Place
    /\ job \in Job \cup {NoJob}
    /\ pc \in {"exec", "running"} <=> job # NoJob
    /\ mem \in Pending \cup {NoReport}
    /\ delivery \in Task \cup {NoTask}
    /\ book \in [Task -> Entry \cup {NoEntry}]
    /\ disk \in [Task -> Entry \cup {NoEntry}]
    /\ lastBeat \in Time
    /\ starts \in [Task -> Nat]
    /\ outcome \in [Task -> Outcome]
    /\ unread \subseteq Task

\* The agent never polls, beats or executes while it still owes a report,
\* and it owes at most one: the loop posts pending_result and then one kept
\* result before it polls, so it must not be able to gather a second.  (What
\* lies on disk unread is not known to it.)
OwesAtMostOne ==
    /\ pc \in {"beat", "poll", "exec", "running"} => mem = NoReport /\ Undelivered(book) = {}
    /\ \A t, u \in Undelivered(book) \cup (Undelivered(disk) \ unread) : t = u
    /\ \A t, u \in Undelivered(disk) : t = u
    /\ mem # NoReport => Undelivered(book) \subseteq {mem.task}
=============================================================================
