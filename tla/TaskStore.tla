------------------------------ MODULE TaskStore ------------------------------
(***************************************************************************)
(* The Controller's task life cycle: class Store of relayme/controller.py, *)
(* reached over HTTP by clients (create, read) and agents (poll, report,   *)
(* heartbeat).  Every Store method runs under the one process-wide RLock,  *)
(* so each is one step; finish_task commits twice, so the end of the       *)
(* process, or an error of the database, can fall between its commits: a   *)
(* step of its own each.                                                   *)
(*                                                                         *)
(* Clients and agents are unconstrained here: any caller may poll for any  *)
(* host and report any verdict on any task at any time.  Relay composes    *)
(* the store with an agent that behaves as agent.py does.                  *)
(***************************************************************************)
EXTENDS Wire, FiniteSets

CONSTANTS
    StaleAfter,      \* 300 s: a task RUNNING longer is given up by task()
    HeartbeatFresh,  \* 90 s: an older last_heartbeat means the agent is lost
    Retention        \* R1_RESULT_RETENTION_SECONDS

ASSUME StoreTimesAssumption ==
    StaleAfter \in Nat /\ HeartbeatFresh \in Nat /\ Retention \in Nat
ASSUME FreshnessAssumption == HeartbeatFresh <= StaleAfter

VARIABLES
    status,         \* tasks.status; "ABSENT" while the id is not in the table
    request,        \* the other columns written by create_task
    created,        \* tasks.created_at
    started,        \* tasks.started_at, 0 for NULL
    idempotency,    \* rows of r1_idempotency
    results,        \* Store.results: R0 results in memory, by task id
    retained,       \* r1_results.result
    expires,        \* r1_results.expires_at
    audited,        \* execution_audit: the task ids that have a row
    lastHeartbeat,  \* agents.last_heartbeat, 0 for NULL
    handed,         \* history: how often next_task returned the task
    observed        \* history: how often an R0 result reached its reader

tableVars == <<status, request, created, started, idempotency>>
resultVars == <<results, retained, expires, audited>>
storeVars == <<status, request, created, started, idempotency, results, retained,
               expires, audited, lastHeartbeat, handed, observed>>
vars == <<now, storeVars>>

Reaped == {"TIMED_OUT", "AGENT_LOST", "AGENT_INTERRUPTED"}
Terminal == Verdict \cup Reaped       \* nothing in the code sets CANCELLED
Status == {"ABSENT", "QUEUED", "RUNNING"} \cup Terminal

\* The result column: no row, a result, its oversize replacement, or NULL.
Content == {"result", "oversize"}
Retained == {"absent", "expired"} \cup Content

Keyed(r) == r.capability \in Persistent /\ r.key # NoKey

\* Primary key of r1_idempotency.  The capability is not part of it, and the
\* target of a registered task is its bare task_id.
IdempotencyKey(r) == <<r.actor, r.host, r.target, r.key>>

\* Slip: the sweep takes a result in the second it expires.
SweptEarly == [t \in Task |-> IF retained[t] \in Content /\ expires[t] <= now
                              THEN "expired" ELSE retained[t]]

\* _expire_r1_results: what every operation sees of r1_results.
Swept == [t \in Task |-> IF retained[t] \in Content /\ expires[t] < now
                         THEN "expired" ELSE retained[t]]

Init ==
    /\ ClockInit
    /\ status = [t \in Task |-> "ABSENT"]
    /\ request = [t \in Task |-> NoTask]
    /\ created = [t \in Task |-> 0]
    /\ started = [t \in Task |-> 0]
    /\ idempotency = {}
    /\ results = {}
    /\ retained = [t \in Task |-> "absent"]
    /\ expires = [t \in Task |-> 0]
    /\ audited = {}
    /\ lastHeartbeat = [h \in Host |-> 0]
    /\ handed = [t \in Task |-> 0]
    /\ observed = [t \in Task |-> 0]

-----------------------------------------------------------------------------
(* create_task: the idempotency row and the task are one transaction.      *)

\* Slip: the key is only looked up among tasks that have not ended.
ReplayedWhileActive(r) ==
    Keyed(r) /\ \E row \in idempotency :
        row.key = IdempotencyKey(r) /\ status[row.execution] \notin Terminal

Replayed(r) == Keyed(r) /\ \E row \in idempotency : row.key = IdempotencyKey(r)

Replay(r) ==      \* INSERT OR IGNORE inserted nothing: the known id is returned
    /\ Replayed(r)
    /\ UNCHANGED <<status, request, created, idempotency>>

Enqueue(r, t) ==
    /\ ~Replayed(r)
    /\ status[t] = "ABSENT"
    /\ status' = [status EXCEPT ![t] = "QUEUED"]
    /\ request' = [request EXCEPT ![t] = r]
    /\ created' = [created EXCEPT ![t] = now]
    /\ idempotency' = IF Keyed(r)
                      THEN idempotency \cup {[key |-> IdempotencyKey(r), execution |-> t]}
                      ELSE idempotency

CreateTask(r) ==
    /\ Replay(r) \/ \E t \in Task : Enqueue(r, t)
    /\ retained' = Swept
    /\ UNCHANGED <<started, results, expires, audited, lastHeartbeat, handed, observed>>

(* next_task, at the moment it finds a queued row; a poll that finds none  *)
(* until its deadline changes nothing.  created_at has one-second ticks, so *)
(* rows of the same tick come in any order.                                *)
QueuedFor(h, t) == status[t] = "QUEUED" /\ request[t].host = h

\* Slips: the poll forgets to mark the row RUNNING; it ignores ORDER BY.
NextTaskUnmarked(h, t) ==
    /\ QueuedFor(h, t)
    /\ started' = [started EXCEPT ![t] = now]
    /\ handed' = [handed EXCEPT ![t] = @ + 1]
    /\ UNCHANGED <<status, request, created, idempotency, resultVars, lastHeartbeat, observed>>

NextTaskAny(h, t) ==
    /\ QueuedFor(h, t)
    /\ status' = [status EXCEPT ![t] = "RUNNING"]
    /\ started' = [started EXCEPT ![t] = now]
    /\ handed' = [handed EXCEPT ![t] = @ + 1]
    /\ UNCHANGED <<request, created, idempotency, resultVars, lastHeartbeat, observed>>

NextTask(h, t) ==
    /\ QueuedFor(h, t)
    /\ \A u \in Task : QueuedFor(h, u) => created[t] <= created[u]
    /\ status' = [status EXCEPT ![t] = "RUNNING"]
    /\ started' = [started EXCEPT ![t] = now]
    /\ handed' = [handed EXCEPT ![t] = @ + 1]
    /\ UNCHANGED <<request, created, idempotency, resultVars, lastHeartbeat, observed>>

-----------------------------------------------------------------------------
(* finish_task                                                             *)

IsPersistent(t) == request[t].capability \in Persistent
\* Slip: the UPDATE loses its AND status='RUNNING'.
RunningOnAny(h, t) == status[t] # "ABSENT" /\ request[t].host = h

RunningOn(h, t) == status[t] = "RUNNING" /\ request[t].host = h
\* Slip: a task given up no longer counts as finished.
FinishedByReport(h, t) == status[t] \in Verdict /\ request[t].host = h /\ IsPersistent(t)

Finished(h, t) == status[t] \in Terminal /\ request[t].host = h /\ IsPersistent(t)

\* The return value: the Api answers 200 for TRUE and 409 for FALSE.
Acknowledged(h, t) == RunningOn(h, t) \/ Finished(h, t)

\* What the size check makes of a report.
RecordedVerdict(rep) == IF rep.big THEN "FAILED" ELSE rep.verdict
Stored(rep) ==
    IF rep.result = "none" \/ (rep.big /\ rep.result = "plain") THEN "absent"
    ELSE IF rep.big THEN "oversize" ELSE "result"

SetVerdict(t, rep) == status' = [status EXCEPT ![t] = RecordedVerdict(rep)]

\* The second transaction: the result, and the audit row of a tagged one.
Keep(t, rep) ==
    IF Stored(rep) # "absent" /\ IsPersistent(t)
    THEN /\ retained' = [Swept EXCEPT ![t] = Stored(rep)]
         /\ expires' = [expires EXCEPT ![t] = now + Retention]
         /\ UNCHANGED results
    ELSE /\ retained' = Swept
         /\ results' = IF Stored(rep) # "absent" THEN results \cup {t} ELSE results
         /\ UNCHANGED expires

Record(t, rep) ==
    /\ Keep(t, rep)
    /\ audited' = IF rep.result = "tagged" THEN audited \cup {t} ELSE audited

\* Slip: the result is stored whether or not the UPDATE changed a row.
FinishTaskUnguarded(h, t, rep) ==
    /\ status[t] # "ABSENT"
    /\ IF RunningOn(h, t) THEN SetVerdict(t, rep) ELSE UNCHANGED status
    /\ Record(t, rep)
    /\ UNCHANGED <<request, created, started, idempotency, lastHeartbeat, handed, observed>>

FinishTask(h, t, rep) ==
    /\ \/ RunningOn(h, t) /\ SetVerdict(t, rep) /\ Record(t, rep)
       \/ /\ ~RunningOn(h, t)      \* acknowledged and dropped, or refused
          /\ retained' = Swept
          /\ UNCHANGED <<status, results, expires, audited>>
    /\ UNCHANGED <<request, created, started, idempotency, lastHeartbeat, handed, observed>>

-----------------------------------------------------------------------------
(* A restart loses Store.results and sweeps in __init__.  FinishCrash is   *)
(* the process dying between the two commits of finish_task, FinishError   *)
(* the database failing there (and the Api answering nothing): at the      *)
(* result, or at the audit row when the result is in the open transaction, *)
(* which the next method commits.                                          *)

LoseMemory == results' = {} /\ retained' = Swept

Restart ==
    /\ LoseMemory
    /\ UNCHANGED <<tableVars, expires, audited, lastHeartbeat, handed, observed>>

FinishCrash(h, t, rep) ==
    /\ RunningOn(h, t)
    /\ SetVerdict(t, rep)
    /\ LoseMemory
    /\ UNCHANGED <<request, created, started, idempotency, expires, audited,
                   lastHeartbeat, handed, observed>>

FinishError(h, t, rep) ==
    /\ RunningOn(h, t)
    /\ SetVerdict(t, rep)
    /\ \/ /\ Stored(rep) # "absent" /\ IsPersistent(t)
          /\ retained' = Swept
          /\ UNCHANGED <<results, expires>>
       \/ rep.result = "tagged" /\ Keep(t, rep)
    /\ UNCHANGED <<request, created, started, idempotency, audited,
                   lastHeartbeat, handed, observed>>

-----------------------------------------------------------------------------
(* task(), the read behind GET /v1/tasks/<id>, .../result and              *)
(* .../artifacts/<name>.  It first gives up a task that ran too long, and  *)
(* it takes an R0 result out of memory; only then does the Api handler     *)
(* compare the reader with the task's actor.                               *)

Stale(t) == status[t] = "RUNNING" /\ started[t] # 0 /\ started[t] + StaleAfter < now

HeartbeatLost(h) == lastHeartbeat[h] = 0 \/ lastHeartbeat[h] < now - HeartbeatFresh

GivenUpAs(t) ==
    IF request[t].capability # "executor" THEN "TIMED_OUT"
    ELSE IF HeartbeatLost(request[t].host) THEN "AGENT_LOST" ELSE "AGENT_INTERRUPTED"

\* Slips: the read gives up what is old, ended or not; or spares an agent that beats.
StatusReadAny(t) ==
    IF status[t] # "QUEUED" /\ started[t] # 0 /\ started[t] + StaleAfter < now
    THEN GivenUpAs(t) ELSE status[t]

StatusReadLost(t) ==
    IF Stale(t) /\ HeartbeatLost(request[t].host) THEN GivenUpAs(t) ELSE status[t]

StatusRead(t) == IF Stale(t) THEN GivenUpAs(t) ELSE status[t]

Visible(t, reader) == reader = request[t].actor \/ reader \in Admin

\* Slip: the observation is read without being taken out.
ReadTaskKeeping(t, reader, artifact) ==
    /\ status[t] # "ABSENT"
    /\ status' = [status EXCEPT ![t] = StatusRead(t)]
    /\ retained' = Swept
    /\ observed' = IF t \in results /\ Visible(t, reader)
                   THEN [observed EXCEPT ![t] = @ + 1] ELSE observed
    /\ UNCHANGED <<request, created, started, idempotency, results, expires, audited,
                   lastHeartbeat, handed>>

\* `artifact': the read is of an artifact, which returns no task result.
ReadTask(t, reader, artifact) ==
    /\ status[t] # "ABSENT"
    /\ status' = [status EXCEPT ![t] = StatusRead(t)]
    /\ retained' = Swept
    /\ LET popped == t \in results /\ StatusRead(t) \in Terminal /\ ~IsPersistent(t)
       IN  /\ results' = IF popped THEN results \ {t} ELSE results
           /\ observed' = IF popped /\ Visible(t, reader) /\ ~artifact
                          THEN [observed EXCEPT ![t] = @ + 1] ELSE observed
    /\ UNCHANGED <<request, created, started, idempotency, expires, audited,
                   lastHeartbeat, handed>>

\* reviewable_tasks lists executor tasks; it changes only what expires.
ReviewableTasks ==
    /\ retained' = Swept
    /\ UNCHANGED <<tableVars, results, expires, audited, lastHeartbeat, handed, observed>>

Heartbeat(h) ==
    /\ lastHeartbeat' = [lastHeartbeat EXCEPT ![h] = now]
    /\ UNCHANGED <<tableVars, resultVars, handed, observed>>

-----------------------------------------------------------------------------
ClientStep ==
    \/ \E r \in Submission : CreateTask(r)
    \/ \E t \in Task, reader \in Reader, artifact \in BOOLEAN : ReadTask(t, reader, artifact)
    \/ ReviewableTasks

AgentStep ==
    \E h \in Host :
        \/ \E t \in Task : NextTask(h, t)
        \/ \E t \in Task, rep \in Report :
              FinishTask(h, t, rep) \/ FinishCrash(h, t, rep) \/ FinishError(h, t, rep)
        \/ Heartbeat(h)

Next ==
    \/ (ClientStep \/ AgentStep \/ Restart) /\ UNCHANGED now
    \/ Tick /\ UNCHANGED storeVars

Spec == Init /\ [][Next]_vars
-----------------------------------------------------------------------------
(* Properties, for any clients and any agents.                             *)

TypeOK ==
    /\ now \in Time
    /\ status \in [Task -> Status]
    /\ request \in [Task -> Submission \cup {NoTask}]
    /\ \A t \in Task : status[t] # "ABSENT" => request[t] \in Submission
    /\ created \in [Task -> Time]
    /\ started \in [Task -> Time]
    /\ idempotency \subseteq [key: Actor \X Host \X Target \X Key, execution: Task]
    /\ results \subseteq Task
    /\ retained \in [Task -> Retained]
    /\ expires \in [Task -> Nat]
    /\ audited \subseteq Task
    /\ lastHeartbeat \in [Host -> Time]
    /\ handed \in [Task -> Nat]
    /\ observed \in [Task -> Nat]

\* A verdict is final: neither a late or repeated report nor a read that
\* finds the task old changes the state of a task that has ended
\* (finish_task's UPDATE against the give-up in task()).
TerminalStable ==
    [][\A t \in Task : status[t] \in Terminal => status'[t] = status[t]]_vars

\* No task is handed out twice: next_task returned it once if it left the
\* queue and never otherwise, whatever pollers, restarts and late reports do.
HandedOnce ==
    \A t \in Task : handed[t] = IF status[t] \in {"ABSENT", "QUEUED"} THEN 0 ELSE 1

\* An idempotency key names one execution for ever: two tasks of one actor,
\* host, target and key are the same task, also after the first has ended,
\* its result expired or the Controller restarted (create_task).
OneTaskPerKey ==
    \A t, u \in Task :
        /\ status[t] # "ABSENT" /\ Keyed(request[t])
        /\ status[u] # "ABSENT" /\ Keyed(request[u])
        /\ IdempotencyKey(request[t]) = IdempotencyKey(request[u])
        => t = u

\* A task given up by a read carries no evidence: a report that comes after
\* the give-up leaves no result and no audit row behind, and a result or
\* audit row is there only next to the verdict it was reported with.
EvidenceHasVerdict ==
    \A t \in Task :
        retained[t] # "absent" \/ t \in results \/ t \in audited => status[t] \in Verdict

\* A retained result stays readable for the whole retention period, across
\* reads, duplicate reports and restarts, and is never replaced; once
\* expired it stays expired.
RetainedForItsTime ==
    [][\A t \in Task :
        retained[t] # "absent" /\ retained'[t] # retained[t] =>
            retained[t] \in Content /\ retained'[t] = "expired" /\ expires[t] < now]_vars

\* An R0 observation reaches a reader at most once (Store.results is popped).
ObservedOnce ==
    \A t \in Task : observed[t] <= IF t \in results THEN 0 ELSE 1

\* AGENT_INTERRUPTED is only said of a task whose agent was heard from after
\* it took the task; an agent silent since then is AGENT_LOST.
InterruptedWasHeard ==
    \A t \in Task : status[t] = "AGENT_INTERRUPTED" =>
        lastHeartbeat[request[t].host] > started[t]

\* No overtaking: a task is handed out only when every older task of its
\* host has been, so a steady stream of new tasks starves none.
NoOvertaking ==
    \A t, u \in Task :
        /\ status[t] = "QUEUED" /\ status[u] \notin {"ABSENT", "QUEUED"}
        /\ request[t].host = request[u].host
        => created[t] >= created[u] /\ started[u] >= created[u]
=============================================================================
