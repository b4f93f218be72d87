--------------------------- MODULE TaskStoreProofs ---------------------------
(***************************************************************************)
(* Proofs that the properties of TaskStore hold for any number of tasks,   *)
(* hosts, clients and keys, and for any clients and agents.                *)
(***************************************************************************)
EXTENDS TaskStore, TLAPS

-----------------------------------------------------------------------------
(* Type correctness                                                        *)

\* The sweep keeps r1_results well-formed (_expire_r1_results).
LEMMA SweptType ==
    ASSUME retained \in [Task -> Retained]
    PROVE  Swept \in [Task -> Retained]
BY DEF Swept, Retained, Content

\* Every operation keeps every column, map and history to its values.
LEMMA TypeStep ==
    ASSUME TypeOK, [Next]_vars
    PROVE  TypeOK'
<1> USE MaxTimeAssumption, StoreTimesAssumption DEF Time
<1>0. Swept \in [Task -> Retained]
  BY SweptType DEF TypeOK
<1>1. ASSUME NEW r \in Submission, CreateTask(r), UNCHANGED now PROVE TypeOK'
  <2>1. CASE Replay(r)
    BY <1>0, <1>1, <2>1 DEF CreateTask, Replay, TypeOK
  <2>2. ASSUME NEW t \in Task, Enqueue(r, t) PROVE TypeOK'
    <3>1. idempotency' \subseteq [key: Actor \X Host \X Target \X Key, execution: Task]
      BY <2>2, SubmissionAssumption DEF Enqueue, TypeOK, Keyed, IdempotencyKey, Request
    <3>2. QED
      BY <1>0, <1>1, <2>2, <3>1 DEF CreateTask, Enqueue, TypeOK, Status
  <2>3. QED
    BY <1>1, <2>1, <2>2 DEF CreateTask
<1>2. ASSUME NEW h \in Host, NEW t \in Task, NextTask(h, t), UNCHANGED now
      PROVE  TypeOK'
  BY <1>2 DEF NextTask, QueuedFor, TypeOK, Status, resultVars
<1>3. ASSUME NEW h \in Host, NEW t \in Task, NEW rep \in Report,
             FinishTask(h, t, rep), UNCHANGED now
      PROVE  TypeOK'
  <2>1. CASE RunningOn(h, t) /\ SetVerdict(t, rep) /\ Record(t, rep)
    <3>1. RecordedVerdict(rep) \in Status \ {"ABSENT"}
      BY DEF RecordedVerdict, Report, Verdict, Status, Terminal
    <3>2. Stored(rep) \in Retained
      BY DEF Stored, Retained, Content
    <3>3. status' \in [Task -> Status] /\ \A u \in Task : status'[u] # "ABSENT" => status[u] # "ABSENT"
      BY <2>1, <3>1 DEF SetVerdict, RunningOn, TypeOK
    <3>4. /\ retained' \in [Task -> Retained] /\ expires' \in [Task -> Nat]
          /\ results' \subseteq Task /\ audited' \subseteq Task
      BY <1>0, <2>1, <3>2 DEF Record, Keep, TypeOK
    <3>5. QED
      BY <1>3, <3>3, <3>4 DEF FinishTask, TypeOK
  <2>2. CASE ~RunningOn(h, t)
    BY <1>0, <1>3, <2>2 DEF FinishTask, TypeOK
  <2>3. QED
    BY <1>3, <2>1, <2>2 DEF FinishTask
<1>4. ASSUME NEW h \in Host, NEW t \in Task, NEW rep \in Report,
             FinishCrash(h, t, rep), UNCHANGED now
      PROVE  TypeOK'
  <2>1. RecordedVerdict(rep) \in Status \ {"ABSENT"}
    BY DEF RecordedVerdict, Report, Verdict, Status, Terminal
  <2>2. QED
    BY <1>0, <1>4, <2>1 DEF FinishCrash, SetVerdict, LoseMemory, RunningOn, TypeOK
<1>10. ASSUME NEW h \in Host, NEW t \in Task, NEW rep \in Report,
              FinishError(h, t, rep), UNCHANGED now
       PROVE  TypeOK'
  <2>1. RecordedVerdict(rep) \in Status \ {"ABSENT"}
    BY DEF RecordedVerdict, Report, Verdict, Status, Terminal
  <2>2. Stored(rep) \in Retained
    BY DEF Stored, Retained, Content
  <2>3. /\ retained' \in [Task -> Retained] /\ expires' \in [Task -> Nat]
        /\ results' \subseteq Task
    BY <1>0, <1>10, <2>2 DEF FinishError, Keep, TypeOK
  <2>4. status' \in [Task -> Status] /\ \A u \in Task : status'[u] # "ABSENT" => status[u] # "ABSENT"
    BY <1>10, <2>1 DEF FinishError, SetVerdict, RunningOn, TypeOK
  <2>5. QED
    BY <1>10, <2>3, <2>4 DEF FinishError, TypeOK
<1>5. ASSUME NEW t \in Task, NEW reader \in Reader, NEW artifact \in BOOLEAN,
             ReadTask(t, reader, artifact), UNCHANGED now
      PROVE  TypeOK'
  <2>1. StatusRead(t) \in Status \ {"ABSENT"}
    BY <1>5 DEF ReadTask, StatusRead, GivenUpAs, TypeOK, Status, Terminal, Reaped
  <2>2. results' \subseteq Task /\ observed' \in [Task -> Nat]
    BY <1>5 DEF ReadTask, TypeOK
  <2>3. QED
    BY <1>0, <1>5, <2>1, <2>2 DEF ReadTask, TypeOK
<1>6. ASSUME ReviewableTasks \/ Restart, UNCHANGED now PROVE TypeOK'
  BY <1>0, <1>6 DEF ReviewableTasks, Restart, LoseMemory, TypeOK, tableVars, resultVars
<1>7. ASSUME NEW h \in Host, Heartbeat(h), UNCHANGED now PROVE TypeOK'
  BY <1>7 DEF Heartbeat, TypeOK, tableVars, resultVars
<1>8. CASE Tick /\ UNCHANGED storeVars
  BY <1>8 DEF Tick, storeVars, TypeOK
<1>9. CASE UNCHANGED vars
  BY <1>9 DEF vars, storeVars, TypeOK
<1>11. QED
  BY <1>1, <1>2, <1>3, <1>4, <1>5, <1>6, <1>7, <1>8, <1>9, <1>10
  DEF Next, ClientStep, AgentStep

\* The type invariant: every column, map and history of the Store keeps to
\* its values through every operation, crash and restart.
THEOREM TypeCorrect == Spec => []TypeOK
<1>1. Init => TypeOK
  BY MaxTimeAssumption DEF Init, ClockInit, TypeOK, Status, Retained, Time
<1>2. TypeOK /\ [Next]_vars => TypeOK'
  BY TypeStep
<1>3. QED
  BY <1>1, <1>2, PTL DEF Spec

-----------------------------------------------------------------------------
(* What a step can do to one task, to the clock and to the heartbeats      *)

RowKept(t) == request'[t] = request[t] /\ created'[t] = created[t]
StartKept(t) == started'[t] = started[t] /\ handed'[t] = handed[t]

\* Its result expires at most, and no evidence is added.
EvidenceKept(t) ==
    /\ retained'[t] \in {retained[t], Swept[t]} /\ expires'[t] = expires[t]
    /\ t \in results' => t \in results
    /\ t \in audited' => t \in audited

\* A reader observes it only by taking it out of the results.
Observes(t) ==
    \/ observed'[t] = observed[t]
    \/ /\ t \in results /\ t \notin results' /\ status'[t] \in Terminal
       /\ observed'[t] = observed[t] + 1

Stays(t) ==
    status'[t] = status[t] /\ RowKept(t) /\ StartKept(t) /\ EvidenceKept(t) /\ Observes(t)

IsQueued(t) ==
    /\ status[t] = "ABSENT" /\ status'[t] = "QUEUED"
    /\ created'[t] = now
    /\ StartKept(t) /\ EvidenceKept(t) /\ observed'[t] = observed[t]

IsHandedOut(t) ==
    /\ status[t] = "QUEUED" /\ status'[t] = "RUNNING"
    /\ \A u \in Task : QueuedFor(request[t].host, u) => created[t] <= created[u]
    /\ started'[t] = now /\ handed'[t] = handed[t] + 1
    /\ RowKept(t) /\ EvidenceKept(t) /\ observed'[t] = observed[t]

IsReported(t) ==
    /\ status[t] = "RUNNING" /\ status'[t] \in Verdict
    /\ RowKept(t) /\ StartKept(t) /\ observed'[t] = observed[t]

IsGivenUp(t) ==
    /\ status[t] = "RUNNING" /\ Stale(t) /\ status'[t] = GivenUpAs(t)
    /\ RowKept(t) /\ StartKept(t) /\ EvidenceKept(t) /\ Observes(t)

\* Every step of the store leaves a task where it is or moves it one place on.
LEMMA StepOfTask ==
    ASSUME TypeOK, [Next]_vars, NEW t \in Task
    PROVE  Stays(t) \/ IsQueued(t) \/ IsHandedOut(t) \/ IsReported(t) \/ IsGivenUp(t)
<1> USE DEF TypeOK, RowKept, StartKept, EvidenceKept, Observes
<1>0. /\ Swept \in [Task -> Retained]
      /\ retained \in [Task -> Retained]
  BY SweptType
<1>1. ASSUME NEW r \in Submission, CreateTask(r) PROVE Stays(t) \/ IsQueued(t)
  <2>1. CASE Replay(r)
    BY <1>0, <1>1, <2>1 DEF CreateTask, Replay, Stays
  <2>2. ASSUME NEW u \in Task, Enqueue(r, u) PROVE Stays(t) \/ IsQueued(t)
    BY <1>0, <1>1, <2>2 DEF CreateTask, Enqueue, Stays, IsQueued
  <2>3. QED
    BY <1>1, <2>1, <2>2 DEF CreateTask
<1>2. ASSUME NEW h \in Host, NEW u \in Task, NextTask(h, u) PROVE Stays(t) \/ IsHandedOut(t)
  BY <1>0, <1>2 DEF NextTask, QueuedFor, resultVars, Stays, IsHandedOut
<1>3. ASSUME NEW h \in Host, NEW u \in Task, NEW rep \in Report, FinishTask(h, u, rep)
      PROVE  Stays(t) \/ IsReported(t)
  <2>1. RecordedVerdict(rep) \in Verdict
    BY DEF RecordedVerdict, Report, Verdict
  <2>2. CASE u = t /\ RunningOn(h, u)
    BY <1>3, <2>1, <2>2 DEF FinishTask, RunningOn, SetVerdict, IsReported
  <2>3. CASE u # t /\ RunningOn(h, u)
    BY <1>0, <1>3, <2>3 DEF FinishTask, SetVerdict, Record, Keep, Stays
  <2>4. CASE ~RunningOn(h, u)
    BY <1>0, <1>3, <2>4 DEF FinishTask, Stays
  <2>5. QED
    BY <2>2, <2>3, <2>4
<1>4. ASSUME NEW h \in Host, NEW u \in Task, NEW rep \in Report, FinishCrash(h, u, rep)
      PROVE  Stays(t) \/ IsReported(t)
  <2>1. RecordedVerdict(rep) \in Verdict
    BY DEF RecordedVerdict, Report, Verdict
  <2>2. QED
    BY <1>0, <1>4, <2>1 DEF FinishCrash, RunningOn, SetVerdict, LoseMemory, Stays, IsReported
<1>10. ASSUME NEW h \in Host, NEW u \in Task, NEW rep \in Report, FinishError(h, u, rep)
       PROVE  Stays(t) \/ IsReported(t)
  <2>1. RecordedVerdict(rep) \in Verdict
    BY DEF RecordedVerdict, Report, Verdict
  <2>2. CASE u = t
    BY <1>10, <2>1, <2>2 DEF FinishError, RunningOn, SetVerdict, IsReported
  <2>3. CASE u # t
    BY <1>0, <1>10, <2>3 DEF FinishError, SetVerdict, Keep, Stays
  <2>4. QED
    BY <2>2, <2>3
<1>5. ASSUME NEW u \in Task, NEW reader \in Reader, NEW artifact \in BOOLEAN,
             ReadTask(u, reader, artifact)
      PROVE  Stays(t) \/ IsGivenUp(t)
  <2>1. EvidenceKept(t)
    BY <1>0, <1>5 DEF ReadTask
  <2>2. Observes(t)
    BY <1>5 DEF ReadTask, StatusRead
  <2>3. RowKept(t) /\ StartKept(t)
    BY <1>5 DEF ReadTask
  <2>4. CASE u = t /\ Stale(u)
    <3>1. status'[t] = GivenUpAs(t) /\ status[t] = "RUNNING"
      BY <1>5, <2>4 DEF ReadTask, StatusRead, Stale
    <3>2. QED
      BY <2>1, <2>2, <2>3, <2>4, <3>1 DEF IsGivenUp
  <2>5. CASE ~(u = t /\ Stale(u))
    <3>1. status'[t] = status[t]
      BY <1>5, <2>5 DEF ReadTask, StatusRead
    <3>2. QED
      BY <2>1, <2>2, <2>3, <3>1 DEF Stays
  <2>6. QED
    BY <2>4, <2>5
<1>6. ASSUME ReviewableTasks \/ Restart PROVE Stays(t)
  BY <1>0, <1>6 DEF ReviewableTasks, Restart, LoseMemory, tableVars, Stays
<1>7. ASSUME NEW h \in Host, Heartbeat(h) PROVE Stays(t)
  BY <1>0, <1>7 DEF Heartbeat, tableVars, resultVars, Stays
<1>8. ASSUME UNCHANGED storeVars PROVE Stays(t)
  BY <1>0, <1>8 DEF storeVars, Stays
<1>9. QED
  BY <1>1, <1>2, <1>3, <1>4, <1>5, <1>6, <1>7, <1>8, <1>10
  DEF Next, ClientStep, AgentStep, vars

\* Time and the times of heartbeats only move forward (Heartbeat, Tick).
LEMMA StepOfTime ==
    ASSUME TypeOK, [Next]_vars
    PROVE  /\ now' >= now
           /\ \A h \in Host : lastHeartbeat'[h] \in {lastHeartbeat[h], now}
<1> USE DEF TypeOK, Time
<1> USE MaxTimeAssumption
<1>1. ASSUME NEW h \in Host, Heartbeat(h), UNCHANGED now
      PROVE  now' >= now /\ \A g \in Host : lastHeartbeat'[g] \in {lastHeartbeat[g], now}
  BY <1>1 DEF Heartbeat
<1>2. CASE Tick /\ UNCHANGED storeVars
  BY <1>2 DEF Tick, storeVars
<1>3. CASE UNCHANGED <<now, lastHeartbeat>>
  BY <1>3
<1>4. QED
  BY <1>1, <1>2, <1>3
  DEF Next, ClientStep, AgentStep, CreateTask, NextTask, FinishTask, FinishCrash,
      FinishError, ReadTask, ReviewableTasks, Restart, vars, storeVars

-----------------------------------------------------------------------------
(* Verdicts                                                                *)

\* A verdict is final, whatever reports and reads come after it
\* (finish_task's WHERE status='RUNNING' and the give-up in task()).
THEOREM VerdictsAreFinal == Spec => TerminalStable
<1>1. TypeOK /\ [Next]_vars => [\A t \in Task : status[t] \in Terminal => status'[t] = status[t]]_vars
  BY StepOfTask
  DEF Stays, IsQueued, IsHandedOut, IsReported, IsGivenUp, Terminal, Verdict, Reaped
<1>2. QED
  BY <1>1, TypeCorrect, PTL DEF Spec, TerminalStable

\* The clock never shows 0, which stands for NULL, so a task handed out has
\* a started_at and can be given up.
RunningIsDated == now > 0 /\ \A t \in Task : status[t] = "RUNNING" => started[t] > 0

LEMMA HandOutIsDated == Spec => []RunningIsDated
<1>1. Init => RunningIsDated
  BY DEF Init, ClockInit, RunningIsDated
<1>2. TypeOK /\ TypeOK' /\ RunningIsDated /\ [Next]_vars => RunningIsDated'
  <2> SUFFICES ASSUME TypeOK, TypeOK', RunningIsDated, [Next]_vars
               PROVE  now' > 0 /\ \A t \in Task : status'[t] = "RUNNING" => started'[t] > 0
    BY DEF RunningIsDated
  <2>1. now \in Nat /\ now' \in Nat /\ now' >= now
    BY StepOfTime, MaxTimeAssumption DEF TypeOK, Time
  <2>2. ASSUME NEW t \in Task, status'[t] = "RUNNING" PROVE started'[t] > 0
    BY <2>2, StepOfTask
    DEF RunningIsDated, Stays, IsQueued, IsHandedOut, IsReported, IsGivenUp, GivenUpAs, StartKept, Verdict
  <2> QED BY <2>1, <2>2 DEF RunningIsDated
<1>3. QED
  BY <1>1, <1>2, TypeCorrect, PTL DEF Spec

\* No task is handed out twice (next_task), so no work is started twice.
THEOREM NeverHandedTwice == Spec => []HandedOnce
<1>1. Init => HandedOnce
  BY DEF Init, HandedOnce
<1>2. TypeOK /\ HandedOnce /\ [Next]_vars => HandedOnce'
  <2> SUFFICES ASSUME TypeOK, HandedOnce, [Next]_vars, NEW t \in Task
               PROVE  handed'[t] = IF status'[t] \in {"ABSENT", "QUEUED"} THEN 0 ELSE 1
    BY DEF HandedOnce
  <2>1. QED
    BY StepOfTask
    DEF HandedOnce, Stays, IsQueued, IsHandedOut, IsReported, IsGivenUp, GivenUpAs, StartKept, Verdict
<1>3. QED
  BY <1>1, <1>2, TypeCorrect, PTL DEF Spec

\* A result or audit row stands only next to the verdict it was reported
\* with: a task given up by a read carries no evidence (finish_task).
THEOREM EvidenceIsReported == Spec => []EvidenceHasVerdict
<1>1. Init => EvidenceHasVerdict
  BY DEF Init, EvidenceHasVerdict
<1>2. TypeOK /\ EvidenceHasVerdict /\ [Next]_vars => EvidenceHasVerdict'
  <2> SUFFICES ASSUME TypeOK, EvidenceHasVerdict, [Next]_vars, NEW t \in Task,
                      retained'[t] # "absent" \/ t \in results' \/ t \in audited'
               PROVE  status'[t] \in Verdict
    BY DEF EvidenceHasVerdict
  <2>1. retained[t] = "absent" => Swept[t] = "absent"
    BY DEF Swept, Content
  <2>2. CASE EvidenceKept(t)
    <3>1. status[t] \in Verdict
      BY <2>1, <2>2 DEF EvidenceHasVerdict, EvidenceKept
    <3>2. QED
      BY <3>1, StepOfTask DEF Stays, IsQueued, IsHandedOut, IsReported, IsGivenUp, Verdict
  <2>3. CASE IsReported(t)
    BY <2>3 DEF IsReported
  <2>4. QED
    BY <2>2, <2>3, StepOfTask DEF Stays, IsQueued, IsHandedOut, IsGivenUp
<1>3. QED
  BY <1>1, <1>2, TypeCorrect, PTL DEF Spec

\* AGENT_INTERRUPTED is only said of a task whose agent was heard from after
\* it took the task (the 90 s and 300 s of task()).
THEOREM InterruptedAgentWasHeard == Spec => []InterruptedWasHeard
<1> USE StoreTimesAssumption, FreshnessAssumption, MaxTimeAssumption
<1> DEFINE HeardInThePast == \A h \in Host : lastHeartbeat[h] <= now
<1>1. Init => HeardInThePast /\ InterruptedWasHeard
  BY DEF Init, ClockInit, InterruptedWasHeard
<1>2. TypeOK /\ TypeOK' /\ HeardInThePast /\ [Next]_vars => HeardInThePast'
  <2> SUFFICES ASSUME TypeOK, TypeOK', HeardInThePast, [Next]_vars, NEW h \in Host
               PROVE  lastHeartbeat'[h] <= now'
    OBVIOUS
  <2>1. now \in Nat /\ now' \in Nat /\ lastHeartbeat[h] \in Nat
    BY DEF TypeOK, Time
  <2>2. now' >= now /\ lastHeartbeat'[h] \in {lastHeartbeat[h], now}
    BY StepOfTime
  <2>3. lastHeartbeat[h] <= now
    OBVIOUS
  <2>4. QED
    BY <2>1, <2>2, <2>3
<1>3. TypeOK /\ TypeOK' /\ HeardInThePast /\ InterruptedWasHeard /\ [Next]_vars => InterruptedWasHeard'
  <2> SUFFICES ASSUME TypeOK, TypeOK', HeardInThePast, InterruptedWasHeard, [Next]_vars,
                      NEW t \in Task, status'[t] = "AGENT_INTERRUPTED"
               PROVE  lastHeartbeat'[request'[t].host] > started'[t]
    BY DEF InterruptedWasHeard
  <2>1. \/ Stays(t) /\ status[t] = "AGENT_INTERRUPTED"
        \/ IsGivenUp(t) /\ GivenUpAs(t) = "AGENT_INTERRUPTED"
    BY StepOfTask DEF Stays, IsQueued, IsHandedOut, IsReported, IsGivenUp, Verdict
  <2>2. request[t] \in Submission /\ request'[t] = request[t] /\ started'[t] = started[t]
    BY <2>1 DEF TypeOK, Stays, IsGivenUp, RowKept, StartKept
  <2> DEFINE h == request[t].host
  <2>3. h \in Host
    BY <2>2, SubmissionAssumption DEF Request
  <2>4. lastHeartbeat[h] > started[t]
    <3>1. CASE status[t] = "AGENT_INTERRUPTED"
      BY <3>1 DEF InterruptedWasHeard
    <3>2. CASE IsGivenUp(t) /\ GivenUpAs(t) = "AGENT_INTERRUPTED"
      <4>1. ~HeartbeatLost(h) /\ Stale(t)
        BY <3>2 DEF GivenUpAs, IsGivenUp
      <4>2. QED
        BY <2>3, <4>1 DEF HeartbeatLost, Stale, TypeOK, Time
    <3>3. QED
      BY <2>1, <3>1, <3>2
  <2>5. lastHeartbeat'[h] >= lastHeartbeat[h]
    BY <2>3, StepOfTime DEF TypeOK, Time
  <2>6. QED
    BY <2>2, <2>3, <2>4, <2>5 DEF TypeOK, Time
<1>4. QED
  BY <1>1, <1>2, <1>3, TypeCorrect, PTL DEF Spec

-----------------------------------------------------------------------------
(* Results                                                                 *)

\* A retained result is neither replaced nor lost before it expires
\* (finish_task's INSERT OR REPLACE only ever meets a task without one).
THEOREM ResultsAreRetained == Spec => RetainedForItsTime
<1>1. TypeOK /\ EvidenceHasVerdict /\ [Next]_vars =>
        [\A t \in Task : retained[t] # "absent" /\ retained'[t] # retained[t] =>
            retained[t] \in Content /\ retained'[t] = "expired" /\ expires[t] < now]_vars
  <2> SUFFICES ASSUME TypeOK, EvidenceHasVerdict, [Next]_vars, NEW t \in Task,
                      retained[t] # "absent", retained'[t] # retained[t]
               PROVE  retained[t] \in Content /\ retained'[t] = "expired" /\ expires[t] < now
    OBVIOUS
  <2>1. status[t] \in Verdict
    BY DEF EvidenceHasVerdict
  <2>2. retained'[t] = Swept[t]
    BY <2>1, StepOfTask
    DEF Stays, IsQueued, IsHandedOut, IsReported, IsGivenUp, EvidenceKept, Verdict
  <2>3. QED
    BY <2>2 DEF Swept
<1>2. QED
  BY <1>1, TypeCorrect, EvidenceIsReported, PTL DEF Spec, RetainedForItsTime

\* A client receives an observation at most once (Store.results is popped).
THEOREM ObservedAtMostOnce == Spec => []ObservedOnce
<1> DEFINE ObservedHasEnded == \A t \in Task : observed[t] # 0 => status[t] \in Terminal
<1>1. Init => ObservedHasEnded /\ ObservedOnce
  BY DEF Init, ObservedOnce
<1>2. TypeOK /\ ObservedHasEnded /\ [Next]_vars => ObservedHasEnded'
  <2> SUFFICES ASSUME TypeOK, ObservedHasEnded, [Next]_vars, NEW t \in Task, observed'[t] # 0
               PROVE  status'[t] \in Terminal
    OBVIOUS
  <2>1. QED
    BY StepOfTask
    DEF Stays, IsQueued, IsHandedOut, IsReported, IsGivenUp, Observes, Terminal, Verdict, Reaped
<1>3. TypeOK /\ ObservedHasEnded /\ ObservedOnce /\ [Next]_vars => ObservedOnce'
  <2> SUFFICES ASSUME TypeOK, ObservedHasEnded, ObservedOnce, [Next]_vars, NEW t \in Task
               PROVE  observed'[t] <= IF t \in results' THEN 0 ELSE 1
    BY DEF ObservedOnce
  <2>1. observed[t] \in Nat /\ observed[t] <= IF t \in results THEN 0 ELSE 1
    BY DEF TypeOK, ObservedOnce
  <2>2. CASE IsReported(t)
    BY <2>1, <2>2 DEF IsReported, Terminal, Verdict, Reaped
  <2>3. CASE Observes(t) /\ EvidenceKept(t)
    BY <2>1, <2>3 DEF Observes, EvidenceKept
  <2>4. CASE observed'[t] = observed[t] /\ EvidenceKept(t)
    BY <2>1, <2>4 DEF EvidenceKept
  <2>5. QED
    BY <2>2, <2>3, <2>4, StepOfTask DEF Stays, IsQueued, IsHandedOut, IsGivenUp
<1>4. QED
  BY <1>1, <1>2, <1>3, TypeCorrect, PTL DEF Spec

-----------------------------------------------------------------------------
(* The queue                                                               *)

Left(t) == status[t] \notin {"ABSENT", "QUEUED"}

MadeInThePast ==
    \A t \in Task :
        /\ created[t] <= now
        /\ Left(t) => created[t] <= started[t]

\* A task is handed out only after every older task of its host, so none is
\* starved by a stream of newer ones (next_task's ORDER BY created_at).
THEOREM OldestFirst == Spec => []NoOvertaking
<1>1. Init => MadeInThePast /\ NoOvertaking
  BY DEF Init, ClockInit, NoOvertaking, MadeInThePast, Left
<1>2. TypeOK /\ TypeOK' /\ MadeInThePast /\ [Next]_vars => MadeInThePast'
  <2> SUFFICES ASSUME TypeOK, TypeOK', MadeInThePast, [Next]_vars, NEW t \in Task
               PROVE  created'[t] <= now' /\ (Left(t)' => created'[t] <= started'[t])
    BY DEF MadeInThePast, Left
  <2>0. created[t] <= now /\ (Left(t) => created[t] <= started[t])
    BY DEF MadeInThePast, Left
  <2>1. now \in Nat /\ now' \in Nat /\ now' >= now /\ created[t] \in Nat
    BY StepOfTime DEF TypeOK, Time
  <2>2. CASE Stays(t) \/ IsReported(t) \/ IsGivenUp(t)
    BY <2>0, <2>1, <2>2 DEF Left, Stays, IsReported, IsGivenUp, RowKept, StartKept
  <2>3. CASE IsQueued(t) \/ IsHandedOut(t)
    BY <2>0, <2>1, <2>3 DEF Left, IsQueued, IsHandedOut, RowKept
  <2>4. QED
    BY <2>2, <2>3, StepOfTask
<1>3. TypeOK /\ MadeInThePast /\ NoOvertaking /\ [Next]_vars => NoOvertaking'
  <2> SUFFICES ASSUME TypeOK, MadeInThePast, NoOvertaking, [Next]_vars,
                      NEW t \in Task, NEW u \in Task,
                      status'[t] = "QUEUED", Left(u)', request'[t].host = request'[u].host
               PROVE  created'[t] >= created'[u] /\ started'[u] >= created'[u]
    BY DEF NoOvertaking, Left
  <2>0. created[u] <= now /\ (Left(u) => created[u] <= started[u])
    BY DEF MadeInThePast, Left
  <2>1. /\ now \in Nat /\ created[t] \in Nat /\ created[u] \in Nat
        /\ started[u] \in Nat
    BY DEF TypeOK, Time
  <2>2. \/ IsQueued(t)
        \/ status[t] = "QUEUED" /\ RowKept(t)
    BY StepOfTask DEF Stays, IsHandedOut, IsReported, IsGivenUp, GivenUpAs, Verdict
  <2>3. \/ IsHandedOut(u)
        \/ Left(u) /\ RowKept(u) /\ StartKept(u)
    BY StepOfTask DEF Left, Stays, IsQueued, IsReported, IsGivenUp
  <2>4. CASE IsHandedOut(u) /\ IsQueued(t)
    BY <2>0, <2>1, <2>4 DEF IsHandedOut, IsQueued, RowKept
  <2>5. CASE IsHandedOut(u) /\ status[t] = "QUEUED" /\ RowKept(t)
    BY <2>0, <2>1, <2>5 DEF IsHandedOut, RowKept, QueuedFor
  <2>6. CASE Left(u) /\ RowKept(u) /\ StartKept(u) /\ IsQueued(t)
    BY <2>0, <2>1, <2>6 DEF IsQueued, RowKept, StartKept
  <2>7. CASE Left(u) /\ RowKept(u) /\ StartKept(u) /\ status[t] = "QUEUED" /\ RowKept(t)
    BY <2>7 DEF Left, RowKept, StartKept, NoOvertaking
  <2>8. QED
    BY <2>2, <2>3, <2>4, <2>5, <2>6, <2>7
<1>4. QED
  BY <1>1, <1>2, <1>3, TypeCorrect, PTL DEF Spec

-----------------------------------------------------------------------------
(* Idempotency keys                                                        *)

\* r1_idempotency has one row per key, and one for every keyed task.
RowsAreUnique == \A row, other \in idempotency : row.key = other.key => row = other

KeyedTasksHaveRows ==
    \A t \in Task :
        status[t] # "ABSENT" /\ Keyed(request[t]) =>
            [key |-> IdempotencyKey(request[t]), execution |-> t] \in idempotency

\* The idempotency rows only change when a new key is queued (create_task).
LEMMA StepOfKeys ==
    ASSUME TypeOK, [Next]_vars
    PROVE  \/ /\ idempotency' = idempotency
              /\ \A t \in Task : status'[t] # "ABSENT" =>
                     \/ status[t] # "ABSENT" /\ request'[t] = request[t]
                     \/ ~Keyed(request'[t])
           \/ \E r \in Submission, t \in Task :
                /\ Keyed(r) /\ Enqueue(r, t)
                /\ idempotency' = idempotency \cup {[key |-> IdempotencyKey(r), execution |-> t]}
<1> DEFINE Same ==
      /\ idempotency' = idempotency
      /\ \A t \in Task : status'[t] # "ABSENT" =>
             \/ status[t] # "ABSENT" /\ request'[t] = request[t]
             \/ ~Keyed(request'[t])
<1>1. ASSUME NEW r \in Submission, NEW t \in Task, Enqueue(r, t), Keyed(r)
      PROVE  idempotency' = idempotency \cup {[key |-> IdempotencyKey(r), execution |-> t]}
  BY <1>1 DEF Enqueue
<1>2. ASSUME NEW r \in Submission, NEW t \in Task, Enqueue(r, t), ~Keyed(r)
      PROVE  Same
  <2>1. idempotency' = idempotency /\ request'[t] = r
    BY <1>2 DEF Enqueue, TypeOK
  <2>2. \A u \in Task \ {t} : request'[u] = request[u] /\ status'[u] = status[u]
    BY <1>2 DEF Enqueue, TypeOK
  <2>3. QED
    BY <1>2, <2>1, <2>2
<1>3. CASE UNCHANGED <<status, request, idempotency>>
  BY <1>3
<1>4. ASSUME UNCHANGED <<request, idempotency>>, NEW t \in Task, status[t] # "ABSENT",
             status' = [status EXCEPT ![t] = status'[t]]
      PROVE  Same
  BY <1>4 DEF TypeOK
<1>5. QED
  BY <1>1, <1>2, <1>3, <1>4
  DEF Next, ClientStep, AgentStep, CreateTask, Replay, NextTask, QueuedFor, FinishTask,
      FinishCrash, FinishError, RunningOn, SetVerdict, ReadTask, ReviewableTasks, Restart, Heartbeat,
      tableVars, storeVars, vars

\* Two tasks of one actor, host, target and key are the same task, also after
\* the first has ended, its result expired or the Controller restarted.
THEOREM KeysNameOneTask == Spec => []OneTaskPerKey
<1>1. Init => RowsAreUnique /\ KeyedTasksHaveRows
  BY DEF Init, RowsAreUnique, KeyedTasksHaveRows
<1>2. TypeOK /\ RowsAreUnique /\ KeyedTasksHaveRows /\ [Next]_vars =>
        RowsAreUnique' /\ KeyedTasksHaveRows'
  <2> SUFFICES ASSUME TypeOK, RowsAreUnique, KeyedTasksHaveRows, [Next]_vars
               PROVE  RowsAreUnique' /\ KeyedTasksHaveRows'
    OBVIOUS
  <2>1. ASSUME NEW r \in Submission, NEW t \in Task, Keyed(r), Enqueue(r, t),
               idempotency' = idempotency \cup {[key |-> IdempotencyKey(r), execution |-> t]}
        PROVE  RowsAreUnique' /\ KeyedTasksHaveRows'
    <3> DEFINE new == [key |-> IdempotencyKey(r), execution |-> t]
    <3>1. \A row \in idempotency : row.key # new.key
      BY <2>1 DEF Enqueue, Replayed
    <3>2. RowsAreUnique'
      BY <2>1, <3>1 DEF RowsAreUnique
    <3>3. request'[t] = r /\ new \in idempotency'
      BY <2>1 DEF Enqueue, TypeOK
    <3>4. ASSUME NEW u \in Task, u # t, status'[u] # "ABSENT", Keyed(request'[u])
          PROVE  [key |-> IdempotencyKey(request'[u]), execution |-> u] \in idempotency'
      <4>1. status[u] # "ABSENT" /\ request'[u] = request[u]
        BY <2>1, <3>4 DEF Enqueue, TypeOK
      <4>2. [key |-> IdempotencyKey(request[u]), execution |-> u] \in idempotency
        BY <3>4, <4>1 DEF KeyedTasksHaveRows
      <4>3. QED
        BY <2>1, <4>1, <4>2
    <3>5. KeyedTasksHaveRows'
      BY <3>3, <3>4 DEF KeyedTasksHaveRows
    <3>6. QED
      BY <3>2, <3>5
  <2>2. ASSUME idempotency' = idempotency,
               \A t \in Task : status'[t] # "ABSENT" =>
                  \/ status[t] # "ABSENT" /\ request'[t] = request[t]
                  \/ ~Keyed(request'[t])
        PROVE  RowsAreUnique' /\ KeyedTasksHaveRows'
    <3>1. RowsAreUnique'
      BY <2>2 DEF RowsAreUnique
    <3>2. ASSUME NEW u \in Task, status'[u] # "ABSENT", Keyed(request'[u])
          PROVE  [key |-> IdempotencyKey(request'[u]), execution |-> u] \in idempotency'
      BY <2>2, <3>2 DEF KeyedTasksHaveRows
    <3>3. QED
      BY <3>1, <3>2 DEF KeyedTasksHaveRows
  <2>3. QED
    BY <2>1, <2>2, StepOfKeys
<1>3. RowsAreUnique /\ KeyedTasksHaveRows => OneTaskPerKey
  <2> SUFFICES ASSUME RowsAreUnique, KeyedTasksHaveRows, NEW t \in Task, NEW u \in Task,
                      status[t] # "ABSENT", Keyed(request[t]),
                      status[u] # "ABSENT", Keyed(request[u]),
                      IdempotencyKey(request[t]) = IdempotencyKey(request[u])
               PROVE  t = u
    BY DEF OneTaskPerKey
  <2> DEFINE row(v) == [key |-> IdempotencyKey(request[v]), execution |-> v]
  <2>1. row(t) \in idempotency /\ row(u) \in idempotency
    BY DEF KeyedTasksHaveRows
  <2>2. row(t) = row(u)
    BY <2>1 DEF RowsAreUnique
  <2>3. QED
    BY <2>2
<1>4. QED
  BY <1>1, <1>2, <1>3, TypeCorrect, PTL DEF Spec
=============================================================================
