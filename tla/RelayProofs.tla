----------------------------- MODULE RelayProofs -----------------------------
(***************************************************************************)
(* Proofs about the relay as a whole, for any tasks, clients, numbers of   *)
(* faults and times: what the store and the agent guarantee together.      *)
(***************************************************************************)
EXTENDS Relay, TaskStoreProofs, HostAgentProofs

-----------------------------------------------------------------------------
(* A step of the relay is a step of the store beside a step of the agent   *)

\* The agent moves, and polls no task.
AgentMove == LoopStep /\ (job' = job \/ job' = NoJob) /\ now' = now

\* A report of what the agent owes is served, or its serving cut short.
Serves(t, rep) ==
    FinishTask(Self, t, rep) \/ FinishCrash(Self, t, rep) \/ FinishError(Self, t, rep)

Reporting ==
    /\ AgentMove /\ starts' = starts /\ outcome' = outcome
    /\ \E t \in Task, rep \in Report :
          /\ Serves(t, rep)
          /\ \/ mem # NoReport /\ t = mem.task /\ rep.verdict = mem.verdict /\ rep.result = mem.result
             \/ /\ t \in Undelivered(book) /\ rep.result = "tagged"
                /\ rep.verdict = VerdictOf(book[t].state)

Beating == AgentMove /\ starts' = starts /\ outcome' = outcome /\ pc = "beat" /\ Heartbeat(Self)

Polling ==
    \E t \in Task :
        /\ NextTask(Self, t)
        /\ PollTask([task |-> t, capability |-> request[t].capability])
        /\ [task |-> t, capability |-> request[t].capability] \in Job
        /\ now' = now

OrphanPolling == (\E t \in Task : NextTask(Self, t)) /\ UNCHANGED agentVars /\ now' = now

Alone == AgentMove /\ UNCHANGED storeVars

Restarting == AgentMove /\ starts' = starts /\ outcome' = outcome /\ Restart

ClientsOnly == ClientStep /\ UNCHANGED agentVars /\ now' = now

TimeOnly == Tick /\ UNCHANGED <<storeVars, agentVars>>

\* The eight shapes of a step.
Shape ==
    \/ Reporting \/ Beating \/ Polling \/ OrphanPolling
    \/ Alone \/ Restarting \/ ClientsOnly \/ TimeOnly

Base == TypeOK /\ AgentTypeOK /\ LoopInv

\* What the agent posts is a report, if the Api takes it.
LEMMA PostedType ==
    ASSUME NEW p \in Pending, ~TooLarge(p)
    PROVE  /\ Posted(p) \in Report
           /\ Posted(p).verdict = p.verdict /\ Posted(p).result = p.result
BY DEF Posted, TooLarge, Pending, Report

\* So is the report of a kept record.
LEMMA KeptType ==
    ASSUME AgentTypeOK, NEW t \in Undelivered(book)
    PROVE  /\ KeptReport(t) \in Pending /\ KeptReport(t).task = t
           /\ ~TooLarge(KeptReport(t)) => KeptReport(t).result = "tagged"
           /\ KeptReport(t).verdict = VerdictOf(book[t].state)
<1>1. t \in Task /\ book[t] \in Entry
  BY DEF Undelivered, AgentTypeOK
<1>2. KeptReport(t) \in Pending
  BY <1>1, PayloadType DEF KeptReport
<1> QED
  BY <1>1, <1>2 DEF KeptReport, PayloadOf, Carried, TooLarge

\* The agent taking an answer (other than a task) is a move of its loop.
LEMMA AnswerIsMove ==
    ASSUME \/ \E reply \in Answer : PostMem(reply) \/ Beat(reply) \/ PollEmpty(reply)
           \/ \E reply \in Answer, written \in BOOLEAN : PostKept(reply, written),
           now' = now
    PROVE  AgentMove /\ starts' = starts /\ outcome' = outcome
<1>1. LoopStep
  BY DEF LoopStep
<1>2. (job' = job \/ job' = NoJob) /\ starts' = starts /\ outcome' = outcome
  <2>1. CASE \E reply \in Answer : PostMem(reply) \/ Beat(reply) \/ PollEmpty(reply)
    BY <2>1 DEF PostMem, Beat, PollEmpty, Die, historyVars
  <2>2. CASE \E reply \in Answer, written \in BOOLEAN : PostKept(reply, written)
    BY <2>2 DEF PostKept, Die, historyVars
  <2> QED BY <2>1, <2>2
<1> QED
  BY <1>1, <1>2 DEF AgentMove

\* A step of the agent without a request is a move of its loop.
LEMMA LocalIsMove ==
    ASSUME \/ Start \/ StartUnread \/ Crash \/ Execute
           \/ \E written \in BOOLEAN : Save(written),
           now' = now
    PROVE  AgentMove
<1>1. LoopStep
  BY DEF LoopStep, Execute, Save, Ending
<1>2. job' = job \/ job' = NoJob
  <2>1. CASE Start \/ StartUnread \/ Crash
    BY <2>1 DEF Start, StartUnread, Crash, Die
  <2>2. CASE Execute
    BY <2>2 DEF Execute, Refuse, Launch, Break, FinishObservation
  <2>3. CASE \E written \in BOOLEAN : Save(written)
    BY <2>3 DEF Save, Top, Recall, FinishExecution, CannotDrop, Die
  <2> QED BY <2>1, <2>2, <2>3
<1> QED
  BY <1>1, <1>2 DEF AgentMove

\* Every step of the relay has one of the eight shapes.
LEMMA StepHasShape ==
    ASSUME Base, [RelayNext]_relayVars
    PROVE  Shape
<1> USE DEF Base, Shape
<1>0. "ok" \in Answer /\ "refused" \in Answer /\ "unavailable" \in Answer /\ TRUE \in BOOLEAN
  BY DEF Answer
<1>1. CASE ReportMem
  <2>1. mem \in Pending /\ mem # NoReport /\ mem.task \in Task
    BY <1>1 DEF ReportMem, LoopInv, SnapshotIsRight, AgentTypeOK, Pending
  <2>2. FinishTask(Self, mem.task, Posted(mem)) /\ ~TooLarge(mem)
    BY <1>1 DEF ReportMem, Served
  <2>3. \E reply \in Answer : PostMem(reply)
    BY <1>0, <1>1 DEF ReportMem, Reply
  <2>4. now' = now BY <1>1 DEF ReportMem
  <2>5. AgentMove /\ starts' = starts /\ outcome' = outcome
    BY <2>3, <2>4, AnswerIsMove
  <2> QED BY <2>1, <2>2, <2>5, PostedType DEF Reporting, Serves
<1>2. CASE ReportKept
  <2>1. delivery \in Undelivered(book) /\ delivery \in Task
    BY <1>2 DEF ReportKept, Undelivered
  <2>2. FinishTask(Self, delivery, Posted(KeptReport(delivery))) /\ ~TooLarge(KeptReport(delivery))
    BY <1>2, <2>1, KeptType DEF ReportKept, Served
  <2>3. \E reply \in Answer, written \in BOOLEAN : PostKept(reply, written)
    BY <1>0, <1>2 DEF ReportKept, Reply
  <2>4. now' = now BY <1>2 DEF ReportKept
  <2>5. AgentMove /\ starts' = starts /\ outcome' = outcome
    BY <2>3, <2>4, AnswerIsMove
  <2>6. Posted(KeptReport(delivery)) \in Report
    BY <2>1, <2>2, KeptType, PostedType
  <2> QED BY <2>1, <2>2, <2>5, <2>6, KeptType, PostedType DEF Reporting, Serves
<1>3. CASE ReportCut
  <2>1. \/ pc = "postMem" /\ ServedInPart(mem) /\ PostMem("unavailable")
        \/ /\ pc = "postKept" /\ delivery \in Undelivered(book)
           /\ ServedInPart(KeptReport(delivery)) /\ PostKept("unavailable", TRUE)
    BY <1>3 DEF ReportCut
  <2>2. now' = now BY <1>3 DEF ReportCut
  <2>3. AgentMove /\ starts' = starts /\ outcome' = outcome
    BY <1>0, <2>1, <2>2, AnswerIsMove
  <2>4. CASE pc = "postMem" /\ ServedInPart(mem)
    <3>1. mem \in Pending /\ mem # NoReport /\ mem.task \in Task
      BY <2>4 DEF LoopInv, SnapshotIsRight, AgentTypeOK, Pending
    <3>2. ~TooLarge(mem) /\ Serves(mem.task, Posted(mem))
      BY <2>4 DEF ServedInPart, Serves
    <3> QED BY <2>3, <3>1, <3>2, PostedType DEF Reporting
  <2>5. CASE delivery \in Undelivered(book) /\ ServedInPart(KeptReport(delivery))
    <3>1. delivery \in Task /\ KeptReport(delivery).task = delivery
      BY <2>5, KeptType DEF Undelivered
    <3>2. ~TooLarge(KeptReport(delivery)) /\ Serves(delivery, Posted(KeptReport(delivery)))
      BY <2>5, <3>1 DEF ServedInPart, Serves
    <3>3. Posted(KeptReport(delivery)) \in Report
      BY <2>5, <3>2, KeptType, PostedType
    <3> QED BY <2>3, <2>5, <3>1, <3>2, <3>3, KeptType, PostedType DEF Reporting
  <2> QED BY <2>1, <2>4, <2>5
<1>15. CASE ReportTooLarge
  <2>1. AgentMove
    BY <1>0, <1>15, AnswerIsMove DEF ReportTooLarge
  <2> QED BY <1>15, <2>1 DEF ReportTooLarge, Alone
<1>4. CASE RequestLost
  <2>1. AgentMove
    BY <1>0, <1>4, AnswerIsMove DEF RequestLost
  <2> QED BY <1>4, <2>1 DEF RequestLost, Alone
<1>5. CASE HeartbeatServed
  <2>1. AgentMove /\ starts' = starts /\ outcome' = outcome
    BY <1>0, <1>5, AnswerIsMove DEF HeartbeatServed
  <2> QED BY <1>5, <2>1 DEF HeartbeatServed, Beating
<1>6. CASE PollServed
  <2>1. PICK t \in Task :
          NextTask(Self, t) /\ PollTask([task |-> t, capability |-> request[t].capability])
    BY <1>6 DEF PollServed
  <2>2. request[t] \in Submission
    BY <2>1 DEF NextTask, QueuedFor, TypeOK
  <2>3. request[t].capability \in Capability
    BY <2>2, SubmissionAssumption DEF Request
  <2> QED BY <1>6, <2>1, <2>3 DEF PollServed, Polling, Job
<1>7. CASE PollTimesOut \/ PollLost
  <2>1. AgentMove
    BY <1>0, <1>7, AnswerIsMove DEF PollTimesOut, PollLost
  <2> QED BY <1>7, <2>1 DEF PollTimesOut, PollLost, Alone
<1>8. CASE OrphanTakes
  BY <1>8 DEF OrphanTakes, OrphanPolling
<1>9. CASE OrphanEnds
  <2>1. UNCHANGED agentVars /\ UNCHANGED storeVars /\ now' = now
    BY <1>9 DEF OrphanEnds
  <2> QED BY <2>1 DEF Alone, AgentMove, LoopStep, agentVars
<1>10. CASE AgentLocal \/ AgentCrash
  <2>1. AgentMove
    BY <1>10, LocalIsMove DEF AgentLocal, AgentCrash
  <2> QED BY <1>10, <2>1 DEF AgentLocal, AgentCrash, Alone
<1>11. CASE StoreCrash
  <2>1. CASE UNCHANGED agentVars
    BY <1>11, <2>1 DEF StoreCrash, Restarting, AgentMove, LoopStep, agentVars
  <2>2. CASE PollEmpty("unavailable")
    BY <1>0, <1>11, <2>2, AnswerIsMove DEF StoreCrash, Restarting
  <2> QED BY <1>11, <2>1, <2>2 DEF StoreCrash
<1>12. CASE Clients
  BY <1>12 DEF Clients, ClientsOnly
<1>13. CASE Passing
  BY <1>13 DEF Passing, TimeOnly
<1>14. CASE UNCHANGED relayVars
  BY <1>14 DEF relayVars, Alone, AgentMove, LoopStep, agentVars, storeVars
<1> QED
  BY <1>1, <1>2, <1>3, <1>4, <1>5, <1>6, <1>7, <1>8, <1>9, <1>10, <1>11, <1>12, <1>13, <1>14,
     <1>15
  DEF RelayNext

\* For the store, every step is an operation of it or leaves it alone.
LEMMA ShapeOfStore ==
    ASSUME Shape
    PROVE  [Next]_vars
<1> USE RelayAssumption
<1>1. CASE Reporting
  BY <1>1 DEF Reporting, Serves, AgentMove, Next, AgentStep
<1>2. CASE Beating
  BY <1>2 DEF Beating, AgentMove, Next, AgentStep
<1>3. CASE Polling \/ OrphanPolling
  BY <1>3 DEF Polling, OrphanPolling, Next, AgentStep
<1>4. CASE Alone
  BY <1>4 DEF Alone, AgentMove, vars
<1>5. CASE Restarting
  BY <1>5 DEF Restarting, AgentMove, Next
<1>6. CASE ClientsOnly
  BY <1>6 DEF ClientsOnly, Next
<1>7. CASE TimeOnly
  BY <1>7 DEF TimeOnly, Next
<1> QED
  BY <1>1, <1>2, <1>3, <1>4, <1>5, <1>6, <1>7 DEF Shape

\* For the agent, every step is a step of its loop, or time passes.
LEMMA ShapeOfAgent ==
    ASSUME Shape
    PROVE  (LoopStep /\ now' = now) \/ (Tick /\ UNCHANGED agentVars)
<1>1. CASE Polling
  BY <1>1 DEF Polling, LoopStep
<1>2. CASE OrphanPolling \/ ClientsOnly
  BY <1>2 DEF OrphanPolling, ClientsOnly, LoopStep
<1>3. CASE TimeOnly
  BY <1>3 DEF TimeOnly
<1>4. CASE Reporting \/ Beating \/ Alone \/ Restarting
  BY <1>4 DEF Reporting, Beating, Alone, Restarting, AgentMove
<1> QED
  BY <1>1, <1>2, <1>3, <1>4 DEF Shape

\* Both sides start well typed, the agent at the top of its loop.
LEMMA BaseInit ==
    ASSUME RelayInit
    PROVE  Base
<1>1. TypeOK
  BY MaxTimeAssumption DEF RelayInit, Init, ClockInit, TypeOK, Status, Retained, Time
<1>2. AgentTypeOK
  BY MaxTimeAssumption DEF RelayInit, AgentInit, AgentTypeOK, Place, Stopped, Time, Outcome
<1>3. Undelivered(book) = {} /\ Undelivered(disk) = {}
  BY DEF RelayInit, AgentInit, Undelivered
<1>4. LoopInv
  BY <1>3 DEF RelayInit, AgentInit, LoopInv, StoppedIsEmpty, BookLeadsDisk, SnapshotIsRight,
     RunningIsUnknown, OwesAtMostOne, Stopped
<1> QED
  BY <1>1, <1>2, <1>4 DEF Base

\* Every step has a shape, and keeps both sides well typed.
LEMMA BaseStep ==
    ASSUME Base, [RelayNext]_relayVars
    PROVE  Shape /\ Base'
<1>1. Shape
  BY StepHasShape
<1>2. now \in Time
  BY DEF Base, TypeOK
<1>3. TypeOK'
  BY <1>1, ShapeOfStore, TypeStep DEF Base
<1>4. AgentTypeOK' /\ LoopInv'
  <2>1. CASE LoopStep /\ now' = now
    BY <1>2, <2>1, AgentTypeStep, LoopInvStep DEF Base
  <2>2. CASE Tick /\ UNCHANGED agentVars
    BY <1>2, <2>2, LoopInvTick DEF Base
  <2> QED BY <1>1, <2>1, <2>2, ShapeOfAgent
<1> QED
  BY <1>1, <1>3, <1>4 DEF Base

\* Both sides stay well typed, and the agent's loop keeps its books, through
\* every fault.
THEOREM BaseInvariant == RelaySpec => []Base
<1>1. RelayInit => Base
  BY BaseInit
<1>2. Base /\ [RelayNext]_relayVars => Base'
  BY BaseStep
<1> QED BY <1>1, <1>2, PTL DEF RelaySpec

\* The store inside the relay is the store of TaskStore: whatever was proved
\* of it for any clients and agents holds in the relay.
THEOREM RelayImplementsStore == RelaySpec => Spec
<1>1. RelayInit => Init
  BY DEF RelayInit
<1>2. Base /\ [RelayNext]_relayVars => [Next]_vars
  BY BaseStep, ShapeOfStore
<1> QED BY <1>1, <1>2, BaseInvariant, PTL DEF RelaySpec, Spec

-----------------------------------------------------------------------------
(* The inductive invariant of the relay                                    *)

Taken(t) == status[t] \notin {"ABSENT", "QUEUED"} /\ request[t].host = Self
Earned(t) == starts[t] = 1 /\ outcome[t] = "succeeded"

\* What the agent knows of a task, next_task told it of this host's task.
HoldsOnlyTaken ==
    /\ job # NoJob => Taken(job.task) /\ job.capability = request[job.task].capability
    /\ mem # NoReport => Taken(mem.task) /\ (mem.result = "plain" => ~IsPersistent(mem.task))
    /\ \A t \in Task : book[t] # NoEntry \/ disk[t] # NoEntry => Taken(t) /\ IsPersistent(t)

\* Work is started after the hand-out, once, and ends once.
WorkedInTurn ==
    /\ AtMostOnce
    /\ \A t \in Task :
          /\ status[t] \in {"ABSENT", "QUEUED"} => starts[t] = 0
          /\ starts[t] = 0 => outcome[t] = "none"
    /\ pc = "exec" => starts[job.task] = 0
    /\ pc = "running" => starts[job.task] = 1 /\ outcome[job.task] = "none"

\* Every success on its way to the client was earned.
SuccessIsEarnedAllAlong ==
    /\ mem # NoReport /\ mem.verdict = "SUCCEEDED" => Earned(mem.task)
    /\ \A t \in Task :
          /\ book[t] # NoEntry /\ book[t].state = "succeeded" => Earned(t)
          /\ disk[t] # NoEntry /\ disk[t].state = "succeeded" => Earned(t)
    /\ SuccessIsEarned

\* The agent has not beaten since it took what it holds, and has read.
HeldSinceBeat ==
    /\ lastHeartbeat[Self] <= now
    /\ \A t \in Task \ unread : Holds(t) /\ status[t] = "RUNNING" => lastHeartbeat[Self] <= started[t]
    /\ InterruptedMeansGone

RelayInv ==
    /\ Base /\ HoldsOnlyTaken /\ WorkedInTurn /\ SuccessIsEarnedAllAlong
    /\ HeldSinceBeat

\* Before the first task nothing is held, worked on or evidenced.
LEMMA RelayInvInit ==
    ASSUME RelayInit
    PROVE  RelayInv
<1>1. Undelivered(book) = {} /\ Undelivered(disk) = {}
  BY DEF RelayInit, AgentInit, Undelivered
<1>2. HoldsOnlyTaken /\ WorkedInTurn /\ SuccessIsEarnedAllAlong
  BY DEF RelayInit, Init, AgentInit, HoldsOnlyTaken, WorkedInTurn, SuccessIsEarnedAllAlong,
     AtMostOnce, SuccessIsEarned
<1>3. HeldSinceBeat
  BY <1>1, RelayAssumption
  DEF RelayInit, Init, ClockInit, AgentInit, HeldSinceBeat, InterruptedMeansGone, Holds, Owes
<1> QED
  BY <1>2, <1>3, BaseInit DEF RelayInv

-----------------------------------------------------------------------------
(* What a step of the relay leaves alone                                   *)

\* A task handed out to this host stays so.
LEMMA TakenStays ==
    ASSUME Base, Shape, NEW t \in Task, Taken(t)
    PROVE  Taken(t)' /\ request'[t] = request[t] /\ (IsPersistent(t)' <=> IsPersistent(t))
<1>1. Stays(t) \/ IsReported(t) \/ IsGivenUp(t)
  BY ShapeOfStore, StepOfTask DEF Base, Taken, IsQueued, IsHandedOut
<1>2. request'[t] = request[t] /\ status'[t] \notin {"ABSENT", "QUEUED"}
  BY <1>1 DEF Stays, IsReported, IsGivenUp, RowKept, Taken, Verdict, GivenUpAs
<1> QED
  BY <1>2 DEF Taken, IsPersistent

\* Every shape is a step of the agent's loop, or leaves the agent alone.
LEMMA ShapeIsLoopStep ==
    ASSUME Shape
    PROVE  LoopStep
BY ShapeOfAgent DEF LoopStep

\* A job only comes from a poll the store answered with it.
LEMMA JobOfShape ==
    ASSUME Shape
    PROVE  job' = job \/ job' = NoJob \/ Polling
<1>1. CASE OrphanPolling \/ ClientsOnly \/ TimeOnly
  BY <1>1 DEF OrphanPolling, ClientsOnly, TimeOnly, agentVars
<1>2. CASE Reporting \/ Beating \/ Alone \/ Restarting
  BY <1>2 DEF Reporting, Beating, Alone, Restarting, AgentMove
<1> QED
  BY <1>1, <1>2 DEF Shape

\* Nothing gets into the agent's hands that next_task did not hand out.
LEMMA HoldsOnlyTakenStep ==
    ASSUME Base, HoldsOnlyTaken, Shape
    PROVE  HoldsOnlyTaken'
<1> USE DEF HoldsOnlyTaken
<1>0. AgentTypeOK /\ LoopStep
  BY ShapeIsLoopStep DEF Base
<1>1. job' # NoJob => Taken(job.task)' /\ job'.capability = request'[job'.task].capability
  <2>1. CASE job' = job /\ job # NoJob
    <3>1. job.task \in Task
      BY <1>0, <2>1 DEF AgentTypeOK, Job
    <3>2. Taken(job.task)' /\ request'[job.task] = request[job.task]
      <4>1. Taken(job.task)
        BY <2>1
      <4> DEFINE u == job.task
      <4>2. u' = u
        BY <2>1
      <4>3. status'[u] \notin {"ABSENT", "QUEUED"} /\ request'[u].host = Self /\ request'[u] = request[u]
        BY <3>1, <4>1, TakenStays DEF Taken
      <4> QED BY <4>2, <4>3 DEF Taken
    <3> QED BY <2>1, <3>2
  <2>2. CASE Polling
    <3>1. PICK t \in Task :
            NextTask(Self, t) /\ PollTask([task |-> t, capability |-> request[t].capability])
      BY <2>2 DEF Polling
    <3>2. job' = [task |-> t, capability |-> request[t].capability] /\ request' = request
      BY <3>1 DEF PollTask, NextTask
    <3>3. status'[t] = "RUNNING" /\ request[t].host = Self
      BY <3>1 DEF NextTask, QueuedFor, Base, TypeOK
    <3> QED BY <3>2, <3>3 DEF Taken
  <2> QED BY <2>1, <2>2, JobOfShape
<1>2. mem' # NoReport => Taken(mem.task)' /\ (mem'.result = "plain" => ~IsPersistent(mem.task)')
  <2>1. ASSUME NEW u \in Task, Taken(u), mem' # NoReport, mem'.task = u,
               mem'.result = "plain" => ~IsPersistent(u)
        PROVE  Taken(mem.task)' /\ (mem'.result = "plain" => ~IsPersistent(mem.task)')
    <3>1. Taken(u)' /\ (IsPersistent(u)' <=> IsPersistent(u))
      BY <2>1, TakenStays
    <3> QED BY <2>1, <3>1 DEF Taken, IsPersistent
  <2>2. CASE mem' = mem /\ mem # NoReport
    <3>1. mem.task \in Task
      BY <1>0, <2>2 DEF AgentTypeOK, Pending
    <3> QED BY <2>1, <2>2, <3>1
  <2>3. CASE ReportOfJob /\ mem' # NoReport
    <3>1. job # NoJob /\ mem'.task = job.task /\ (mem'.result = "plain" => ~JobPersistent)
      BY <2>3 DEF ReportOfJob
    <3>2. job.task \in Task
      BY <1>0, <3>1 DEF AgentTypeOK, Job
    <3>3. JobPersistent <=> IsPersistent(job.task)
      BY <3>1 DEF JobPersistent, IsPersistent
    <3> QED BY <2>1, <2>3, <3>1, <3>2, <3>3
  <2> QED BY <1>0, <2>2, <2>3, ReportSource
<1>3. ASSUME NEW t \in Task, book'[t] # NoEntry \/ disk'[t] # NoEntry
      PROVE  Taken(t)' /\ IsPersistent(t)'
  <2>1. CASE book[t] # NoEntry \/ disk[t] # NoEntry
    BY <2>1, TakenStays
  <2>2. CASE pc = "running" /\ JobPersistent /\ job.task = t
    <3>1. job # NoJob
      BY <1>0, <2>2 DEF AgentTypeOK
    <3>2. Taken(t) /\ IsPersistent(t)
      BY <2>2, <3>1 DEF JobPersistent, IsPersistent
    <3> QED BY <3>2, TakenStays
  <2> QED BY <1>0, <1>3, <2>1, <2>2, RecordSource
<1> QED
  BY <1>1, <1>2, <1>3

-----------------------------------------------------------------------------
(* Work is started once, and success is earned                             *)

\* A hand-out happens once and comes before the start of the work.
LEMMA WorkedInTurnStep ==
    ASSUME Base, HoldsOnlyTaken, WorkedInTurn, Shape, AgentTypeOK'
    PROVE  WorkedInTurn'
<1> USE DEF WorkedInTurn, AtMostOnce
<1>0. /\ AgentTypeOK /\ LoopStep
      /\ starts \in [Task -> Nat] /\ outcome \in [Task -> Outcome]
  BY ShapeIsLoopStep DEF Base, AgentTypeOK
<1>1. ASSUME pc \in {"exec", "running"}
      PROVE  job # NoJob /\ job.task \in Task /\ Taken(job.task)
  BY <1>0, <1>1 DEF AgentTypeOK, Job, HoldsOnlyTaken
<1>2. ASSUME NEW t \in Task
      PROVE  /\ starts'[t] <= 1
             /\ starts'[t] # starts[t] => Launch /\ job.task = t /\ starts'[t] = 1
             /\ starts[t] = 0 \/ starts'[t] = 1
  <2>1. CASE starts' = starts
    <3>1. starts[t] \in Nat /\ starts[t] <= 1
      BY <1>0
    <3> QED BY <2>1, <3>1
  <2>2. CASE Launch
    <3>1. pc = "exec" /\ starts' = [starts EXCEPT ![job.task] = @ + 1] /\ starts[job.task] = 0
      BY <2>2 DEF Launch
    <3>2. starts'[t] = IF t = job.task THEN 1 ELSE starts[t]
      BY <1>0, <3>1
    <3>3. starts[t] \in Nat /\ starts[t] <= 1
      BY <1>0
    <3> QED BY <2>2, <3>2, <3>3
  <2> QED BY <1>0, <2>1, <2>2, JobSource
<1>3. ASSUME NEW t \in Task
      PROVE  /\ status'[t] \in {"ABSENT", "QUEUED"} => starts'[t] = 0
             /\ starts'[t] = 0 => outcome'[t] = "none"
  <2>1. ASSUME status'[t] \in {"ABSENT", "QUEUED"} PROVE starts'[t] = 0
    <3>1. status[t] \in {"ABSENT", "QUEUED"}
      BY <2>1, ShapeOfStore, StepOfTask
      DEF Base, Stays, IsQueued, IsHandedOut, IsReported, IsGivenUp, GivenUpAs, Verdict
    <3>2. ~(Launch /\ job.task = t)
      BY <1>1, <3>1 DEF Launch, Taken
    <3> QED BY <1>2, <3>1, <3>2
  <2>2. ASSUME starts'[t] = 0 PROVE outcome'[t] = "none"
    <3>1. starts[t] = 0
      BY <1>2, <2>2
    <3>2. ~(pc = "running" /\ job.task = t)
      BY <3>1
    <3>3. outcome'[t] = outcome[t]
      BY <1>0, <1>1, <3>2, OutcomeSource
    <3> QED BY <3>1, <3>3
  <2> QED BY <2>1, <2>2
<1>4. ASSUME pc' = "exec" PROVE starts'[job'.task] = 0
  <2>1. CASE UNCHANGED agentVars
    BY <1>4, <2>1 DEF agentVars
  <2>2. CASE \E j \in Job : PollTask(j)
    <3>1. Polling
      <4>1. PICK j \in Job : PollTask(j)
        BY <2>2
      <4>2. job = NoJob /\ job' = j /\ j # NoJob
        BY <1>0, <4>1, AbsenceAssumption DEF PollTask, AgentTypeOK
      <4> QED BY <4>2, JobOfShape
    <3>2. PICK t \in Task : /\ NextTask(Self, t)
                            /\ PollTask([task |-> t, capability |-> request[t].capability])
      BY <3>1 DEF Polling
    <3>3. status[t] = "QUEUED" /\ job'.task = t /\ starts' = starts
      BY <3>2 DEF NextTask, QueuedFor, PollTask, historyVars
    <3> QED BY <3>2, <3>3
  <2>3. ~Launch
    BY <1>4 DEF Launch
  <2> QED BY <1>0, <1>4, <2>1, <2>2, <2>3, ExecSource
<1>5. ASSUME pc' = "running" PROVE starts'[job'.task] = 1 /\ outcome'[job'.task] = "none"
  <2>1. CASE UNCHANGED agentVars
    BY <1>5, <2>1 DEF agentVars
  <2>2. CASE Launch
    <3>1. pc = "exec" /\ job' = job /\ outcome' = outcome
          /\ starts' = [starts EXCEPT ![job.task] = @ + 1]
      BY <2>2 DEF Launch
    <3>2. job.task \in Task /\ starts[job.task] = 0 /\ outcome[job.task] = "none"
      BY <1>1, <3>1
    <3> QED BY <1>0, <3>1, <3>2
  <2>3. ~\E j \in Job : PollTask(j)
    BY <1>5 DEF PollTask
  <2> QED BY <1>0, <1>5, <2>1, <2>2, <2>3, ExecSource
<1> QED
  BY <1>2, <1>3, <1>4, <1>5

\* A success once earned stays earned: the work does not run again.
LEMMA EarnedStays ==
    ASSUME Base, WorkedInTurn, Shape, NEW t \in Task, Earned(t)
    PROVE  Earned(t)'
<1>0. /\ AgentTypeOK /\ LoopStep
      /\ starts \in [Task -> Nat] /\ outcome \in [Task -> Outcome]
      /\ starts[t] = 1 /\ outcome[t] = "succeeded"
  BY ShapeIsLoopStep DEF Base, AgentTypeOK, Earned
<1>1. starts'[t] = 1
  <2>1. CASE starts' = starts
    BY <1>0, <2>1
  <2>2. CASE Launch
    <3>1. starts[job.task] = 0 /\ starts' = [starts EXCEPT ![job.task] = @ + 1]
      BY <2>2 DEF Launch, WorkedInTurn
    <3>2. job.task # t
      BY <1>0, <3>1
    <3> QED BY <1>0, <3>1, <3>2
  <2> QED BY <1>0, <2>1, <2>2, JobSource
<1>2. outcome'[t] = "succeeded"
  <2>1. ~(pc = "running" /\ job.task = t)
    BY <1>0 DEF WorkedInTurn
  <2> QED BY <1>0, <2>1, OutcomeSource
<1> QED
  BY <1>1, <1>2 DEF Earned

\* What just succeeded is earned.
LEMMA EarnedNow ==
    ASSUME Base, WorkedInTurn, Shape, pc = "running",
           outcome' = [outcome EXCEPT ![job.task] = "succeeded"]
    PROVE  \A u \in Task : u = job.task => Earned(u)'
<1>1. AgentTypeOK /\ LoopStep /\ starts[job.task] = 1 /\ ~Launch
  BY ShapeIsLoopStep DEF Base, WorkedInTurn, Launch
<1>2. starts' = starts
  BY <1>1, JobSource
<1> QED
  BY <1>1, <1>2 DEF Earned, AgentTypeOK

\* A verdict reaches the table from a report of this agent.
LEMMA VerdictSource ==
    ASSUME Base, Shape, NEW t \in Task, status'[t] # status[t], status'[t] \in Verdict
    PROVE  \E rep \in Report :
              /\ RunningOn(Self, t) /\ status'[t] = RecordedVerdict(rep)
              /\ Serves(t, rep)
              /\ \/ mem # NoReport /\ t = mem.task /\ rep.verdict = mem.verdict /\ rep.result = mem.result
                 \/ /\ t \in Undelivered(book) /\ rep.result = "tagged"
                    /\ rep.verdict = VerdictOf(book[t].state)
<1>0. status \in [Task -> Status]
  BY DEF Base, TypeOK
<1>1. CASE Reporting
  <2>1. PICK u \in Task, rep \in Report :
          /\ Serves(u, rep)
          /\ \/ mem # NoReport /\ u = mem.task /\ rep.verdict = mem.verdict /\ rep.result = mem.result
             \/ /\ u \in Undelivered(book) /\ rep.result = "tagged"
                /\ rep.verdict = VerdictOf(book[u].state)
    BY <1>1 DEF Reporting
  <2>2. RunningOn(Self, u) /\ status' = [status EXCEPT ![u] = RecordedVerdict(rep)]
    BY <2>1 DEF Serves, FinishTask, FinishCrash, FinishError, SetVerdict
  <2>3. u = t
    BY <1>0, <2>2
  <2> QED BY <1>0, <2>1, <2>2, <2>3
<1>2. CASE Beating \/ Alone \/ TimeOnly \/ Restarting
  BY <1>2 DEF Beating, Alone, TimeOnly, Restarting, Heartbeat, Restart, tableVars, storeVars
<1>3. CASE Polling \/ OrphanPolling
  BY <1>0, <1>3 DEF Polling, OrphanPolling, NextTask, Verdict
<1>4. CASE ClientsOnly
  <2>1. ASSUME NEW r \in Submission, CreateTask(r) PROVE FALSE
    BY <1>0, <2>1 DEF CreateTask, Replay, Enqueue, Verdict
  <2>2. ASSUME NEW u \in Task, NEW reader \in Reader, NEW artifact \in BOOLEAN,
               ReadTask(u, reader, artifact)
        PROVE  FALSE
    BY <1>0, <2>2 DEF ReadTask, StatusRead, GivenUpAs, Verdict
  <2>3. CASE ReviewableTasks
    BY <2>3 DEF ReviewableTasks, tableVars
  <2> QED BY <1>4, <2>1, <2>2, <2>3 DEF ClientsOnly, ClientStep
<1> QED
  BY <1>1, <1>2, <1>3, <1>4 DEF Shape

\* A success is reported as such on every way from the work to the status.
LEMMA SuccessIsEarnedStep ==
    ASSUME Base, HoldsOnlyTaken, WorkedInTurn, SuccessIsEarnedAllAlong, Shape
    PROVE  SuccessIsEarnedAllAlong'
<1> USE DEF SuccessIsEarnedAllAlong
<1>0. AgentTypeOK /\ LoopStep
  BY ShapeIsLoopStep DEF Base
<1>1. ASSUME mem' # NoReport, mem'.verdict = "SUCCEEDED" PROVE Earned(mem.task)'
  <2>1. CASE mem' = mem
    <3>1. mem.task \in Task /\ Earned(mem.task)
      BY <1>0, <1>1, <2>1 DEF AgentTypeOK, Pending
    <3> QED BY <2>1, <3>1, EarnedStays DEF Earned
  <2>2. CASE ReportOfJob
    <3>1. job.task \in Task /\ mem'.task = job.task
      BY <1>0, <2>2 DEF ReportOfJob, AgentTypeOK, Job
    <3>2. CASE book[job.task] # NoEntry /\ book[job.task].state = "succeeded"
      BY <3>1, <3>2, EarnedStays DEF Earned
    <3>3. CASE pc = "running" /\ outcome' = [outcome EXCEPT ![job.task] = "succeeded"]
      BY <3>1, <3>3, EarnedNow DEF Earned
    <3> QED BY <1>1, <2>2, <3>2, <3>3 DEF ReportOfJob
  <2> QED BY <1>0, <1>1, <2>1, <2>2, ReportSource
<1>2. ASSUME NEW t \in Task, NEW e, e # NoEntry, e = book'[t] \/ e = disk'[t], e.state = "succeeded"
      PROVE  Earned(t)'
  <2>1. CASE Earned(t)
    BY <2>1, EarnedStays
  <2>2. CASE pc = "running" /\ job.task = t /\ outcome' = [outcome EXCEPT ![t] = e.state]
    BY <1>2, <2>2, EarnedNow
  <2> QED BY <1>0, <1>2, <2>1, <2>2, RecordedState
<1>3. ASSUME NEW t \in Task, status'[t] = "SUCCEEDED" PROVE Earned(t)'
  <2>1. CASE status[t] = "SUCCEEDED"
    BY <2>1, EarnedStays DEF SuccessIsEarned, Earned
  <2>2. CASE status[t] # "SUCCEEDED"
    <3>1. PICK rep \in Report :
              /\ status'[t] = RecordedVerdict(rep)
              /\ \/ mem # NoReport /\ t = mem.task /\ rep.verdict = mem.verdict
                 \/ t \in Undelivered(book) /\ rep.verdict = VerdictOf(book[t].state)
      BY <1>3, <2>2, VerdictSource DEF Verdict
    <3>2. rep.verdict = "SUCCEEDED"
      BY <1>3, <3>1 DEF RecordedVerdict
    <3>3. Earned(t)
      BY <3>1, <3>2 DEF Undelivered, VerdictOf
    <3> QED BY <3>3, EarnedStays
  <2> QED BY <2>1, <2>2
<1> QED
  BY <1>1, <1>2, <1>3 DEF SuccessIsEarned, Earned

-----------------------------------------------------------------------------
(* What the agent holds it took after its last heartbeat                   *)

\* Only a start changes what is unread.
LEMMA UnreadSource ==
    ASSUME LoopStep
    PROVE  Start \/ StartUnread \/ unread' = unread
<1> USE DEF historyVars
<1>1. CASE Crash \/ Refuse \/ Launch \/ Break
  BY <1>1 DEF Crash, Refuse, Launch, Break
<1>2. CASE \E j \in Job : PollTask(j)
  BY <1>2 DEF PollTask
<1>3. CASE \E reply \in Answer : PostMem(reply) \/ Beat(reply) \/ PollEmpty(reply)
  BY <1>3 DEF PostMem, Beat, PollEmpty
<1>4. CASE \E reply \in Answer, written \in BOOLEAN : PostKept(reply, written)
  BY <1>4 DEF PostKept
<1>5. CASE \E written \in BOOLEAN : Top(written) \/ Recall(written)
  BY <1>5 DEF Top, Recall
<1>6. CASE \E state \in Ending : FinishObservation(state)
  BY <1>6 DEF FinishObservation
<1>7. CASE \E state \in Ending, written \in BOOLEAN : FinishExecution(state, written)
  BY <1>7 DEF FinishExecution
<1>8. CASE UNCHANGED agentVars
  BY <1>8 DEF agentVars
<1> QED BY <1>1, <1>2, <1>3, <1>4, <1>5, <1>6, <1>7, <1>8 DEF LoopStep

\* What a start has not read stays so until it is read with the file, or is no
\* longer on it.
LEMMA UnreadStays ==
    ASSUME Base, Shape, NEW t \in unread, t \notin unread'
    PROVE  ~Holds(t)'
<1>0. AgentTypeOK /\ LoopInv /\ LoopStep
  BY ShapeIsLoopStep DEF Base
<1>1. Start \/ StartUnread \/ unread' = unread
  BY <1>0, UnreadSource
<1>2. CASE Start \/ StartUnread
  <2>1. /\ pc \in Stopped /\ UNCHANGED <<job, mem>> /\ t \in Task
        /\ job = NoJob /\ mem = NoReport /\ book[t] = NoEntry
    BY <1>0, <1>2 DEF Start, StartUnread, AgentTypeOK, LoopInv, StoppedIsEmpty, Stopped
  <2>2. book'[t] = NoEntry /\ disk'[t] = NoEntry
    <3>1. CASE Start
      BY <2>1, <3>1 DEF Start, OnDisk, Current
    <3>2. CASE StartUnread
      BY <2>1, <3>2 DEF StartUnread, OnDisk, bookVars
    <3> QED BY <1>2, <3>1, <3>2
  <2> QED BY <2>1, <2>2 DEF Holds, Owes, Undelivered
<1> QED BY <1>1, <1>2

\* The agent comes to hold a task only by polling it.
LEMMA HoldsSource ==
    ASSUME Base, Shape, NEW t \in Task, Holds(t)'
    PROVE  \/ Holds(t)
           \/ /\ NextTask(Self, t) /\ UNCHANGED lastHeartbeat /\ now' = now
<1>0. AgentTypeOK /\ LoopInv /\ LoopStep
  BY ShapeIsLoopStep DEF Base
<1>1. CASE job' # NoJob /\ job'.task = t
  <2>1. CASE job' = job
    BY <1>1, <2>1 DEF Holds
  <2>2. CASE Polling
    <3>1. PICK u \in Task :
            /\ NextTask(Self, u) /\ now' = now
            /\ PollTask([task |-> u, capability |-> request[u].capability])
      BY <2>2 DEF Polling
    <3>2. u = t
      BY <1>1, <3>1 DEF PollTask
    <3> QED BY <3>1, <3>2 DEF NextTask
  <2> QED BY <1>1, <2>1, <2>2, JobOfShape
<1>2. CASE mem' # NoReport /\ mem'.task = t
  <2>1. CASE mem' = mem
    BY <1>2, <2>1 DEF Holds, Owes
  <2>2. CASE ReportOfJob
    BY <1>2, <2>2 DEF ReportOfJob, Holds
  <2> QED BY <1>0, <1>2, <2>1, <2>2, ReportSource
<1>3. CASE t \in Undelivered(book)' \/ t \in Undelivered(disk)'
  <2>1. \/ t \in Undelivered(book) \cup Undelivered(disk)
        \/ job # NoJob /\ job.task = t
    BY <1>0, <1>3, HeldSource
  <2> QED BY <2>1 DEF Holds, Owes
<1>4. Holds(t)' <=> \/ job' # NoJob /\ job'.task = t
                    \/ mem' # NoReport /\ mem'.task = t
                    \/ t \in Undelivered(book)' \/ t \in Undelivered(disk)'
  BY DEF Holds, Owes
<1> QED
  BY <1>1, <1>2, <1>3, <1>4

\* While it beats, the agent holds nothing it has read: it is single-threaded and posts
\* what it owes before it beats.
LEMMA BeatsEmptyHanded ==
    ASSUME Base, pc = "beat", NEW t \in Task \ unread
    PROVE  ~Holds(t)
<1>1. job = NoJob /\ mem = NoReport /\ Undelivered(book) = {}
  BY DEF Base, AgentTypeOK, LoopInv, OwesAtMostOne
<1>2. Undelivered(disk) \subseteq unread
  BY <1>1 DEF Base, LoopInv, BookLeadsDisk, Stopped
<1> QED
  BY <1>1, <1>2 DEF Holds, Owes

\* The store hears a heartbeat only from an agent at its beat.
LEMMA BeatSource ==
    ASSUME Base, Shape
    PROVE  UNCHANGED lastHeartbeat \/ Beating
<1>1. CASE Reporting
  BY <1>1 DEF Reporting, Serves, FinishTask, FinishCrash, FinishError
<1>2. CASE Polling \/ OrphanPolling
  BY <1>2 DEF Polling, OrphanPolling, NextTask
<1>3. CASE Alone \/ TimeOnly
  BY <1>3 DEF Alone, TimeOnly, storeVars
<1>4. CASE Restarting
  BY <1>4 DEF Restarting, Restart
<1>5. CASE ClientsOnly
  BY <1>5 DEF ClientsOnly, ClientStep, CreateTask, ReadTask, ReviewableTasks
<1> QED
  BY <1>1, <1>2, <1>3, <1>4, <1>5 DEF Shape

\* What is held and RUNNING was held and RUNNING, or has just been taken.
LEMMA HeldRunningSource ==
    ASSUME Base, HoldsOnlyTaken, Shape, NEW t \in Task, Holds(t)
    PROVE  Taken(t) /\ status[t] \in {"RUNNING"} \cup Terminal
<1>1. Taken(t)
  <2>1. CASE job # NoJob /\ job.task = t
    BY <2>1 DEF HoldsOnlyTaken
  <2>2. CASE mem # NoReport /\ mem.task = t
    BY <2>2 DEF HoldsOnlyTaken
  <2>3. CASE t \in Undelivered(book) \/ t \in Undelivered(disk)
    BY <2>3 DEF HoldsOnlyTaken, Undelivered
  <2> QED BY <2>1, <2>2, <2>3 DEF Holds, Owes
<1> QED
  BY <1>1 DEF Base, TypeOK, Taken, Status

\* An agent that holds a running task has not been heard since it took it.
LEMMA HeldSinceBeatStep ==
    ASSUME Base, Base', HoldsOnlyTaken, HeldSinceBeat, Shape
    PROVE  HeldSinceBeat'
<1> USE DEF HeldSinceBeat
<1> USE RelayAssumption, MaxTimeAssumption, StoreTimesAssumption, FreshnessAssumption
<1>0. /\ now \in Nat /\ now' \in Nat /\ now <= now'
      /\ lastHeartbeat[Self] \in Nat /\ lastHeartbeat'[Self] \in Nat
      /\ \A t \in Task : started[t] \in Nat
  BY ShapeOfStore, StepOfTime DEF Base, TypeOK, Time
<1>1. lastHeartbeat'[Self] <= now'
  <2>1. lastHeartbeat'[Self] = lastHeartbeat[Self] \/ lastHeartbeat'[Self] = now
    BY ShapeOfStore, StepOfTime DEF Base
  <2> QED BY <1>0, <2>1
<1>r. ASSUME NEW t \in Task \ unread', Holds(t)' PROVE t \in Task \ unread
  BY <1>r, UnreadStays
<1>2. ASSUME NEW t \in Task \ unread', Holds(t)', status'[t] = "RUNNING"
      PROVE  lastHeartbeat'[Self] <= started'[t]
  <2>1. CASE NextTask(Self, t) /\ UNCHANGED lastHeartbeat
    <3>1. started'[t] = now
      BY <2>1 DEF NextTask, Base, TypeOK
    <3> QED BY <2>1, <3>1
  <2>2. CASE Holds(t)
    <3>1. ~Beating
      BY <1>2, <1>r, <2>2, BeatsEmptyHanded DEF Beating
    <3>2. lastHeartbeat' = lastHeartbeat
      BY <3>1, BeatSource
    <3>3. Taken(t) /\ status[t] \in {"RUNNING"} \cup Terminal
      BY <1>2, <2>2, HeldRunningSource
    <3>4. status[t] = "RUNNING" /\ started'[t] = started[t]
      <4>1. Stays(t) \/ IsQueued(t) \/ IsHandedOut(t) \/ IsReported(t) \/ IsGivenUp(t)
        BY ShapeOfStore, StepOfTask DEF Base
      <4>2. ~IsQueued(t) /\ ~IsHandedOut(t)
        BY <3>3 DEF Taken, IsQueued, IsHandedOut
      <4>3. ~IsReported(t) /\ ~IsGivenUp(t)
        BY <1>2 DEF IsReported, IsGivenUp, Verdict, GivenUpAs
      <4> QED BY <1>2, <4>1, <4>2, <4>3 DEF Stays, StartKept
    <3> QED BY <1>2, <1>r, <2>2, <3>2, <3>4
  <2> QED BY <1>2, <2>1, <2>2, HoldsSource
<1>3. ASSUME NEW t \in Task \ unread', status'[t] = "AGENT_INTERRUPTED", Holds(t)'
      PROVE  FALSE
  <2>1. CASE NextTask(Self, t)
    BY <1>3, <2>1 DEF NextTask, Base, TypeOK
  <2>2. CASE Holds(t)
    <3>1. Taken(t) /\ status[t] # "AGENT_INTERRUPTED"
      BY <1>3, <1>r, <2>2, HeldRunningSource DEF InterruptedMeansGone
    <3>2. IsGivenUp(t) /\ GivenUpAs(t) = "AGENT_INTERRUPTED"
      BY <1>3, <3>1, ShapeOfStore, StepOfTask
      DEF Base, Stays, IsQueued, IsHandedOut, IsReported, IsGivenUp, Verdict
    <3>3. /\ status[t] = "RUNNING" /\ started[t] + StaleAfter < now
          /\ ~HeartbeatLost(Self)
      BY <3>1, <3>2 DEF IsGivenUp, Stale, GivenUpAs, Taken
    <3>4. lastHeartbeat[Self] <= started[t] /\ lastHeartbeat[Self] >= now - HeartbeatFresh
      BY <1>0, <1>3, <1>r, <2>2, <3>3 DEF HeartbeatLost
    <3> QED BY <1>0, <3>3, <3>4
  <2> QED BY <1>3, <2>1, <2>2, HoldsSource
<1> QED
  BY <1>1, <1>2, <1>3 DEF InterruptedMeansGone

-----------------------------------------------------------------------------
(* Evidence                                                                *)

\* No step takes an audit row away.
LEMMA AuditGrows ==
    ASSUME Shape
    PROVE  audited \subseteq audited'
<1>1. CASE Reporting
  BY <1>1 DEF Reporting, Serves, FinishTask, FinishCrash, FinishError, Record
<1>2. CASE Polling \/ OrphanPolling
  BY <1>2 DEF Polling, OrphanPolling, NextTask, resultVars
<1>3. CASE Beating \/ Alone \/ TimeOnly \/ Restarting
  BY <1>3 DEF Beating, Heartbeat, Alone, TimeOnly, Restarting, Restart, storeVars, resultVars
<1>4. CASE ClientsOnly
  BY <1>4 DEF ClientsOnly, ClientStep, CreateTask, ReadTask, ReviewableTasks
<1> QED
  BY <1>1, <1>2, <1>3, <1>4 DEF Shape

-----------------------------------------------------------------------------
(* The theorems                                                            *)

\* The parts of the invariant keep each other.
LEMMA RelayInvStep ==
    ASSUME RelayInv, [RelayNext]_relayVars
    PROVE  RelayInv'
<1>1. Base /\ Shape /\ Base' /\ AgentTypeOK'
  BY BaseStep DEF RelayInv, Base
<1>2. HoldsOnlyTaken'
  BY <1>1, HoldsOnlyTakenStep DEF RelayInv
<1>3. WorkedInTurn'
  BY <1>1, WorkedInTurnStep DEF RelayInv
<1>4. SuccessIsEarnedAllAlong'
  BY <1>1, SuccessIsEarnedStep DEF RelayInv
<1>5. HeldSinceBeat'
  BY <1>1, HeldSinceBeatStep DEF RelayInv
<1> QED
  BY <1>1, <1>2, <1>3, <1>4, <1>5 DEF RelayInv

\* The inductive invariant of the relay, through every fault.
THEOREM RelayInvariant == RelaySpec => []RelayInv
<1>1. RelayInit => RelayInv
  BY RelayInvInit
<1>2. RelayInv /\ [RelayNext]_relayVars => RelayInv'
  BY RelayInvStep
<1> QED
  BY <1>1, <1>2, PTL DEF RelaySpec

\* No task's work is started twice, however polls, replies and processes are
\* lost and whatever is redelivered.
THEOREM WorkIsStartedOnce == RelaySpec => []AtMostOnce
<1>1. RelayInv => AtMostOnce
  BY DEF RelayInv, WorkedInTurn
<1> QED BY <1>1, RelayInvariant, PTL

\* SUCCEEDED is only read of a task whose work was started and succeeded.
THEOREM SuccessWasEarned == RelaySpec => []SuccessIsEarned
<1>1. RelayInv => SuccessIsEarned
  BY DEF RelayInv, SuccessIsEarnedAllAlong
<1> QED BY <1>1, RelayInvariant, PTL

\* AGENT_INTERRUPTED is the truth: the agent will never report the task.
THEOREM InterruptedIsTrue == RelaySpec => []InterruptedMeansGone
<1>1. RelayInv => InterruptedMeansGone
  BY DEF RelayInv, HeldSinceBeat
<1> QED BY <1>1, RelayInvariant, PTL

\* What is on record, or on disk unread, has been executed to its end.
RecordsHaveEnded ==
    \A t \in Task : book[t] # NoEntry \/ disk[t] # NoEntry \/ t \in unread => outcome[t] # "none"

LEMMA RecordsHaveEndedStep ==
    ASSUME Base, Shape, RecordsHaveEnded
    PROVE  RecordsHaveEnded'
<1>0. AgentTypeOK /\ LoopStep
  BY ShapeIsLoopStep DEF Base
<1> SUFFICES ASSUME NEW t \in Task, book'[t] # NoEntry \/ disk'[t] # NoEntry \/ t \in unread'
             PROVE  outcome'[t] # "none"
  BY DEF RecordsHaveEnded
<1>1. CASE outcome[t] # "none"
  BY <1>0, <1>1, OutcomeSource DEF AgentTypeOK, Ending
<1>2. CASE book'[t] # NoEntry \/ disk'[t] # NoEntry
  BY <1>0, <1>1, <1>2, RecordSource DEF RecordsHaveEnded
<1>3. CASE t \in unread'
  <2>1. t \in unread \/ disk[t] # NoEntry
    BY <1>0, <1>3, UnreadSource DEF Start, StartUnread, OnDisk
  <2> QED BY <1>1, <2>1 DEF RecordsHaveEnded
<1> QED BY <1>2, <1>3

THEOREM RecordsAreOfEndedWork == RelaySpec => []RecordsHaveEnded
<1>1. RelayInit => RecordsHaveEnded
  BY DEF RelayInit, AgentInit, RecordsHaveEnded
<1>2. Base /\ RecordsHaveEnded /\ [RelayNext]_relayVars => RecordsHaveEnded'
  BY BaseStep, RecordsHaveEndedStep
<1> QED BY <1>1, <1>2, BaseInvariant, PTL DEF RelaySpec

\* The Controller refuses a kept result, in memory or on disk, for its size
\* alone: redelivering any other never ends the agent.
THEOREM KeptIsNeverRefused == RelaySpec => []KeptIsAcknowledged
<1>1. ASSUME RelayInv, NEW t \in Undelivered(book) \cup Undelivered(disk)
      PROVE  Acknowledged(Self, t)
  <2>1. t \in Task /\ Taken(t) /\ IsPersistent(t)
    BY <1>1 DEF RelayInv, HoldsOnlyTaken, Undelivered
  <2>2. status[t] \in Status
    BY <1>1, <2>1 DEF RelayInv, Base, TypeOK
  <2> QED BY <2>1, <2>2 DEF Acknowledged, RunningOn, Finished, Taken, Status
<1>2. RelayInv => KeptIsAcknowledged
  BY <1>1 DEF KeptIsAcknowledged, Reply, TooLarge, PayloadOf, Carried
<1> QED BY <1>2, RelayInvariant, PTL

\* What is served of the book is acknowledged.
LEMMA KeptIsTaken ==
    ASSUME KeptIsAcknowledged, delivery \in Undelivered(book), Served(KeptReport(delivery))
    PROVE  Reply(KeptReport(delivery)) = "ok"
BY DEF KeptIsAcknowledged, KeptReport, Served, Reply, TooLarge, PayloadOf, Carried

-----------------------------------------------------------------------------
(* The relay implements the life cycle of a task                           *)

\* Every step of the relay is, for each task, a step of the life cycle or
\* none.
LEMMA StepOfLifecycle ==
    ASSUME RelayInv, [RelayNext]_relayVars
    PROVE  [Lifecycle!LNext]_(Lifecycle!lifecycleVars)
<1> USE DEF Lifecycle!lifecycleVars
<1>0. /\ Base /\ HoldsOnlyTaken /\ WorkedInTurn /\ SuccessIsEarnedAllAlong /\ Shape
      /\ AgentTypeOK /\ LoopStep
      /\ status \in [Task -> Status]
      /\ starts \in [Task -> Nat]
  BY BaseStep, ShapeIsLoopStep DEF RelayInv, Base, TypeOK, AgentTypeOK
<1>s. ASSUME UNCHANGED <<starts, outcome>>, NEW t \in Task,
             Lifecycle!Submit(t) \/ Lifecycle!HandOut(t) \/ Lifecycle!Succeed(t) \/ Lifecycle!Abandon(t)
      PROVE  Lifecycle!LNext
  BY <1>s DEF Lifecycle!LNext
<1>1. CASE Reporting
  <2>1. PICK u \in Task, rep \in Report :
          /\ Serves(u, rep)
          /\ \/ mem # NoReport /\ u = mem.task /\ rep.verdict = mem.verdict /\ rep.result = mem.result
             \/ /\ u \in Undelivered(book) /\ rep.result = "tagged"
                /\ rep.verdict = VerdictOf(book[u].state)
    BY <1>1 DEF Reporting
  <2>2. UNCHANGED <<starts, outcome>>
    BY <1>1 DEF Reporting
  <2>3. CASE ~RunningOn(Self, u)
    BY <2>1, <2>2, <2>3 DEF Serves, FinishTask, FinishCrash, FinishError
  <2>4. CASE RunningOn(Self, u)
    <3>1. status[u] = "RUNNING" /\ status' = [status EXCEPT ![u] = RecordedVerdict(rep)]
      BY <2>1, <2>4 DEF Serves, FinishTask, FinishCrash, FinishError, SetVerdict, RunningOn
    <3>2. CASE RecordedVerdict(rep) = "SUCCEEDED"
      <4>1. rep.verdict = "SUCCEEDED"
        BY <3>2 DEF RecordedVerdict
      <4>2. Earned(u)
        BY <1>0, <2>1, <4>1 DEF SuccessIsEarnedAllAlong, Undelivered, VerdictOf
      <4>3. Lifecycle!Succeed(u)
        BY <2>2, <3>1, <3>2, <4>2 DEF Lifecycle!Succeed, Earned
      <4> QED BY <1>s, <2>2, <4>3
    <3>3. CASE RecordedVerdict(rep) = "FAILED"
      <4>1. Lifecycle!Abandon(u)
        BY <2>2, <3>1, <3>3 DEF Lifecycle!Abandon, Lifecycle!Ended
      <4> QED BY <1>s, <2>2, <4>1
    <3> QED BY <3>2, <3>3 DEF RecordedVerdict, Report, Verdict
  <2> QED BY <2>3, <2>4
<1>2. CASE Beating \/ Restarting \/ TimeOnly
  BY <1>2 DEF Beating, Heartbeat, Restarting, Restart, tableVars, TimeOnly, storeVars, agentVars
<1>3. CASE Polling \/ OrphanPolling
  <2>1. UNCHANGED <<starts, outcome>>
    BY <1>3 DEF Polling, PollTask, OrphanPolling, agentVars, historyVars
  <2>2. PICK t \in Task : NextTask(Self, t)
    BY <1>3 DEF Polling, OrphanPolling
  <2>3. Lifecycle!HandOut(t)
    BY <2>1, <2>2 DEF NextTask, QueuedFor, Lifecycle!HandOut
  <2> QED BY <1>s, <2>1, <2>3
<1>4. CASE ClientsOnly
  <2>1. UNCHANGED <<starts, outcome>>
    BY <1>4 DEF ClientsOnly, agentVars
  <2>2. ASSUME NEW r \in Submission, CreateTask(r)
        PROVE  [Lifecycle!LNext]_(Lifecycle!lifecycleVars)
    <3>1. CASE Replay(r)
      BY <2>1, <3>1 DEF Replay
    <3>2. ASSUME NEW t \in Task, Enqueue(r, t) PROVE Lifecycle!Submit(t)
      BY <2>1, <3>2 DEF Enqueue, Lifecycle!Submit
    <3> QED BY <1>s, <2>1, <2>2, <3>1, <3>2 DEF CreateTask
  <2>3. ASSUME NEW t \in Task, NEW reader \in Reader, NEW artifact \in BOOLEAN,
               ReadTask(t, reader, artifact)
        PROVE  [Lifecycle!LNext]_(Lifecycle!lifecycleVars)
    <3>1. CASE Stale(t)
      <4>1. status[t] = "RUNNING" /\ status' = [status EXCEPT ![t] = GivenUpAs(t)]
        BY <2>3, <3>1 DEF ReadTask, StatusRead, Stale
      <4>2. GivenUpAs(t) \in Lifecycle!Ended \ {"SUCCEEDED"}
        BY DEF GivenUpAs, Lifecycle!Ended
      <4>3. Lifecycle!Abandon(t)
        BY <2>1, <4>1, <4>2 DEF Lifecycle!Abandon
      <4> QED BY <1>s, <2>1, <4>3
    <3>2. CASE ~Stale(t)
      <4>1. status' = status
        BY <1>0, <2>3, <3>2 DEF ReadTask, StatusRead
      <4> QED BY <2>1, <4>1
    <3> QED BY <3>1, <3>2
  <2>4. CASE ReviewableTasks
    BY <2>1, <2>4 DEF ReviewableTasks, tableVars
  <2> QED BY <1>4, <2>2, <2>3, <2>4 DEF ClientsOnly, ClientStep
<1>5. CASE Alone
  <2>1. status' = status
    BY <1>5 DEF Alone, storeVars
  <2>2. CASE Launch
    <3>1. /\ pc = "exec" /\ outcome' = outcome
          /\ starts' = [starts EXCEPT ![job.task] = @ + 1]
      BY <2>2 DEF Launch
    <3>2. job.task \in Task /\ Taken(job.task) /\ starts[job.task] = 0
      BY <1>0, <3>1 DEF AgentTypeOK, Job, HoldsOnlyTaken, WorkedInTurn
    <3>3. starts' = [starts EXCEPT ![job.task] = 1]
      BY <1>0, <3>1, <3>2
    <3>4. Lifecycle!Begin(job.task)
      BY <2>1, <3>1, <3>2, <3>3 DEF Lifecycle!Begin, Taken
    <3> QED BY <3>2, <3>4 DEF Lifecycle!LNext
  <2>3. CASE starts' = starts /\ outcome' = outcome
    BY <2>1, <2>3
  <2>4. ASSUME starts' = starts, pc = "running", NEW state \in Ending,
               outcome' = [outcome EXCEPT ![job.task] = state]
        PROVE  Lifecycle!LNext
    <3>1. job.task \in Task /\ starts[job.task] = 1 /\ outcome[job.task] = "none"
      BY <1>0, <2>4 DEF AgentTypeOK, Job, WorkedInTurn
    <3>2. Lifecycle!Complete(job.task, state)
      BY <2>1, <2>4, <3>1 DEF Lifecycle!Complete
    <3> QED BY <3>1, <3>2 DEF Lifecycle!LNext, Ending
  <2> QED BY <1>0, <2>2, <2>3, <2>4, JobSource, OutcomeSource
<1> QED
  BY <1>0, <1>1, <1>2, <1>3, <1>4, <1>5 DEF Shape

\* What a client sees of a task, with the work done for it, is a behaviour of
\* the abstract life cycle, through every fault and interleaving.
THEOREM RelayImplementsLifecycle == RelaySpec => ImplementsLifecycle
<1>1. RelayInit => Lifecycle!LInit
  BY DEF RelayInit, Init, AgentInit, Lifecycle!LInit
<1>2. RelayInv /\ [RelayNext]_relayVars => [Lifecycle!LNext]_(Lifecycle!lifecycleVars)
  BY StepOfLifecycle
<1> QED
  BY <1>1, <1>2, RelayInvariant, PTL DEF RelaySpec, ImplementsLifecycle, Lifecycle!LSpec

\* The relay's variables stay well typed; no fault budget is overdrawn.
THEOREM RelayTypeCorrect == RelaySpec => []RelayTypeOK
<1>1. RelayInit => RelayTypeOK
  BY RelayAssumption, BaseInit DEF RelayInit, RelayTypeOK, Base, Budget
<1>2. ASSUME RelayTypeOK, RelayInv, [RelayNext]_relayVars
      PROVE  RelayTypeOK'
  <2>0. orphans \in Nat /\ faults \in [{"network", "agent", "store", "disk"} -> Nat]
    BY <1>2 DEF RelayTypeOK
  <2>1. ASSUME NEW kind \in {"network", "agent", "store", "disk"}, Fault(kind)
        PROVE  faults' \in [{"network", "agent", "store", "disk"} -> Nat]
    BY <2>0, <2>1 DEF Fault
  <2>2. faults' = faults \/ \E kind \in {"network", "agent", "store", "disk"} : Fault(kind)
    BY <1>2 DEF RelayNext, relayVars, ReportMem, ReportKept, ReportTooLarge, ReportCut, RequestLost,
       HeartbeatServed, PollServed, PollTimesOut, PollLost, OrphanTakes, OrphanEnds, AgentLocal, AgentCrash,
       StoreCrash, Clients, Passing, Calm, Writing
  <2>3. orphans' \in Nat
    <3>1. CASE \/ ReportMem \/ ReportKept \/ ReportTooLarge \/ RequestLost \/ HeartbeatServed
               \/ PollServed \/ PollTimesOut
      <4>1. ReportMem \/ ReportKept \/ ReportTooLarge => orphans' = orphans
        BY DEF ReportMem, ReportKept, ReportTooLarge
      <4>2. RequestLost \/ HeartbeatServed => orphans' = orphans
        BY DEF RequestLost, HeartbeatServed
      <4>3. PollServed \/ PollTimesOut => orphans' = orphans
        BY DEF PollServed, PollTimesOut
      <4> QED BY <2>0, <3>1, <4>1, <4>2, <4>3
    <3>2. CASE AgentLocal \/ Clients \/ Passing \/ UNCHANGED relayVars
      <4>1. orphans' = orphans
        BY <3>2 DEF AgentLocal, Clients, Passing, relayVars
      <4> QED BY <2>0, <4>1
    <3>3. CASE ReportCut \/ StoreCrash
      <4>1. ReportCut => orphans' \in {0, orphans}
        BY DEF ReportCut, ServedInPart
      <4>2. StoreCrash => orphans' = 0
        BY DEF StoreCrash
      <4> QED BY <2>0, <3>3, <4>1, <4>2
    <3>4. CASE OrphanTakes \/ OrphanEnds
      BY <2>0, <3>4 DEF OrphanTakes, OrphanEnds
    <3>5. CASE PollLost \/ AgentCrash
      BY <2>0, <3>5 DEF PollLost, AgentCrash
    <3> QED BY <1>2, <3>1, <3>2, <3>3, <3>4, <3>5 DEF RelayNext
  <2>4. TypeOK' /\ AgentTypeOK'
    BY <1>2, BaseStep DEF RelayInv, Base
  <2> QED BY <2>0, <2>1, <2>2, <2>3, <2>4 DEF RelayTypeOK
<1> QED
  BY <1>1, <1>2, RelayInvariant, PTL DEF RelaySpec

-----------------------------------------------------------------------------
(* What was proved of each side alone holds of them together               *)

\* The store's promises, made to any clients and agents, hold in the relay:
\* verdicts are final, tasks are handed out once and in order, keys name one
\* task, evidence comes with a verdict and stays for its time, an observation
\* is read once.
THEOREM RelayKeepsStorePromises ==
    RelaySpec =>
        /\ []HandedOnce /\ []OneTaskPerKey /\ []EvidenceHasVerdict /\ []ObservedOnce /\ []NoOvertaking
        /\ TerminalStable /\ RetainedForItsTime
BY RelayImplementsStore, NeverHandedTwice, KeysNameOneTask, EvidenceIsReported, ObservedAtMostOnce,
   OldestFirst, VerdictsAreFinal, ResultsAreRetained, PTL

\* What the file says of an execution never changes, and a confirmed record is
\* not forgotten to be confirmed, until it expires (or the agent, which could
\* not read it, writes the file without it).
RecordStays(t) ==
    \/ disk[t] = NoEntry \/ disk'[t] = NoEntry
    \/ disk'[t].state = disk[t].state /\ (disk[t].delivered => disk'[t].delivered)
    \/ disk[t].expires <= now

\* The agent's promises hold against this Controller and its failures: one
\* report owed at most, and records that stay as they are.
THEOREM RelayKeepsAgentPromises ==
    RelaySpec =>
        []OwesAtMostOne /\ [][\A t \in Task \ unread : RecordStays(t)]_relayVars
<1>1. Base => OwesAtMostOne
  BY DEF Base, LoopInv
<1>2. ASSUME Base, [RelayNext]_relayVars, NEW t \in Task \ unread, disk[t] # NoEntry
      PROVE  RecordStays(t)
  <2>1. AgentTypeOK /\ LoopInv /\ LoopStep
    BY <1>2, BaseStep, ShapeIsLoopStep DEF Base
  <2>2. now \in Nat /\ disk[t] \in Entry
    BY <1>2 DEF Base, TypeOK, Time, AgentTypeOK
  <2>3. disk[t].expires \in Nat
    BY <2>2 DEF Entry
  <2>4. CASE disk[t].expires > now
    BY <1>2, <2>1, <2>4, RecordStep DEF RecordStays
  <2> QED BY <2>2, <2>3, <2>4 DEF RecordStays
<1>3. RelayInv /\ [RelayNext]_relayVars => [\A t \in Task \ unread : RecordStays(t)]_relayVars
  BY <1>2 DEF RelayInv, RecordStays
<1> QED
  BY <1>1, <1>3, RelayInvariant, PTL DEF RelaySpec, RelayInv

-----------------------------------------------------------------------------
(* Where the findings end: what is lost, only a named fault loses           *)

NoStoreCrash == faults["store"] = StoreCrashes
NoDiskFault == faults["disk"] = DiskFaults

Remembered(t) == book[t] # NoEntry \/ disk[t] # NoEntry
Reported(t) == status[t] \in Verdict

\* What the store acknowledged it keeps, unless the Controller died between
\* its two commits or its database failed there, the agent could not write or
\* read its records, or a reader gave the task up before the report came
\* (AcknowledgedIsStored fails otherwise).
StoredUnlessGivenUp ==
    NoStoreCrash /\ NoDiskFault =>
        \A t \in Task : book[t] # NoEntry /\ book[t].delivered =>
            retained[t] # "absent" \/ status[t] \in Reaped

\* A success has its audit row, unless the Controller died between its two
\* commits or its database failed there (SuccessIsAudited fails otherwise).
AuditedUnlessCrashed == NoStoreCrash => SuccessIsAudited

\* The agent stops redelivering only what has ended, through every fault.
ConfirmedHasEnded ==
    \A t \in Task : \A e \in {book[t], disk[t]} :
        e # NoEntry /\ e.delivered => status[t] \in Terminal

\* A refused report ends the agent only if it is an observation's, or too large
\* (RecoversFromNetworkFaults fails otherwise).
HaltsOnlyOverSome ==
    [][pc # "halted" /\ pc' = "halted" =>
           Oversized \/ (mem # NoReport /\ ~IsPersistent(mem.task))]_relayVars

\* The invariant behind them: a job at hand has neither record nor verdict; a
\* report without a result is a failure, and of a task without a record; a
\* reported execution that the agent remembers has its result in the store.
JobIsFresh == job # NoJob => ~Remembered(job.task) /\ ~Reported(job.task)

SuccessHasResult == mem # NoReport /\ mem.result = "none" => mem.verdict = "FAILED"

NoResultNoRecord ==
    NoDiskFault => (mem # NoReport /\ mem.result = "none" => ~Remembered(mem.task))

ReportedIsStored ==
    NoStoreCrash /\ NoDiskFault =>
        \A t \in Task : Remembered(t) /\ Reported(t) => retained[t] # "absent"

WithinBudget == \A kind \in {"network", "agent", "store", "disk"} : faults[kind] <= Budget[kind]

EvidenceInv ==
    /\ JobIsFresh /\ SuccessHasResult /\ NoResultNoRecord /\ ReportedIsStored
    /\ ConfirmedHasEnded /\ AuditedUnlessCrashed /\ WithinBudget

\* The budget is only spent, and a fault spends of it.
LEMMA FaultsAreSpent ==
    ASSUME RelayTypeOK, WithinBudget, [RelayNext]_relayVars
    PROVE  /\ WithinBudget'
           /\ NoStoreCrash' => NoStoreCrash /\ ~Fault("store")
           /\ NoDiskFault' => NoDiskFault /\ ~Fault("disk")
<1>0. /\ faults \in [{"network", "agent", "store", "disk"} -> Nat]
      /\ \A kind \in {"network", "agent", "store", "disk"} : Budget[kind] \in Nat
      /\ Budget["store"] = StoreCrashes /\ Budget["disk"] = DiskFaults
  BY RelayAssumption DEF RelayTypeOK, Budget
<1>1. faults' = faults \/ \E kind \in {"network", "agent", "store", "disk"} : Fault(kind)
  BY DEF RelayNext, relayVars, ReportMem, ReportKept, ReportTooLarge, ReportCut, RequestLost,
     HeartbeatServed, PollServed, PollTimesOut, PollLost, OrphanTakes, OrphanEnds, AgentLocal, AgentCrash,
     StoreCrash, Clients, Passing, Calm, Writing
<1>2. \A kind \in {"network", "agent", "store", "disk"} :
          /\ faults'[kind] \in Nat /\ faults'[kind] <= faults[kind]
          /\ Fault(kind) => faults'[kind] < faults[kind]
  BY <1>0, <1>1 DEF Fault
<1>3. WithinBudget'
  BY <1>0, <1>2 DEF WithinBudget, Budget
<1>4. \A kind \in {"network", "agent", "store", "disk"} :
          faults'[kind] = Budget[kind] => faults[kind] = Budget[kind] /\ ~Fault(kind)
  BY <1>0, <1>2 DEF WithinBudget
<1> QED
  BY <1>0, <1>3, <1>4 DEF NoStoreCrash, NoDiskFault

\* Unless the Controller crashes, a verdict is written with its result.
LEMMA VerdictServed ==
    ASSUME Base, [RelayNext]_relayVars, ~Fault("store"),
           NEW t \in Task, status'[t] # status[t], status'[t] \in Verdict
    PROVE  \E rep \in Report :
              /\ RunningOn(Self, t) /\ status'[t] = RecordedVerdict(rep) /\ Record(t, rep)
              /\ \/ mem # NoReport /\ t = mem.task /\ rep.verdict = mem.verdict /\ rep.result = mem.result
                 \/ /\ t \in Undelivered(book) /\ rep.result = "tagged"
                    /\ rep.verdict = VerdictOf(book[t].state)
<1>0. Shape /\ status \in [Task -> Status] /\ mem \in Pending \cup {NoReport}
  BY BaseStep DEF Base, TypeOK, AgentTypeOK
<1>1. RunningOn(Self, t) /\ status[t] = "RUNNING"
  BY <1>0, VerdictSource DEF RunningOn
<1>2. ASSUME NEW p \in Pending, NEW u \in Task, Served(p), p.task = u
      PROVE  \E rep \in Report :
                /\ u = t /\ rep.verdict = p.verdict /\ rep.result = p.result
                /\ status'[t] = RecordedVerdict(rep) /\ Record(t, rep)
  <2>1. FinishTask(Self, u, Posted(p)) /\ ~TooLarge(p)
    BY <1>2 DEF Served
  <2>2. /\ Posted(p) \in Report
        /\ Posted(p).verdict = p.verdict /\ Posted(p).result = p.result
    BY <2>1, PostedType
  <2>3. RunningOn(Self, u) /\ SetVerdict(u, Posted(p)) /\ Record(u, Posted(p))
    BY <2>1 DEF FinishTask
  <2>4. u = t
    BY <1>0, <2>3 DEF SetVerdict
  <2> QED BY <1>0, <2>2, <2>3, <2>4 DEF SetVerdict
<1>3. CASE ReportMem
  <2>1. mem # NoReport /\ mem \in Pending /\ mem.task \in Task /\ Served(mem)
    BY <1>0, <1>3 DEF ReportMem, Base, LoopInv, SnapshotIsRight, Pending
  <2> QED BY <1>1, <1>2, <2>1
<1>4. CASE ReportKept
  <2>1. delivery \in Undelivered(book) /\ delivery \in Task /\ Served(KeptReport(delivery))
    BY <1>4 DEF ReportKept, Undelivered
  <2>2. ~TooLarge(KeptReport(delivery)) /\ AgentTypeOK
    BY <2>1 DEF Served, Base
  <2> QED BY <1>1, <1>2, <2>1, <2>2, KeptType
<1>5. ~ReportCut /\ ~StoreCrash
  BY DEF ReportCut, StoreCrash
<1>6. CASE ReportTooLarge \/ RequestLost \/ PollTimesOut \/ PollLost \/ OrphanEnds \/ AgentLocal
            \/ AgentCrash \/ Passing \/ HeartbeatServed \/ UNCHANGED relayVars
  <2>1. status' = status
    BY <1>6 DEF ReportTooLarge, RequestLost, PollTimesOut, PollLost, OrphanEnds, AgentLocal, AgentCrash, Passing,
       HeartbeatServed, Heartbeat, tableVars, storeVars, relayVars
  <2> QED BY <2>1
<1>7. CASE PollServed \/ OrphanTakes
  BY <1>0, <1>7 DEF PollServed, OrphanTakes, NextTask, Verdict
<1>8. CASE Clients
  <2>1. ASSUME NEW r \in Submission, CreateTask(r) PROVE FALSE
    BY <1>0, <1>1, <2>1 DEF CreateTask, Replay, Enqueue, Verdict
  <2>2. ASSUME NEW u \in Task, NEW reader \in Reader, NEW artifact \in BOOLEAN,
               ReadTask(u, reader, artifact)
        PROVE  FALSE
    BY <1>0, <1>1, <2>2 DEF ReadTask, StatusRead, GivenUpAs, Verdict
  <2>3. ~ReviewableTasks
    BY DEF ReviewableTasks, tableVars
  <2> QED BY <1>8, <2>1, <2>2, <2>3 DEF Clients, ClientStep
<1> QED
  BY <1>3, <1>4, <1>5, <1>6, <1>7, <1>8 DEF RelayNext

\* The agent's hands are empty of reports while it has a job, so nobody
\* reports that job meanwhile.
LEMMA NobodyReportsTheJob ==
    ASSUME Base, Shape, job # NoJob, ~Reported(job.task)
    PROVE  status'[job.task] \notin Verdict
<1>1. pc \in {"exec", "running"} /\ job.task \in Task
  BY DEF Base, AgentTypeOK, Job
<1>2. mem = NoReport /\ Undelivered(book) = {}
  BY <1>1 DEF Base, LoopInv, OwesAtMostOne
<1> QED
  BY <1>1, <1>2, VerdictSource DEF Reported

\* No record comes into being but by the end of the execution at hand.
LEMMA JobIsFreshStep ==
    ASSUME Base, HoldsOnlyTaken, JobIsFresh, Shape
    PROVE  JobIsFresh'
<1>0. /\ AgentTypeOK /\ LoopStep
      /\ book \in [Task -> Entry \cup {NoEntry}] /\ disk \in [Task -> Entry \cup {NoEntry}]
  BY ShapeIsLoopStep DEF Base, AgentTypeOK
<1>1. CASE job' = job /\ job # NoJob
  <2> DEFINE t == job.task
  <2>0. pc \in {"exec", "running"} /\ t \in Task /\ book[t] = NoEntry /\ disk[t] = NoEntry
    BY <1>0, <1>1 DEF AgentTypeOK, Job, JobIsFresh, Remembered
  <2>1. book'[t] = NoEntry /\ disk'[t] = NoEntry
    <3>1. ~\E state \in Ending, written \in BOOLEAN : FinishExecution(state, written)
      BY <1>1 DEF FinishExecution
    <3>2. DropExpired \/ Start => book'[t] = NoEntry /\ disk'[t] = NoEntry
      BY <2>0 DEF DropExpired, Start, Current
    <3> QED BY <1>0, <2>0, <3>1, <3>2, BookStep
  <2>2. status'[t] \notin Verdict
    BY <1>1, NobodyReportsTheJob DEF JobIsFresh
  <2> QED BY <1>1, <2>1, <2>2 DEF JobIsFresh, Remembered, Reported
<1>2. CASE Polling
  <2>1. PICK t \in Task :
          /\ NextTask(Self, t)
          /\ PollTask([task |-> t, capability |-> request[t].capability])
    BY <1>2 DEF Polling
  <2>2. job'.task = t /\ UNCHANGED <<book, disk>>
    BY <2>1 DEF PollTask, bookVars
  <2>3. ~Taken(t) /\ status'[t] = "RUNNING"
    BY <2>1 DEF NextTask, QueuedFor, Taken, Base, TypeOK
  <2>4. ~Remembered(t)
    BY <2>3 DEF HoldsOnlyTaken, Remembered
  <2> QED BY <2>2, <2>3, <2>4 DEF JobIsFresh, Remembered, Reported, Verdict
<1>3. CASE job' = NoJob \/ (job' = job /\ job = NoJob)
  BY <1>3 DEF JobIsFresh
<1> QED
  BY <1>1, <1>2, <1>3, JobOfShape

\* Where a report in memory comes from, and what it says without a result.
LEMMA ReportOfStep ==
    ASSUME Base, JobIsFresh, RelayTypeOK, [RelayNext]_relayVars,
           mem' # mem, mem' # NoReport, mem'.result = "none"
    PROVE  /\ mem'.verdict = "FAILED"
           /\ ~Fault("disk") => book'[mem'.task] = NoEntry /\ disk'[mem'.task] = NoEntry
<1> USE DEF JobReport, Tagged, bookVars
<1>1. AgentLocal
  <2>1. ~(ReportMem \/ ReportKept \/ ReportTooLarge \/ ReportCut \/ RequestLost \/ HeartbeatServed)
    BY DEF ReportMem, ReportKept, ReportTooLarge, ReportCut, RequestLost, HeartbeatServed, PostMem,
       PostKept, Beat, Die
  <2>2. ~(PollServed \/ PollTimesOut \/ PollLost \/ AgentCrash \/ StoreCrash)
    BY DEF PollServed, PollTimesOut, PollLost, AgentCrash, StoreCrash, PollEmpty, PollTask, Crash,
       Die, agentVars
  <2>3. ~(OrphanTakes \/ OrphanEnds \/ Clients \/ Passing \/ UNCHANGED relayVars)
    BY DEF OrphanTakes, OrphanEnds, Clients, Passing, relayVars, agentVars
  <2> QED BY <2>1, <2>2, <2>3 DEF RelayNext
<1>2. pc \in {"exec", "running"} => ~Remembered(job.task)
  BY DEF JobIsFresh, Base, AgentTypeOK
<1>3. ~Start /\ ~StartUnread
  BY DEF Start, StartUnread
<1>4. CASE Refuse \/ Break
  BY <1>2, <1>4 DEF Refuse, Break, Remembered
<1>5. ~Launch
  BY DEF Launch
<1>6. ASSUME NEW state \in {"succeeded", "failed"}, FinishObservation(state)
      PROVE  /\ mem'.verdict = "FAILED"
             /\ book'[mem'.task] = NoEntry /\ disk'[mem'.task] = NoEntry
  <2>1. PICK result \in {"none", "plain", "large"} : mem' = JobReport(VerdictOf(state), result)
    BY <1>6 DEF FinishObservation
  <2>2. result = "none" /\ (result = "none" => state = "failed")
    BY <1>6, <2>1 DEF FinishObservation
  <2>3. pc = "running" /\ UNCHANGED <<book, disk>>
    BY <1>6 DEF FinishObservation
  <2> QED BY <1>2, <2>1, <2>2, <2>3 DEF VerdictOf, Remembered
<1>7. ASSUME NEW written \in BOOLEAN, Save(written), Writing(written)
      PROVE  /\ mem'.verdict = "FAILED" /\ Fault("disk")
  <2>1. ~Top(written)
    BY DEF Top, CannotDrop, Die
  <2>2. ~Recall(written)
    BY DEF Recall, CannotDrop, Die, KeptReport, PayloadOf, Carried
  <2>3. PICK state \in {"succeeded", "failed"} : FinishExecution(state, written)
    BY <1>7, <2>1, <2>2 DEF Save
  <2>4. ~written /\ mem'.verdict = "FAILED"
    BY <2>3 DEF FinishExecution
  <2> QED BY <1>7, <2>4 DEF Writing
<1> QED
  BY <1>1, <1>3, <1>4, <1>5, <1>6, <1>7 DEF AgentLocal, Execute

\* A record is new only when its execution ends, with the agent's hands empty.
LEMMA RememberedSource ==
    ASSUME Base, Shape, NEW t \in Task, Remembered(t)'
    PROVE  Remembered(t) \/ (pc = "running" /\ job # NoJob /\ job.task = t)
BY ShapeIsLoopStep, RecordSource DEF Base, AgentTypeOK, Remembered

\* A step keeps that reports without a result are failures of tasks without a
\* record.
LEMMA NoResultStep ==
    ASSUME Base, JobIsFresh, RelayTypeOK, WithinBudget, [RelayNext]_relayVars, SuccessHasResult,
           NoResultNoRecord
    PROVE  SuccessHasResult' /\ NoResultNoRecord'
<1>0. Shape /\ AgentTypeOK /\ (NoDiskFault' => NoDiskFault /\ ~Fault("disk"))
  BY BaseStep, FaultsAreSpent DEF Base
<1>1. CASE mem' = mem /\ mem # NoReport
  <2>1. mem.task \in Task /\ pc # "running"
    BY <1>0, <1>1 DEF AgentTypeOK, Pending, Base, LoopInv, OwesAtMostOne
  <2>2. Remembered(mem.task)' => Remembered(mem.task)
    <3> DEFINE t == mem.task
    <3>1. t' = t /\ t \in Task
      BY <1>1, <2>1
    <3>2. book'[t] # NoEntry \/ disk'[t] # NoEntry => Remembered(t)
      BY <1>0, <2>1, RememberedSource DEF Remembered
    <3> QED BY <3>1, <3>2 DEF Remembered
  <2> QED BY <1>0, <1>1, <2>2 DEF SuccessHasResult, NoResultNoRecord
<1>2. CASE mem' # mem /\ mem' # NoReport
  BY <1>0, <1>2, ReportOfStep DEF SuccessHasResult, NoResultNoRecord, Remembered
<1>3. CASE mem' = NoReport
  BY <1>3 DEF SuccessHasResult, NoResultNoRecord
<1> QED
  BY <1>1, <1>2, <1>3

\* A verdict on a recorded or successful task comes with a result.
LEMMA VerdictHasResult ==
    ASSUME Base, HoldsOnlyTaken, SuccessHasResult, [RelayNext]_relayVars, ~Fault("store"),
           NEW t \in Task, status'[t] # status[t], status'[t] \in Verdict, IsPersistent(t),
           status'[t] = "SUCCEEDED" \/ (Remembered(t) /\ NoResultNoRecord /\ NoDiskFault)
    PROVE  retained'[t] # "absent" /\ t \in audited'
<1>1. PICK rep \in Report :
          /\ status'[t] = RecordedVerdict(rep) /\ Record(t, rep)
          /\ \/ mem # NoReport /\ t = mem.task /\ rep.verdict = mem.verdict /\ rep.result = mem.result
             \/ rep.result = "tagged"
  BY VerdictServed
<1>2. rep.result \in {"none", "plain", "tagged"} /\ retained \in [Task -> Retained]
  BY DEF Report, Base, TypeOK
<1>3. rep.result # "plain"
  BY <1>1 DEF HoldsOnlyTaken
<1>4. rep.result # "none"
  <2>1. status'[t] = "SUCCEEDED" => rep.verdict = "SUCCEEDED"
    BY <1>1 DEF RecordedVerdict
  <2> QED BY <1>1, <2>1 DEF SuccessHasResult, NoResultNoRecord
<1>5. Stored(rep) \in {"oversize", "result"} /\ rep.result = "tagged"
  BY <1>2, <1>3, <1>4 DEF Stored
<1>6. Swept \in [Task -> Retained]
  BY <1>2 DEF Swept, Retained, Content
<1> QED
  BY <1>1, <1>5, <1>6 DEF Record, Keep

\* The result of a reported execution that the agent remembers stays.
LEMMA ReportedIsStoredStep ==
    ASSUME Base, HoldsOnlyTaken, EvidenceInv, RelayTypeOK, [RelayNext]_relayVars
    PROVE  ReportedIsStored'
<1> SUFFICES ASSUME NoStoreCrash', NoDiskFault', NEW t \in Task, Remembered(t)', Reported(t)'
             PROVE  retained'[t] # "absent"
  BY DEF ReportedIsStored, Reported, Remembered
<1> USE DEF EvidenceInv
<1>1. Shape /\ NoStoreCrash /\ NoDiskFault /\ ~Fault("store")
  BY BaseStep, FaultsAreSpent
<1>2. CASE Reported(t)
  <2>1. Remembered(t)
    BY <1>1, <1>2, RememberedSource DEF JobIsFresh
  <2>2. retained[t] # "absent"
    BY <1>1, <1>2, <2>1 DEF ReportedIsStored
  <2>3. EvidenceKept(t)
    BY <1>1, <1>2, ShapeOfStore, StepOfTask
    DEF Base, Reported, Verdict, Stays, IsQueued, IsHandedOut, IsReported, IsGivenUp
  <2> QED BY <2>2, <2>3 DEF EvidenceKept, Swept, Base, TypeOK
<1>3. CASE ~Reported(t)
  <2>1. status'[t] # status[t] /\ status'[t] \in Verdict
    BY <1>3 DEF Reported
  <2>2. Remembered(t)
    BY <1>1, <2>1, <1>3, RememberedSource, NobodyReportsTheJob
  <2>3. IsPersistent(t)
    BY <2>2 DEF HoldsOnlyTaken, Remembered
  <2> QED BY <1>1, <2>1, <2>2, <2>3, VerdictHasResult
<1> QED
  BY <1>2, <1>3

\* An audit row stays, and a success gets one.
LEMMA AuditedStep ==
    ASSUME Base, HoldsOnlyTaken, EvidenceInv, RelayTypeOK, [RelayNext]_relayVars
    PROVE  AuditedUnlessCrashed'
<1> SUFFICES ASSUME NoStoreCrash', NEW t \in Task, status'[t] = "SUCCEEDED", IsPersistent(t)'
             PROVE  t \in audited'
  BY DEF AuditedUnlessCrashed, SuccessIsAudited, IsPersistent
<1> USE DEF EvidenceInv
<1>1. Shape /\ NoStoreCrash /\ ~Fault("store")
  BY BaseStep, FaultsAreSpent
<1>2. status[t] \notin {"ABSENT", "QUEUED"} /\ request'[t] = request[t]
  BY <1>1, ShapeOfStore, StepOfTask
  DEF Base, Stays, IsQueued, IsHandedOut, IsReported, IsGivenUp, RowKept
<1>3. IsPersistent(t)
  BY <1>2 DEF IsPersistent
<1>4. CASE status[t] = "SUCCEEDED"
  BY <1>1, <1>3, <1>4, AuditGrows DEF AuditedUnlessCrashed, SuccessIsAudited
<1>5. CASE status[t] # "SUCCEEDED"
  BY <1>1, <1>3, <1>5, VerdictHasResult DEF Verdict
<1> QED
  BY <1>4, <1>5

\* A kept report is only confirmed by a store where its task has ended.
LEMMA ConfirmedByStore ==
    ASSUME Base, [RelayNext]_relayVars, pc = "postKept", delivery \in Undelivered(book),
           book' = Confirmed(delivery), disk' = Confirmed(delivery),
           book'[delivery] # NoEntry
    PROVE  status'[delivery] \in Terminal
<1>0. /\ book \in [Task -> Entry \cup {NoEntry}] /\ delivery \in Task
      /\ book[delivery] \in Entry /\ ~book[delivery].delivered
      /\ status \in [Task -> Status]
  BY DEF Base, AgentTypeOK, TypeOK, Undelivered
<1>1. book'[delivery].delivered /\ disk'[delivery].delivered
  BY <1>0 DEF Confirmed, Current, Entry
<1>2. ReportKept /\ Reply(KeptReport(delivery)) = "ok"
  <2>1. book' # book /\ book'[delivery] # NoEntry
    BY <1>0, <1>1
  <2>2. ~(ReportMem \/ ReportTooLarge \/ RequestLost \/ HeartbeatServed \/ ReportCut)
    BY <1>0, <2>1 DEF ReportMem, ReportTooLarge, RequestLost, HeartbeatServed, ReportCut, Die,
       PostKept, PostMem, Beat, bookVars
  <2>3. ~(PollServed \/ PollTimesOut \/ PollLost \/ AgentCrash \/ StoreCrash)
    BY <1>0, <2>1 DEF PollServed, PollTimesOut, PollLost, AgentCrash, StoreCrash, PollEmpty, PollTask,
       Crash, Die, agentVars
  <2>4. ~(OrphanTakes \/ OrphanEnds \/ Clients \/ Passing \/ UNCHANGED relayVars)
    BY <2>1 DEF OrphanTakes, OrphanEnds, Clients, Passing, relayVars, agentVars
  <2>5. ~AgentLocal
    BY DEF AgentLocal, Start, StartUnread, Execute, Save, Refuse, Launch, Break, FinishObservation, Top, Recall,
       FinishExecution, Stopped
  <2>6. ReportKept
    BY <2>2, <2>3, <2>4, <2>5 DEF RelayNext
  <2>7. Reply(KeptReport(delivery)) # "refused"
    BY <1>0, <2>1, <2>6 DEF ReportKept, PostKept, Die, bookVars
  <2> QED BY <2>6, <2>7 DEF Reply
<1>3. Acknowledged(Self, delivery) /\ Served(KeptReport(delivery)) /\ KeptReport(delivery).task = delivery
  BY <1>2 DEF Reply, ReportKept, KeptReport, PayloadOf
<1>4. FinishTask(Self, delivery, Posted(KeptReport(delivery))) /\ ~TooLarge(KeptReport(delivery))
  BY <1>3 DEF Served
<1>5. Posted(KeptReport(delivery)) \in Report
  BY <1>4, KeptType, PostedType DEF Base
<1>6. RecordedVerdict(Posted(KeptReport(delivery))) \in Terminal
  BY <1>5 DEF RecordedVerdict, Report, Verdict, Terminal
<1> QED
  BY <1>0, <1>3, <1>4, <1>6 DEF Acknowledged, Finished, FinishTask, SetVerdict

\* What has ended stays so.
LEMMA EndedStays ==
    ASSUME Base, Shape, NEW t \in Task, status[t] \in Terminal
    PROVE  status'[t] \in Terminal
BY ShapeOfStore, StepOfTask
DEF Base, Stays, IsQueued, IsHandedOut, IsReported, IsGivenUp, Terminal, Verdict, Reaped

\* A record is confirmed in a step, or was before, or is not.
LEMMA ConfirmedStep ==
    ASSUME Base, ConfirmedHasEnded, [RelayNext]_relayVars
    PROVE  ConfirmedHasEnded'
<1> SUFFICES ASSUME NEW t \in Task, NEW e \in {book'[t], disk'[t]}, e # NoEntry, e.delivered
             PROVE  status'[t] \in Terminal
  BY DEF ConfirmedHasEnded
<1>0. /\ Shape /\ LoopStep
      /\ book \in [Task -> Entry \cup {NoEntry}] /\ disk \in [Task -> Entry \cup {NoEntry}]
  BY BaseStep, ShapeIsLoopStep DEF Base, AgentTypeOK
<1>1. CASE e \in {book[t], disk[t]}
  BY <1>0, <1>1, EndedStays DEF ConfirmedHasEnded
<1>2. CASE e \notin {book[t], disk[t]}
  <2>1. ~(UNCHANGED <<book, disk>>) /\ ~(disk' = disk /\ \A u \in Task : book'[u] = NoEntry)
    BY <1>2
  <2>2. ~DropExpired /\ ~Start
    BY <1>0, <1>2 DEF DropExpired, Start, Current
  <2>3. CASE \E state \in Ending, written \in BOOLEAN : FinishExecution(state, written)
    <3>1. PICK state \in Ending, written \in BOOLEAN : FinishExecution(state, written)
      BY <2>3
    <3>e. PICK entry \in NewEntries(state) : book' = Current([book EXCEPT ![job.task] = entry])
      BY <3>1 DEF FinishExecution
    <3> DEFINE new == [book EXCEPT ![job.task] = entry]
    <3>0. ~entry.delivered
      BY DEF NewEntries
    <3>2. book' = Current(new) /\ disk' \in {book', disk}
      BY <3>1, <3>e DEF FinishExecution
    <3>3. e = Current(new)[t] /\ e = new[t]
      BY <1>2, <3>2 DEF Current
    <3> QED BY <1>0, <1>2, <3>0, <3>3
  <2>4. CASE /\ pc = "postKept" /\ delivery \in Undelivered(book)
             /\ book' = Confirmed(delivery) /\ disk' = Confirmed(delivery)
    <3>1. e = book'[t] /\ e = Confirmed(delivery)[t]
      BY <2>4
    <3>2. t = delivery
      BY <1>0, <1>2, <3>1 DEF Confirmed, Current
    <3> QED BY <2>4, <3>1, <3>2, ConfirmedByStore
  <2> QED BY <1>0, <2>1, <2>2, <2>3, <2>4, BookStep
<1> QED
  BY <1>1, <1>2

\* The parts of the invariant keep each other.
THEOREM EvidenceInvariant == RelaySpec => []EvidenceInv
<1>1. RelayInit => EvidenceInv
  <2> SUFFICES ASSUME RelayInit PROVE EvidenceInv
    OBVIOUS
  <2>1. job = NoJob /\ mem = NoReport /\ \A t \in Task : book[t] = NoEntry /\ disk[t] = NoEntry
    BY DEF RelayInit, AgentInit
  <2>2. \A t \in Task : status[t] = "ABSENT"
    BY DEF RelayInit, Init
  <2>3. WithinBudget
    BY RelayAssumption DEF RelayInit, WithinBudget, Budget
  <2> QED
    BY <2>1, <2>2, <2>3
    DEF EvidenceInv, JobIsFresh, SuccessHasResult, NoResultNoRecord, ReportedIsStored, Remembered,
        ConfirmedHasEnded, AuditedUnlessCrashed, SuccessIsAudited
<1>2. ASSUME RelayInv, RelayTypeOK, EvidenceInv, [RelayNext]_relayVars
      PROVE  EvidenceInv'
  <2>1. Base /\ HoldsOnlyTaken /\ Shape
    BY <1>2, BaseStep DEF RelayInv
  <2>2. JobIsFresh'
    BY <1>2, <2>1, JobIsFreshStep DEF EvidenceInv
  <2>3. SuccessHasResult' /\ NoResultNoRecord'
    BY <1>2, <2>1, NoResultStep DEF EvidenceInv
  <2>4. ReportedIsStored' /\ AuditedUnlessCrashed'
    BY <1>2, <2>1, ReportedIsStoredStep, AuditedStep
  <2>5. ConfirmedHasEnded' /\ WithinBudget'
    BY <1>2, <2>1, ConfirmedStep, FaultsAreSpent DEF EvidenceInv
  <2> QED BY <2>2, <2>3, <2>4, <2>5 DEF EvidenceInv
<1> QED
  BY <1>1, <1>2, RelayInvariant, RelayTypeCorrect, PTL DEF RelaySpec

\* Only a crash or a database error of the Controller between its two commits,
\* an execution state file that could not be written or read, or a read that gives the task up first
\* loses a result that the Controller acknowledged.
THEOREM AcknowledgedResultIsStored == RelaySpec => []StoredUnlessGivenUp
<1>1. EvidenceInv => StoredUnlessGivenUp
  <2> SUFFICES ASSUME EvidenceInv, NoStoreCrash, NoDiskFault,
                      NEW t \in Task, book[t] # NoEntry, book[t].delivered, status[t] \notin Reaped
               PROVE  retained[t] # "absent"
    BY DEF StoredUnlessGivenUp
  <2>1. status[t] \in Terminal
    BY DEF EvidenceInv, ConfirmedHasEnded
  <2>2. Reported(t)
    BY <2>1 DEF Reported, Terminal
  <2> QED BY <2>2 DEF EvidenceInv, ReportedIsStored, Remembered
<1> QED BY <1>1, EvidenceInvariant, PTL

\* Only a crash or a database error of the Controller leaves a success without
\* its audit row.
THEOREM SuccessHasAuditRow == RelaySpec => []AuditedUnlessCrashed
<1>1. EvidenceInv => AuditedUnlessCrashed
  BY DEF EvidenceInv
<1> QED BY <1>1, EvidenceInvariant, PTL

\* The agent gives up redelivering a kept result only once its task has ended
\* in the Controller, whatever replies, processes and writes are lost.
THEOREM ConfirmedTasksHaveEnded == RelaySpec => []ConfirmedHasEnded
<1>1. EvidenceInv => ConfirmedHasEnded
  BY DEF EvidenceInv
<1> QED BY <1>1, EvidenceInvariant, PTL

\* A task with a record, read or not, in memory or on disk, is not run again:
\* the Controller hands nothing out twice, so an agent that lost its records
\* is not asked to.
THEOREM RememberedIsNotRerun ==
    RelaySpec => [][\A t \in Task : Remembered(t) => starts'[t] = starts[t]]_relayVars
<1>1. ASSUME RelayInv, EvidenceInv, [RelayNext]_relayVars, NEW t \in Task, Remembered(t)
      PROVE  starts'[t] = starts[t]
  <2>1. AgentTypeOK /\ LoopStep
    BY <1>1, BaseStep, ShapeIsLoopStep DEF Base, RelayInv
  <2>2. CASE Launch
    <3>1. job # NoJob /\ job.task # t
      BY <1>1, <2>1, <2>2 DEF Launch, AgentTypeOK, EvidenceInv, JobIsFresh
    <3> QED BY <2>1, <2>2, <3>1 DEF Launch, AgentTypeOK
  <2> QED BY <2>1, <2>2, JobSource
<1>2. RelayInv /\ EvidenceInv /\ [RelayNext]_relayVars =>
        [\A t \in Task : Remembered(t) => starts'[t] = starts[t]]_relayVars
  BY <1>1
<1> QED
  BY <1>2, RelayInvariant, EvidenceInvariant, PTL DEF RelaySpec

\* Refusals end the agent only over the report of an observation or one that is
\* too large: no beat, no poll and no other report of an execution is refused.
THEOREM FewReportsEndTheAgent == RelaySpec => HaltsOnlyOverSome
<1>1. ASSUME RelayInv, KeptIsAcknowledged, [RelayNext]_relayVars, pc # "halted", pc' = "halted",
             ~Oversized
      PROVE  mem # NoReport /\ ~IsPersistent(mem.task)
  <2>0. Base /\ HoldsOnlyTaken /\ status \in [Task -> Status]
    BY <1>1 DEF RelayInv, Base, TypeOK
  <2>1. CASE ReportMem
    <3>1. PostMem("refused") /\ Reply(mem) = "refused"
      BY <1>1, <2>1 DEF ReportMem, PostMem, Reply, AfterMem, AfterPosts
    <3>2. mem # NoReport /\ mem.task \in Task /\ Taken(mem.task)
      BY <2>0, <2>1 DEF ReportMem, Base, LoopInv, SnapshotIsRight, AgentTypeOK, Pending, HoldsOnlyTaken
    <3>3. ~Acknowledged(Self, mem.task)
      BY <2>1, <3>1 DEF Reply, ReportMem, Served
    <3>4. status[mem.task] \in Status
      BY <2>0, <3>2
    <3> QED BY <3>2, <3>3, <3>4 DEF Acknowledged, RunningOn, Finished, Taken, Status
  <2>2. CASE ReportKept
    <3>1. Reply(KeptReport(delivery)) = "ok"
      BY <1>1, <2>2, KeptIsTaken DEF ReportKept
    <3> QED BY <1>1, <2>2, <3>1 DEF ReportKept, PostKept, Die, AfterPosts
  <2>3. ~(ReportTooLarge \/ ReportCut \/ RequestLost \/ HeartbeatServed)
    BY <1>1 DEF Oversized, ReportTooLarge, ReportCut, RequestLost, HeartbeatServed, PostMem, PostKept,
       Beat
  <2>4. ~(PollServed \/ PollTimesOut \/ PollLost \/ AgentCrash \/ StoreCrash)
    BY <1>1 DEF PollServed, PollTimesOut, PollLost, AgentCrash, StoreCrash, PollTask, PollEmpty,
       Crash, Die, agentVars
  <2>5. ~(OrphanTakes \/ OrphanEnds \/ Clients \/ Passing \/ UNCHANGED relayVars)
    BY <1>1 DEF OrphanTakes, OrphanEnds, Clients, Passing, relayVars, agentVars
  <2>6. ~AgentLocal
    <3>1. ~(Start \/ StartUnread \/ Execute)
      BY <1>1 DEF Start, StartUnread, Execute, Refuse, Launch, Break, FinishObservation
    <3>2. \A written \in BOOLEAN : ~Save(written)
      BY <1>1 DEF Save, Top, Recall, FinishExecution, CannotDrop, Die, AfterMem, AfterPosts
    <3> QED BY <3>1, <3>2 DEF AgentLocal
  <2> QED BY <1>1, <2>1, <2>2, <2>3, <2>4, <2>5, <2>6 DEF RelayNext
<1> QED
  BY <1>1, RelayInvariant, KeptIsNeverRefused, PTL DEF RelaySpec, HaltsOnlyOverSome

-----------------------------------------------------------------------------
(* A task handed out ends                                                  *)

\* The clock gets to its bound.  It follows from the fairness of Passing by
\* induction over the clock, which the temporal prover does not do.
TimePasses == <>(now = MaxTime)

\* A task handed out early enough for the clock to reach its time-out.
GivesUpInTime(t) == status[t] = "RUNNING" /\ started[t] + StaleAfter < MaxTime

\* It stays so until it ends; at the end of time it is overdue; and the read
\* of an overdue task ends it.
LEMMA OverdueIsEnded ==
    ASSUME NEW t \in Task, TypeOK, [Next]_vars, GivesUpInTime(t)
    PROVE  /\ GivesUpInTime(t)' \/ status'[t] \in Terminal
           /\ Stale(t) /\ ClientPolls(t) => status'[t] \in Terminal
<1>1. GivesUpInTime(t)' \/ status'[t] \in Terminal
  BY StepOfTask
  DEF GivesUpInTime, Stays, IsQueued, IsHandedOut, IsReported, IsGivenUp, GivenUpAs, StartKept,
      Terminal, Reaped
<1>2. Stale(t) /\ ClientPolls(t) => status'[t] \in Terminal
  BY DEF ClientPolls, ReadTask, StatusRead, GivenUpAs, Terminal, Reaped, TypeOK
<1> QED BY <1>1, <1>2

LEMMA InTheEndOverdue ==
    ASSUME NEW t \in Task, TypeOK, RunningIsDated, GivesUpInTime(t), now = MaxTime
    PROVE  Stale(t)
BY MaxTimeAssumption, StoreTimesAssumption
DEF GivesUpInTime, Stale, RunningIsDated, TypeOK, Time

\* A task handed out ends, also one that an orphaned poll took or whose agent
\* died, if it is read once it is overdue: the read gives it up for good.  That
\* the overdue task can be read (NobodyIsStuck) is a hypothesis: it is a
\* statement about ENABLED.
THEOREM HandedOutEnds == RelaySpec /\ []NobodyIsStuck /\ TimePasses => RunningEnds
<1>0. [Next]_vars /\ now = MaxTime => (now = MaxTime)'
  BY MaxTimeAssumption DEF Next, Tick, vars
<1>1. ASSUME NEW t \in Task
      PROVE  RelaySpec /\ []NobodyIsStuck /\ TimePasses => EndsIfRead(t)
  <2>2. TypeOK /\ [Next]_vars /\ GivesUpInTime(t) =>
          GivesUpInTime(t)' \/ (status[t] \in Terminal)'
    BY OverdueIsEnded
  <2>3. TypeOK /\ RunningIsDated /\ GivesUpInTime(t) /\ now = MaxTime => Stale(t)
    BY InTheEndOverdue
  <2>4. NobodyIsStuck /\ Stale(t) => ENABLED <<ClientPolls(t)>>_relayVars
    BY DEF NobodyIsStuck
  <2>5. TypeOK /\ [Next]_vars /\ GivesUpInTime(t) /\ Stale(t) /\ <<ClientPolls(t)>>_relayVars =>
          (status[t] \in Terminal)'
    BY OverdueIsEnded
  <2>6. status[t] = "RUNNING" /\ started[t] + StaleAfter < MaxTime => GivesUpInTime(t)
    BY DEF GivesUpInTime
  <2> QED
    BY <1>0, <2>2, <2>3, <2>4, <2>5, <2>6, RelayImplementsStore, TypeCorrect, HandOutIsDated, PTL
    DEF EndsIfRead, TimePasses, Spec
<1> QED BY <1>1 DEF RunningEnds

-----------------------------------------------------------------------------
(* The agent lets go of what it holds                                      *)

\* There is a last fault.  The budget makes it so; that a number cannot go
\* down for ever is again beyond the temporal prover.
FaultsEnd == <>[][UNCHANGED faults]_relayVars

\* How far the agent is on its way to the next poll.
Progress ==
    CASE pc = "exec" -> 1
      [] pc = "running" -> 2
      [] pc = "top" /\ mem # NoReport -> 3
      [] pc = "postMem" -> 4
      [] pc \in Stopped -> 5
      [] pc = "top" /\ mem = NoReport -> 6
      [] pc = "postKept" -> 7
      [] pc = "beat" -> 8
      [] pc = "poll" -> 9

ProgressOK == Progress \in 1 .. 9 /\ (Progress = 9 <=> pc = "poll")

LEMMA ProgressType == Base => ProgressOK
<1> SUFFICES ASSUME Base PROVE ProgressOK
  OBVIOUS
<1> USE DEF Stopped
<1>1. pc \in Place
  BY DEF Base, AgentTypeOK
<1>2. CASE pc = "top"
  <2>1. CASE mem = NoReport
    BY <1>2, <2>1 DEF Progress, ProgressOK
  <2>2. CASE mem # NoReport
    BY <1>2, <2>2 DEF Progress, ProgressOK
  <2> QED BY <2>1, <2>2
<1>3. CASE pc \in Place \ {"top"}
  BY <1>3 DEF Place, Progress, ProgressOK
<1> QED BY <1>1, <1>2, <1>3

\* While it beats or polls, the agent holds nothing it has read.
LEMMA PollsEmptyHanded ==
    ASSUME Base, NEW t \in Task \ unread, Holds(t)
    PROVE  Progress < 8
<1>1. pc \notin {"beat", "poll"}
  <2>1. pc \in {"beat", "poll"} => job = NoJob /\ mem = NoReport /\ Undelivered(book) = {}
    BY DEF Base, AgentTypeOK, LoopInv, OwesAtMostOne
  <2>2. pc \in {"beat", "poll"} => Undelivered(disk) \ unread \subseteq Undelivered(book)
    BY DEF Base, LoopInv, BookLeadsDisk, Stopped
  <2> QED BY <2>1, <2>2 DEF Holds, Owes
<1> QED
  BY <1>1 DEF Base, AgentTypeOK, Place, Stopped, Progress

\* A step that is no fault spends nothing of the budget.
LEMMA CalmIsNoFault ==
    ASSUME RelayTypeOK, UNCHANGED faults
    PROVE  /\ \A kind \in {"network", "agent", "store", "disk"} : ~Fault(kind)
           /\ \A written \in BOOLEAN : Writing(written) => written
<1>1. ASSUME NEW kind \in {"network", "agent", "store", "disk"}, Fault(kind)
      PROVE  FALSE
  <2>1. faults[kind] \in Nat /\ faults[kind] = faults[kind] - 1
    BY <1>1 DEF Fault, RelayTypeOK
  <2> QED BY <2>1
<1> QED BY <1>1 DEF Writing

\* Without faults and reports that are too large no step takes the agent back,
\* and each of its own takes it on, until its poll is answered.
LEMMA ProgressIsMade ==
    ASSUME Base, RelayTypeOK, KeptIsAcknowledged, [RelayNext]_relayVars, UNCHANGED faults,
           ~Oversized, ~PollServed, ~PollTimesOut
    PROVE  /\ Progress' >= Progress
           /\ AgentTurn => Progress' > Progress
<1> USE DEF Stopped
<1>1. ASSUME ReportMem PROVE Progress' > Progress
  <2>1. pc = "postMem" /\ PostMem(Reply(mem))
    BY <1>1, CalmIsNoFault DEF ReportMem
  <2>2. pc' \in {"postKept", "beat", "poll", "halted"}
    BY <2>1 DEF PostMem, Reply, Die, AfterMem, AfterPosts
  <2> QED BY <2>1, <2>2 DEF Progress
<1>2. ASSUME ReportKept PROVE Progress' > Progress
  <2>2. Reply(KeptReport(delivery)) = "ok"
    BY <1>2, KeptIsTaken DEF ReportKept
  <2>3. PICK written \in BOOLEAN : PostKept("ok", written) /\ Writing(written)
    BY <1>2, <2>2, CalmIsNoFault DEF ReportKept
  <2>4. written
    BY <2>3, CalmIsNoFault
  <2>5. pc = "postKept" /\ pc' \in {"beat", "poll"}
    BY <2>3, <2>4 DEF PostKept, AfterPosts
  <2> QED BY <2>5 DEF Progress
<1>3. ASSUME HeartbeatServed PROVE Progress' > Progress
  <2>1. pc = "beat" /\ pc' = "poll"
    BY <1>3, CalmIsNoFault DEF HeartbeatServed, Beat
  <2> QED BY <2>1 DEF Progress
<1>4. ~ReportCut /\ ~RequestLost /\ ~PollLost /\ ~AgentCrash /\ ~StoreCrash
  BY CalmIsNoFault DEF ReportCut, RequestLost, PollLost, AgentCrash, StoreCrash
<1>t. ~ReportTooLarge
  BY DEF ReportTooLarge, Oversized
<1>5. ASSUME AgentLocal PROVE Progress' > Progress
  <2>1. CASE Start
    <3>1. mem = NoReport
      BY <2>1 DEF Start, Base, LoopInv, StoppedIsEmpty
    <3> QED BY <2>1, <3>1 DEF Start, Progress
  <2>2. CASE Execute
    BY <2>2 DEF Execute, Refuse, Launch, Break, FinishObservation, Progress
  <2>3. ASSUME Save(TRUE) PROVE Progress' > Progress
    <3>1. CASE Top(TRUE)
      <4>1. CASE mem # NoReport
        BY <3>1, <4>1 DEF Top, Progress
      <4>2. CASE mem = NoReport
        <5>1. pc = "top" /\ pc' \in {"postKept", "beat", "poll"}
          BY <3>1, <4>2 DEF Top, AfterMem, AfterPosts
        <5> QED BY <4>2, <5>1 DEF Progress
      <4> QED BY <4>1, <4>2
    <3>2. CASE Recall(TRUE)
      BY <3>2 DEF Recall, Progress
    <3>3. CASE \E state \in {"succeeded", "failed"} : FinishExecution(state, TRUE)
      BY <3>3 DEF FinishExecution, Progress
    <3> QED BY <2>3, <3>1, <3>2, <3>3 DEF Save
  <2>4. \A written \in BOOLEAN : Writing(written) => written
    BY CalmIsNoFault
  <2>5. ~(StartUnread /\ Fault("disk"))
    BY CalmIsNoFault
  <2> QED BY <1>5, <2>1, <2>2, <2>3, <2>4, <2>5 DEF AgentLocal
<1>6. ASSUME UNCHANGED agentVars PROVE Progress' = Progress
  BY <1>6 DEF agentVars, Progress
<1>7. OrphanTakes \/ OrphanEnds \/ Clients \/ Passing \/ UNCHANGED relayVars => UNCHANGED agentVars
  BY DEF OrphanTakes, OrphanEnds, Clients, Passing, relayVars
<1>8. Progress \in Nat /\ Progress' \in Nat
  <2>1. ProgressOK /\ ProgressOK'
    BY ProgressType, BaseStep, PTL
  <2> QED BY <2>1 DEF ProgressOK
<1> QED
  BY <1>1, <1>2, <1>3, <1>4, <1>t, <1>5, <1>6, <1>7, <1>8 DEF RelayNext, AgentTurn

\* A step of its loop that the agent has not come past is one it can take,
\* unless an execution or a restart is awaited.
LEMMA WaitingPlaces ==
    ASSUME Base, NEW k \in 1 .. 9, Progress = k
    PROVE  /\ k = 2 => pc = "running"
           /\ k = 5 => pc \in Stopped
           /\ k \notin {2, 5} => Looping
<1> USE DEF Stopped, Looping
<1>1. pc \in Place
  BY DEF Base, AgentTypeOK
<1>2. CASE pc = "top"
  <2>1. Progress \in {3, 6}
    BY <1>2 DEF Progress
  <2> QED BY <1>2, <2>1
<1>3. CASE pc \in Place \ {"top"}
  BY <1>3 DEF Place, Progress
<1> QED BY <1>1, <1>2, <1>3

\* The agent holds the task, knows it, and has come so far with it.
Holding(t, k) == Holds(t) /\ t \notin unread /\ Progress >= k

HoldingAdvances(t, k) ==
    FairRelaySpec /\ []NobodyIsStuck /\ FaultsEnd /\ ~Blocked /\ <>[]Holding(t, k)
        => <>[]Holding(t, k + 1)

\* After the last fault, an agent that does not let go of a task gets on with
\* it: from its loop by its own turns, from an execution and from its end as
\* nothing blocks it for good.
HolderGoesOn(t, k) ==
    /\ Base /\ Base' /\ RelayTypeOK /\ KeptIsAcknowledged /\ [RelayNext]_relayVars
    /\ ~Oversized /\ [UNCHANGED faults]_relayVars /\ Holding(t, k) /\ Holding(t, k)'
    => (<<AgentTurn>>_relayVars \/ Holding(t, k + 1) => Holding(t, k + 1)')

LEMMA HolderStep ==
    ASSUME NEW t \in Task, NEW k \in 1 .. 8
    PROVE  HolderGoesOn(t, k)
<1> SUFFICES ASSUME Base, Base', RelayTypeOK, KeptIsAcknowledged, [RelayNext]_relayVars,
                    ~Oversized, UNCHANGED faults, Holding(t, k), Holding(t, k)',
                    AgentTurn \/ Holding(t, k + 1)
             PROVE  Holding(t, k + 1)'
  BY DEF HolderGoesOn, relayVars
<1>1. ProgressOK /\ ProgressOK'
  BY ProgressType, PTL
<1>2. pc # "poll"
  BY <1>1, PollsEmptyHanded DEF ProgressOK, Holding
<1>3. ~PollServed /\ ~PollTimesOut
  BY <1>2 DEF PollServed, PollTask, PollTimesOut, PollEmpty
<1> QED BY <1>1, <1>3, ProgressIsMade DEF Holding, ProgressOK

LEMMA HolderWhere ==
    ASSUME NEW t \in Task, NEW k \in 1 .. 8, Base, Holding(t, k), ~Holding(t, k + 1)
    PROVE  /\ k = 2 => pc = "running"
           /\ k = 5 => pc \in Stopped
           /\ k \notin {2, 5} => Looping
<1>1. Progress = k
  BY ProgressType DEF Holding, ProgressOK
<1> QED
  BY <1>1, WaitingPlaces

LEMMA HolderAdvances ==
    ASSUME NEW t \in Task, NEW k \in (1 .. 8) \ {2, 5}
    PROVE  HoldingAdvances(t, k)
<1>1. HolderGoesOn(t, k)
  BY HolderStep
<1>2. NobodyIsStuck /\ Looping => ENABLED <<AgentTurn>>_relayVars
  BY DEF NobodyIsStuck
<1>3. Base /\ Holding(t, k) /\ ~Looping => Holding(t, k + 1)
  BY HolderWhere
<1> QED
  BY <1>1, <1>2, <1>3, BaseInvariant, RelayTypeCorrect, KeptIsNeverRefused, PTL
  DEF HolderGoesOn, HoldingAdvances, FaultsEnd, FairRelaySpec, RelaySpec, Blocked

LEMMA HolderFinishes ==
    ASSUME NEW t \in Task
    PROVE  HoldingAdvances(t, 2)
<1>1. HolderGoesOn(t, 2)
  BY HolderStep
<1>2. Base /\ Holding(t, 2) /\ ~(pc = "running") => Holding(t, 2 + 1)
  BY HolderWhere
<1> QED
  BY <1>1, <1>2, BaseInvariant, RelayTypeCorrect, KeptIsNeverRefused, PTL
  DEF HolderGoesOn, HoldingAdvances, FaultsEnd, FairRelaySpec, RelaySpec, Blocked

LEMMA HolderStarts ==
    ASSUME NEW t \in Task
    PROVE  HoldingAdvances(t, 5)
<1>1. HolderGoesOn(t, 5)
  BY HolderStep
<1>2. Base /\ Holding(t, 5) /\ ~(pc \in Stopped) => Holding(t, 5 + 1)
  BY HolderWhere
<1> QED
  BY <1>1, <1>2, BaseInvariant, RelayTypeCorrect, KeptIsNeverRefused, PTL
  DEF HolderGoesOn, HoldingAdvances, FaultsEnd, FairRelaySpec, RelaySpec, Blocked

\* Once the faults are over the agent lets go of every task it holds and knows
\* of, unless it is not started again, its execution does not end or it is
\* refused a report for its size for ever: it does not go on for ever posting,
\* starting over or being refused.  That a turn of its loop always has a next
\* step (NobodyIsStuck) is a hypothesis about ENABLED.
THEOREM AgentLetsGoOfAll == FairRelaySpec /\ []NobodyIsStuck /\ FaultsEnd => AgentLetsGo
<1>1. ASSUME NEW t \in Task
      PROVE  FairRelaySpec /\ []NobodyIsStuck /\ FaultsEnd /\ ~Blocked =>
               (Holds(t) ~> ~Holds(t) \/ t \in unread)
  <2>1. /\ HoldingAdvances(t, 1) /\ HoldingAdvances(t, 2) /\ HoldingAdvances(t, 3)
        /\ HoldingAdvances(t, 4) /\ HoldingAdvances(t, 5) /\ HoldingAdvances(t, 6)
        /\ HoldingAdvances(t, 7)
    BY HolderAdvances, HolderFinishes, HolderStarts
  <2>2. /\ Holding(t, 1 + 1) <=> Holding(t, 2)
        /\ Holding(t, 2 + 1) <=> Holding(t, 3)
        /\ Holding(t, 3 + 1) <=> Holding(t, 4)
        /\ Holding(t, 4 + 1) <=> Holding(t, 5)
        /\ Holding(t, 5 + 1) <=> Holding(t, 6)
        /\ Holding(t, 6 + 1) <=> Holding(t, 7)
        /\ Holding(t, 7 + 1) <=> Holding(t, 8)
    OBVIOUS
  <2>3. /\ Base /\ Holds(t) /\ ~(t \in unread) => Holding(t, 1)
        /\ Base => ~Holding(t, 8)
    BY ProgressType, PollsEmptyHanded DEF ProgressOK, Holding
  <2> QED
    BY <2>1, <2>2, <2>3, BaseInvariant, PTL DEF HoldingAdvances, FairRelaySpec
<1> QED BY <1>1 DEF AgentLetsGo

-----------------------------------------------------------------------------
(* A queued task is taken                                                  *)

\* Some poll is the last that is handed a task: each is handed out once
\* (NeverHandedTwice) and Task is finite, another induction for the reader.
HandOutsEnd == <>[][UNCHANGED handed]_relayVars

\* The agent modelled is the one that every task is meant for.
OnlyOurHost == \A r \in Submission : r.host = Self

\* The task waits and the agent has come so far on its way to the next poll.
Queueing(t, k) == status[t] = "QUEUED" /\ Progress >= k

QueueAdvances(t, k) ==
    /\ FairRelaySpec /\ []NobodyIsStuck /\ FaultsEnd /\ HandOutsEnd /\ ~Blocked
    /\ <>[]Queueing(t, k)
    => <>[]Queueing(t, k + 1)

\* A poll does not come back empty while a task waits for its host.
LEMMA NoEmptyPoll ==
    ASSUME NEW t \in Task, TypeOK, OnlyOurHost, status[t] = "QUEUED"
    PROVE  ~PollTimesOut
<1>1. request[t] \in Submission
  BY DEF TypeOK
<1>2. QueuedFor(Self, t)
  BY <1>1 DEF QueuedFor, OnlyOurHost
<1> QED BY <1>2 DEF PollTimesOut

LEMMA ServedIsHandedOut ==
    ASSUME TypeOK, UNCHANGED handed
    PROVE  ~PollServed
<1> SUFFICES ASSUME NEW t \in Task, NextTask(Self, t) PROVE FALSE
  BY DEF PollServed
<1>1. handed[t] \in Nat /\ handed'[t] = handed[t] + 1
  BY DEF NextTask, TypeOK
<1> QED BY <1>1

\* After the last fault and the last hand-out, an agent would get on for ever
\* while a task waits for it.
WaiterGoesOn(t, k) ==
    /\ Base /\ Base' /\ RelayTypeOK /\ KeptIsAcknowledged /\ [RelayNext]_relayVars
    /\ ~Oversized /\ [UNCHANGED faults]_relayVars /\ [UNCHANGED handed]_relayVars
    /\ Queueing(t, k) /\ Queueing(t, k)'
    => (<<AgentTurn>>_relayVars \/ Queueing(t, k + 1) => Queueing(t, k + 1)')

LEMMA WaiterStep ==
    ASSUME NEW t \in Task, NEW k \in 1 .. 9, OnlyOurHost
    PROVE  WaiterGoesOn(t, k)
<1> SUFFICES ASSUME Base, Base', RelayTypeOK, KeptIsAcknowledged, [RelayNext]_relayVars,
                    ~Oversized, UNCHANGED faults, UNCHANGED handed, Queueing(t, k), Queueing(t, k)',
                    AgentTurn \/ Queueing(t, k + 1)
             PROVE  Queueing(t, k + 1)'
  BY DEF WaiterGoesOn, relayVars, storeVars
<1>1. ProgressOK /\ ProgressOK'
  BY ProgressType, PTL
<1>3. ~PollServed /\ ~PollTimesOut
  BY NoEmptyPoll, ServedIsHandedOut DEF Queueing, Base
<1> QED BY <1>1, <1>3, ProgressIsMade DEF Queueing, ProgressOK

LEMMA WaiterWhere ==
    ASSUME NEW t \in Task, NEW k \in 1 .. 9, Base, Queueing(t, k), ~Queueing(t, k + 1)
    PROVE  /\ k = 2 => pc = "running"
           /\ k = 5 => pc \in Stopped
           /\ k \notin {2, 5} => Looping
<1>1. Progress = k
  BY ProgressType DEF Queueing, ProgressOK
<1> QED
  BY <1>1, WaitingPlaces

LEMMA WaiterAdvances ==
    ASSUME NEW t \in Task, NEW k \in (1 .. 9) \ {2, 5}, OnlyOurHost
    PROVE  QueueAdvances(t, k)
<1>1. WaiterGoesOn(t, k)
  BY WaiterStep
<1>2. NobodyIsStuck /\ Looping => ENABLED <<AgentTurn>>_relayVars
  BY DEF NobodyIsStuck
<1>3. Base /\ Queueing(t, k) /\ ~Looping => Queueing(t, k + 1)
  BY WaiterWhere
<1> QED
  BY <1>1, <1>2, <1>3, BaseInvariant, RelayTypeCorrect, KeptIsNeverRefused, PTL
  DEF WaiterGoesOn, QueueAdvances, FaultsEnd, HandOutsEnd, FairRelaySpec, RelaySpec, Blocked

LEMMA WaiterFinishes ==
    ASSUME NEW t \in Task, OnlyOurHost
    PROVE  QueueAdvances(t, 2)
<1>1. WaiterGoesOn(t, 2)
  BY WaiterStep
<1>2. Base /\ Queueing(t, 2) /\ ~(pc = "running") => Queueing(t, 2 + 1)
  BY WaiterWhere
<1> QED
  BY <1>1, <1>2, BaseInvariant, RelayTypeCorrect, KeptIsNeverRefused, PTL
  DEF WaiterGoesOn, QueueAdvances, FaultsEnd, HandOutsEnd, FairRelaySpec, RelaySpec, Blocked

LEMMA WaiterStarts ==
    ASSUME NEW t \in Task, OnlyOurHost
    PROVE  QueueAdvances(t, 5)
<1>1. WaiterGoesOn(t, 5)
  BY WaiterStep
<1>2. Base /\ Queueing(t, 5) /\ ~(pc \in Stopped) => Queueing(t, 5 + 1)
  BY WaiterWhere
<1> QED
  BY <1>1, <1>2, BaseInvariant, RelayTypeCorrect, KeptIsNeverRefused, PTL
  DEF WaiterGoesOn, QueueAdvances, FaultsEnd, HandOutsEnd, FairRelaySpec, RelaySpec, Blocked

\* A queued task of the agent's host is handed out, whatever was queued before
\* it and whatever the agent was doing, unless something outside its loop
\* blocks it for good: no task starves in the queue otherwise.
THEOREM QueuedAreTaken ==
    ASSUME OnlyOurHost
    PROVE  FairRelaySpec /\ []NobodyIsStuck /\ FaultsEnd /\ HandOutsEnd => QueuedIsTaken
<1>1. ASSUME NEW t \in Task
      PROVE  FairRelaySpec /\ []NobodyIsStuck /\ FaultsEnd /\ HandOutsEnd /\ ~Blocked =>
               (status[t] = "QUEUED" ~> status[t] # "QUEUED")
  <2>1. /\ QueueAdvances(t, 1) /\ QueueAdvances(t, 2) /\ QueueAdvances(t, 3)
        /\ QueueAdvances(t, 4) /\ QueueAdvances(t, 5) /\ QueueAdvances(t, 6)
        /\ QueueAdvances(t, 7) /\ QueueAdvances(t, 8) /\ QueueAdvances(t, 9)
    BY WaiterAdvances, WaiterFinishes, WaiterStarts
  <2>2. /\ Queueing(t, 1 + 1) <=> Queueing(t, 2)
        /\ Queueing(t, 2 + 1) <=> Queueing(t, 3)
        /\ Queueing(t, 3 + 1) <=> Queueing(t, 4)
        /\ Queueing(t, 4 + 1) <=> Queueing(t, 5)
        /\ Queueing(t, 5 + 1) <=> Queueing(t, 6)
        /\ Queueing(t, 6 + 1) <=> Queueing(t, 7)
        /\ Queueing(t, 7 + 1) <=> Queueing(t, 8)
        /\ Queueing(t, 8 + 1) <=> Queueing(t, 9)
    OBVIOUS
  <2>3. Base => /\ ~Queueing(t, 9 + 1)
                /\ status[t] = "QUEUED" => Queueing(t, 1)
                /\ ~(status[t] = "QUEUED") => status[t] # "QUEUED"
    BY ProgressType DEF ProgressOK, Queueing
  <2> QED
    BY <2>1, <2>2, <2>3, BaseInvariant, PTL DEF QueueAdvances, FairRelaySpec
<1> QED BY <1>1 DEF QueuedIsTaken
=============================================================================
