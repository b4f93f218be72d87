---------------------------- MODULE SandboxProofs ----------------------------
(***************************************************************************)
(* What LoneAgent promises holds for any tasks, dispatches, retention time *)
(* and Controller.  Sandbox implements LoneAgent, so all that holds of the *)
(* agent's loop holds of it; and what an execution leaves behind is as     *)
(* Sandbox claims, for any bulky files.                                    *)
(***************************************************************************)
EXTENDS Sandbox, HostAgentProofs

-----------------------------------------------------------------------------
(* The agent against any Controller                                        *)

\* Any turn of the agent is one of the steps the lemmas are about.
LEMMA TurnIsLoopStep ==
    ASSUME Turn
    PROVE  LoopStep
<1> USE DEF Replies, Answer, Ending
<1>1. CASE Execute
  BY <1>1 DEF Execute, LoopStep
<1>2. CASE \E state \in {"succeeded", "failed"}, written \in BOOLEAN : FinishExecution(state, written)
  BY <1>2 DEF LoopStep
<1>3. CASE \E j \in Dispatch : PollTask(j)
  BY <1>3, DispatchAssumption DEF LoopStep
<1>4. CASE Start \/ StartUnread \/ Crash
  BY <1>4 DEF LoopStep
<1>5. CASE \E reply \in Replies : PostMem(reply) \/ Beat(reply) \/ PollEmpty(reply)
  BY <1>5 DEF LoopStep
<1>6. CASE \E reply \in Replies, written \in BOOLEAN : PostKept(reply, written)
  BY <1>6 DEF LoopStep
<1>7. CASE \E written \in BOOLEAN : Top(written) \/ Recall(written)
  BY <1>7 DEF LoopStep
<1> QED
  BY <1>1, <1>2, <1>3, <1>4, <1>5, <1>6, <1>7 DEF Turn, Loop

\* What a turn polls, it was dispatched.
LEMMA TurnPolls ==
    ASSUME Turn, pc = "poll", pc' = "exec"
    PROVE  \E j \in Dispatch : PollTask(j)
<1>1. ~(Start \/ StartUnread \/ Crash)
  BY DEF Start, StartUnread, Crash, Stopped, Die
<1>2. \A reply \in Replies : ~(PostMem(reply) \/ Beat(reply) \/ PollEmpty(reply))
  BY DEF PostMem, Beat, PollEmpty, Die
<1>3. \A reply \in Replies, written \in BOOLEAN : ~PostKept(reply, written)
  BY DEF PostKept
<1>4. ~Execute
  BY DEF Execute, Refuse, Launch, Break, FinishObservation
<1>5. \A written \in BOOLEAN : ~Top(written) /\ ~Recall(written)
  BY DEF Top, Recall
<1>6. \A state \in {"succeeded", "failed"}, written \in BOOLEAN : ~FinishExecution(state, written)
  BY DEF FinishExecution
<1> QED
  BY <1>1, <1>2, <1>3, <1>4, <1>5, <1>6 DEF Turn, Loop

\* A record is of a task that was dispatched as a persistent one.
Recordable(t) == \E j \in Dispatch : j.task = t /\ j.capability \in Persistent

OnlyDispatched ==
    /\ job # NoJob => job \in Dispatch
    /\ \A t \in Task : book[t] # NoEntry \/ disk[t] # NoEntry => Recordable(t)

LoneInv == now \in Time /\ AgentTypeOK /\ LoopInv /\ OnlyDispatched

\* The agent starts with no record, no job and nothing to post.
LEMMA LoneInvInit ==
    ASSUME LoneInit
    PROVE  LoneInv
<1>1. now \in Time
  BY MaxTimeAssumption DEF LoneInit, ClockInit, Time
<1>2. AgentTypeOK
  BY MaxTimeAssumption DEF LoneInit, AgentInit, AgentTypeOK, Place, Stopped, Time, Outcome
<1>3. Undelivered(book) = {} /\ Undelivered(disk) = {}
  BY DEF LoneInit, AgentInit, Undelivered
<1>4. LoopInv
  BY <1>3 DEF LoneInit, AgentInit, LoopInv, StoppedIsEmpty, BookLeadsDisk, SnapshotIsRight,
     RunningIsUnknown, OwesAtMostOne, Stopped
<1>5. OnlyDispatched
  BY DEF LoneInit, AgentInit, OnlyDispatched
<1> QED
  BY <1>1, <1>2, <1>4, <1>5 DEF LoneInv

\* No turn of the agent, reply, crash or tick breaks the invariant.
LEMMA LoneInvStep ==
    ASSUME LoneInv, [LoneNext]_loneVars
    PROVE  LoneInv'
<1>1. CASE Turn /\ UNCHANGED now
  <2>1. LoopStep /\ now' \in Time
    BY <1>1, TurnIsLoopStep DEF LoneInv
  <2>2. AgentTypeOK'
    BY <2>1, AgentTypeStep DEF LoneInv
  <2>3. LoopInv'
    BY <1>1, <2>1, LoopInvStep DEF LoneInv
  <2>4. job' # NoJob => job' \in Dispatch
    <3>1. CASE \E j \in Dispatch : PollTask(j)
      BY <3>1 DEF PollTask
    <3>2. CASE job' = job \/ job' = NoJob
      BY <3>2 DEF LoneInv, OnlyDispatched
    <3>3. pc = "poll" /\ pc' = "exec" => \E j \in Dispatch : PollTask(j)
      BY <1>1, TurnPolls
    <3> QED BY <2>1, <3>1, <3>2, <3>3, JobSource DEF PollTask
  <2>5. ASSUME NEW t \in Task, book'[t] # NoEntry \/ disk'[t] # NoEntry
        PROVE  Recordable(t)
    <3>1. CASE book[t] # NoEntry \/ disk[t] # NoEntry
      BY <3>1 DEF LoneInv, OnlyDispatched
    <3>2. CASE pc = "running" /\ JobPersistent /\ job.task = t
      BY <3>2 DEF LoneInv, AgentTypeOK, OnlyDispatched, Recordable, JobPersistent
    <3> QED BY <2>1, <2>5, <3>1, <3>2, RecordSource DEF LoneInv
  <2> QED BY <2>1, <2>2, <2>3, <2>4, <2>5 DEF LoneInv, OnlyDispatched, Recordable
<1>2. CASE Tick /\ UNCHANGED agentVars
  <2>1. now' \in Time
    BY <1>2, MaxTimeAssumption DEF Tick, Time, LoneInv
  <2>2. OnlyDispatched'
    BY <1>2 DEF agentVars, LoneInv, OnlyDispatched, Recordable
  <2> QED BY <1>2, <2>1, <2>2, LoopInvTick DEF LoneInv
<1>3. CASE UNCHANGED loneVars
  <2>1. LoopStep /\ now' = now
    BY <1>3 DEF loneVars, LoopStep
  <2>2. OnlyDispatched'
    BY <1>3 DEF loneVars, agentVars, LoneInv, OnlyDispatched, Recordable
  <2> QED BY <2>1, <2>2, AgentTypeStep, LoopInvStep DEF LoneInv
<1> QED
  BY <1>1, <1>2, <1>3 DEF LoneNext

-----------------------------------------------------------------------------
(* What the agent promises to any Controller                               *)

\* The inductive invariant of the agent: what run() knows at each point of
\* its loop, against any Controller.
THEOREM LoneInvariant == LoneSpec => []LoneInv
BY LoneInvInit, LoneInvStep, PTL DEF LoneSpec

\* The agent's variables stay well typed against any Controller.
THEOREM AgentTypeCorrect == LoneSpec => []AgentTypeOK
<1>1. LoneInv => AgentTypeOK
  BY DEF LoneInv
<1> QED BY LoneInvariant, <1>1, PTL

\* However replies are lost, tasks handed out twice and processes ended, the
\* agent owes at most one report, and polls, beats and executes owing none.
THEOREM AgentOwesAtMostOne == LoneSpec => []OwesAtMostOne
<1>1. LoneInv => OwesAtMostOne
  BY DEF LoneInv, LoopInv
<1> QED BY LoneInvariant, <1>1, PTL

\* A task with an unexpired record on disk is not run again, whatever the
\* Controller hands out and wherever the agent crashed, unless the agent
\* started from a file that it could not read.
THEOREM AgentDoesNotRerun == LoneSpec => RecordedIsNotRerun
<1>1. ASSUME LoneInv, [LoneNext]_loneVars, NEW t \in Task \ unread, Current(disk)[t] # NoEntry
      PROVE  starts'[t] = starts[t]
  <2>1. CASE Turn /\ Launch
    <3>1. pc = "exec" /\ job \in Dispatch /\ job.task \in Task
      BY <1>1, <2>1, DispatchAssumption DEF Launch, LoneInv, AgentTypeOK, OnlyDispatched, Job
    <3>2. disk[t] # NoEntry /\ book[t] = disk[t]
      BY <1>1, <3>1 DEF LoneInv, LoopInv, BookLeadsDisk, Current, Stopped
    <3>3. Recordable(t)
      BY <1>1, <3>2 DEF LoneInv, OnlyDispatched
    <3>4. job.task # t
      <4> SUFFICES ASSUME job.task = t PROVE FALSE
        OBVIOUS
      <4>1. JobPersistent
        BY <3>1, <3>3, DispatchAssumption DEF Recordable, JobPersistent
      <4> QED BY <2>1, <3>2, <4>1 DEF Launch
    <3> QED BY <1>1, <2>1, <3>1, <3>4 DEF Launch, LoneInv, AgentTypeOK
  <2>2. CASE starts' = starts
    BY <2>2
  <2> QED
    BY <1>1, <2>1, <2>2, TurnIsLoopStep, JobSource DEF LoneNext, loneVars, agentVars
<1>2. LoneInv /\ [LoneNext]_loneVars =>
        [\A t \in Task \ unread : Current(disk)[t] # NoEntry => starts'[t] = starts[t]]_loneVars
  BY <1>1
<1> QED BY LoneInvariant, <1>2, PTL DEF LoneSpec, RecordedIsNotRerun

\* What is posted again after a restart is what was posted before.
THEOREM AgentRecordsAreStable == LoneSpec => RecordIsStable
<1>1. ASSUME LoneInv, [LoneNext]_loneVars, NEW t \in Task \ unread, disk[t] # NoEntry
      PROVE  \/ disk'[t] = NoEntry
             \/ /\ disk'[t].state = disk[t].state /\ disk'[t].large = disk[t].large
                /\ disk[t].delivered => disk'[t].delivered
             \/ disk[t].expires <= now
  <2>1. disk[t].expires \in Nat /\ now \in Nat
    BY <1>1, MaxTimeAssumption DEF LoneInv, AgentTypeOK, Entry, Time
  <2>2. CASE disk[t].expires > now /\ Turn
    BY <1>1, <2>2, TurnIsLoopStep, RecordStep DEF LoneInv
  <2>3. CASE disk' = disk
    BY <2>3
  <2> QED BY <1>1, <2>1, <2>2, <2>3 DEF LoneNext, loneVars, agentVars
<1>2. LoneInv /\ [LoneNext]_loneVars =>
        [\A t \in Task \ unread : disk[t] # NoEntry =>
              \/ disk'[t] = NoEntry
              \/ /\ disk'[t].state = disk[t].state /\ disk'[t].large = disk[t].large
                 /\ disk[t].delivered => disk'[t].delivered
              \/ disk[t].expires <= now]_loneVars
  BY <1>1
<1> QED BY LoneInvariant, <1>2, PTL DEF LoneSpec, RecordIsStable

-----------------------------------------------------------------------------
(* Executions in detail are executions                                     *)

\* A step of the detailed agent is a step of the agent or none.
LEMMA StepIsAgentStep ==
    ASSUME [SandboxNext]_sandboxVars
    PROVE  [LoneNext]_loneVars
<1>1. CASE Elsewhere /\ UNCHANGED now
  BY <1>1 DEF Elsewhere, LoneNext, Turn, Execute
<1>2. CASE Spawn
  BY <1>2 DEF Spawn, LoneNext, Turn, Execute
<1>3. CASE RecordEnding
  <2>1. StateOf(ending) \in {"succeeded", "failed"}
    BY DEF StateOf
  <2> QED BY <1>3, <2>1 DEF RecordEnding, LoneNext, Turn, Execute
<1>4. CASE Dies
  BY <1>4 DEF Dies, LoneNext, Turn
<1>5. CASE Passes
  BY <1>5 DEF Passes, LoneNext
<1>6. CASE Prepare \/ AddWorktree \/ CannotSpawn \/ TimeOut \/ Drain \/ Remove \/ CollectOutput \/ CleanUp
  BY <1>6 DEF Prepare, AddWorktree, CannotSpawn, TimeOut, Drain, Remove, CollectOutput, CleanUp, loneVars
<1>7. CASE ProcessEnds \/ LeftoverEnds \/ \E t \in Executor : InContainer(t)
  BY <1>7 DEF ProcessEnds, LeftoverEnds, InContainer, loneVars
<1>8. CASE UNCHANGED sandboxVars
  BY <1>8 DEF sandboxVars, loneVars
<1> QED
  BY <1>1, <1>2, <1>3, <1>4, <1>5, <1>6, <1>7, <1>8 DEF SandboxNext, Execution

\* The execution of tasks in detail implements the agent whose executions are
\* single steps: preparing, waiting, collecting and cleaning up change nothing
\* that the loop or the Controller can see.
THEOREM SandboxImplementsLoneAgent == SandboxSpec => LoneSpec
<1>1. SandboxInit => LoneInit
  BY DEF SandboxInit
<1> QED BY <1>1, StepIsAgentStep, PTL DEF SandboxSpec, LoneSpec

-----------------------------------------------------------------------------
(* The inductive invariant                                                 *)

\* The work is over, one way or the other.
HasEnded == ending \in Done \cup {"broken"}

\* Which stages go with which point of the loop, and which endings with them.
StageFits ==
    /\ stage = "idle" => ending = "none" /\ ~(pc = "running" /\ JobPersistent)
    /\ held => stage = "drain"
    /\ stage # "idle" => pc \in {"exec", "running"} /\ JobPersistent
    /\ stage \in {"worktree", "spawn"} => pc = "exec" /\ JobExecutor /\ ending = "none"
    /\ stage \in {"wait", "drain", "remove", "collect"} => pc = "running"
    /\ stage = "wait" => ending = "none"
    /\ stage \in {"drain", "remove", "collect"} => HasEnded
    /\ stage \in {"remove", "collect", "cleanup"} => JobExecutor
    /\ stage \in {"cleanup", "record"} =>
          IF pc = "exec" THEN JobExecutor /\ ending \in {"refused", "broken"} ELSE HasEnded

\* The output directory is the token of an execution that cannot be repeated.
StartedOnce ==
    /\ \A t \in Executor :
          /\ starts[t] \in {0, 1}
          /\ starts[t] = 1 => t \in outputs
          /\ Recorded(t) \/ outcome[t] # "none" => starts[t] = 1
    /\ stage \in {"worktree", "spawn"} => job.task \in outputs /\ starts[job.task] = 0
    /\ pc = "running" /\ JobExecutor => starts[job.task] = 1 /\ ~Recorded(job.task)

\* NothingLeftBehind, and when the container may still run.
Residue ==
    \A t \in Executor \ marred :
        /\ t \in briefs \cup worktrees \/ Alive(t) => stage \notin {"idle", "record"} /\ job.task = t
        /\ Alive(t) => stage \in {"wait", "drain", "remove"}

\* The output directory holds what the manifest lists, none of it too large.
Tidy(t) == Present(files[t]) = manifest[t] /\ \A n \in Name : files[t][n] # "big"

\* OutputIsManifest, also between collecting and recording.
TidyAllAlong ==
    /\ \A t \in Executor \ marred : Recorded(t) => Tidy(t)
    /\ stage \in {"cleanup", "record"} /\ JobExecutor /\ ending \in Done /\ job.task \notin marred
          => Tidy(job.task)

\* Those of the files S that cannot be too large are there.
Wrote(t, S) == \A n \in S \ Bulky : files[t][n] # "absent"
Good(t) == launcher[t] = [at |-> "gone", ok |-> TRUE]

\* SuccessHasEvidence along the launcher's way and the agent's.
EvidenceAllAlong ==
    /\ \A t \in Task, n \in Name : files[t][n] = "big" => n \in Bulky
    /\ \A t \in Task : launcher[t].ok =>
          /\ launcher[t].at = "tests" => Wrote(t, {"report"})
          /\ launcher[t].at = "result" => Wrote(t, {"report", "log"})
          /\ launcher[t].at = "gone" => Wrote(t, {"report", "log", "result"})
    /\ stage # "idle" /\ JobExecutor /\ ending = "succeeded" => Good(job.task)
    /\ \A t \in Executor : outcome[t] = "succeeded" => Good(t)

\* What holds at every step of an execution in detail.
SandboxInv ==
    /\ LoneInv /\ SandboxTypeOK
    /\ StageFits /\ StartedOnce /\ Residue /\ TidyAllAlong /\ EvidenceAllAlong

\* The job is one that was dispatched, so its task tells its capability.
LEMMA JobFacts ==
    ASSUME LoneInv, job # NoJob
    PROVE  /\ job \in Dispatch /\ job.task \in Task
           /\ JobExecutor <=> job.task \in Executor
           /\ JobPersistent <=> job.capability \in {"registered", "executor"}
<1>1. job \in Dispatch /\ job \in Job
  BY DispatchAssumption DEF LoneInv, OnlyDispatched
<1>2. job.task \in Task
  BY <1>1 DEF Job
<1>3. JobExecutor => job.task \in Executor
  BY <1>1 DEF JobExecutor, Executor
<1>4. job.task \in Executor => JobExecutor
  BY <1>1, DispatchAssumption DEF JobExecutor, Executor
<1> QED BY <1>1, <1>2, <1>3, <1>4 DEF JobPersistent, Persistent

\* Executor tasks are tasks.
LEMMA ExecutorIsTask == Executor \subseteq Task
BY DispatchAssumption DEF Executor, Job

\* The first state of the sandbox.
LEMMA SandboxInvInit ==
    ASSUME SandboxInit
    PROVE  SandboxInv
<1>1. LoneInv
  BY LoneInvInit DEF SandboxInit
<1>2. SandboxTypeOK
  <2>1. launcher \in [Task -> Launcher] /\ files \in [Task -> [Name -> Size]]
    BY DEF SandboxInit, Launcher, Size
  <2>2. manifest \in [Task -> SUBSET Name]
    BY DEF SandboxInit
  <2> QED BY <1>1, <2>1, <2>2 DEF SandboxInit, SandboxTypeOK, LoneInv, Stage, EndingKind, Done
<1>3. pc = "down" /\ \A t \in Task : starts[t] = 0 /\ outcome[t] = "none" /\ ~Recorded(t)
  BY DEF SandboxInit, LoneInit, AgentInit, Recorded
<1>4. StageFits /\ StartedOnce
  BY <1>3, ExecutorIsTask DEF SandboxInit, StageFits, StartedOnce
<1>5. \A t \in Task : ~Alive(t)
  BY DEF SandboxInit, Alive
<1>6. Residue
  BY <1>5, ExecutorIsTask DEF SandboxInit, Residue
<1>7. TidyAllAlong
  BY <1>3, ExecutorIsTask DEF SandboxInit, TidyAllAlong
<1>8. EvidenceAllAlong
  BY <1>3, ExecutorIsTask DEF SandboxInit, EvidenceAllAlong
<1> QED BY <1>1, <1>2, <1>4, <1>6, <1>7, <1>8 DEF SandboxInv

-----------------------------------------------------------------------------
(* Steps of the agent that are no step of an execution                     *)

\* Outside of an execution the loop neither starts nor ends anything.
LEMMA LoopFacts ==
    ASSUME Loop
    PROVE  UNCHANGED <<starts, outcome>> /\ pc # "running" /\ pc' # "running"
<1>1. CASE Start \/ StartUnread
  BY <1>1 DEF Start, StartUnread, Stopped
<1>2. CASE \E j \in Dispatch : PollTask(j)
  BY <1>2 DEF PollTask, historyVars
<1>3. CASE \E reply \in Replies : PostMem(reply)
  BY <1>3 DEF PostMem, AfterMem, AfterPosts, Die, historyVars
<1>4. CASE \E reply \in Replies : Beat(reply) \/ PollEmpty(reply)
  BY <1>4 DEF Beat, PollEmpty, Die, historyVars
<1>5. CASE \E reply \in Replies, written \in BOOLEAN : PostKept(reply, written)
  BY <1>5 DEF PostKept, AfterPosts, Die, historyVars
<1>6. CASE \E written \in BOOLEAN : Top(written) \/ Recall(written)
  BY <1>6 DEF Top, Recall, CannotDrop, AfterMem, AfterPosts, Die, historyVars
<1> QED BY <1>1, <1>2, <1>3, <1>4, <1>5, <1>6 DEF Loop

\* What is recorded after a step was recorded before, or is being executed.
LEMMA RecordedSource ==
    ASSUME SandboxInv, [SandboxNext]_sandboxVars, NEW t \in Task, Recorded(t)'
    PROVE  Recorded(t) \/ (pc = "running" /\ JobPersistent /\ job.task = t)
<1>1. CASE Turn
  <2>1. LoopStep
    BY <1>1, TurnIsLoopStep
  <2> QED BY <2>1, RecordSource DEF SandboxInv, LoneInv, Recorded
<1>2. CASE UNCHANGED agentVars
  BY <1>2 DEF agentVars, Recorded
<1> QED BY <1>1, <1>2, StepIsAgentStep DEF LoneNext, loneVars

\* Elsewhere, nothing of an executor task changes.
LEMMA ElsewhereFacts ==
    ASSUME SandboxInv, Elsewhere, UNCHANGED now
    PROVE  /\ \A t \in Executor : /\ starts'[t] = starts[t] /\ outcome'[t] = outcome[t]
                                  /\ Recorded(t)' => Recorded(t)
           /\ pc' = "running" => ~JobPersistent'
<1>0. ~(pc = "running" /\ JobPersistent) /\ stage = "idle"
  BY DEF Elsewhere, SandboxInv, StageFits
<1>1. \A t \in Executor : Recorded(t)' => Recorded(t)
  BY <1>0, RecordedSource, ExecutorIsTask DEF SandboxNext
<1>2. starts \in [Task -> Nat] /\ outcome \in [Task -> Outcome] /\ NoJob \notin Job
      /\ (pc \in {"exec", "running"} => job # NoJob)
  BY AbsenceAssumption DEF SandboxInv, LoneInv, AgentTypeOK
<1>3. CASE Loop
  BY <1>1, <1>3, LoopFacts
<1>4. CASE Refuse
  BY <1>1, <1>4 DEF Refuse, historyVars
<1>5. CASE Launch /\ ~JobPersistent
  <2>1. job.task \notin Executor
    BY <1>2, <1>5, JobFacts DEF Launch, SandboxInv, JobExecutor
  <2> QED BY <1>1, <1>2, <1>5, <2>1, ExecutorIsTask DEF Launch, JobPersistent
<1>6. CASE \E state \in {"succeeded", "failed"} : FinishObservation(state)
  <2>1. job.task \notin Executor
    BY <1>2, <1>6, JobFacts DEF FinishObservation, SandboxInv, JobExecutor
  <2> QED BY <1>1, <1>2, <1>6, <2>1, ExecutorIsTask DEF FinishObservation
<1> QED BY <1>3, <1>4, <1>5, <1>6 DEF Elsewhere

\* The steps that the loop and the Controller cannot see.
Hidden ==
    \/ Prepare \/ AddWorktree \/ CannotSpawn \/ ProcessEnds \/ TimeOut
    \/ Drain \/ Remove \/ CollectOutput \/ CleanUp \/ LeftoverEnds \/ Passes
    \/ (\E t \in Executor : InContainer(t)) \/ UNCHANGED sandboxVars

\* They change no variable of the agent.
LEMMA HiddenFacts ==
    ASSUME Hidden
    PROVE  UNCHANGED agentVars
BY DEF Hidden, Prepare, AddWorktree, CannotSpawn, ProcessEnds, TimeOut, Drain, Remove, CollectOutput,
       CleanUp, LeftoverEnds, Passes, InContainer, sandboxVars

\* A step is hidden or one of the four that the agent takes in LoneAgent too.
LEMMA StepKinds ==
    ASSUME [SandboxNext]_sandboxVars
    PROVE  Hidden \/ (Elsewhere /\ UNCHANGED now) \/ Spawn \/ RecordEnding \/ Dies
BY DEF SandboxNext, Execution, Hidden

-----------------------------------------------------------------------------
(* Each part of the invariant is kept by each kind of step                 *)

\* The stage, the ending and the point of the loop keep fitting together.
LEMMA StageFitsStep ==
    ASSUME SandboxInv, [SandboxNext]_sandboxVars
    PROVE  StageFits'
<1> USE DEF StageFits, HasEnded, Done
<1>i. StageFits
  BY DEF SandboxInv
<1>1. CASE Hidden
  <2>0. pc' = pc /\ job' = job /\ (JobExecutor' <=> JobExecutor) /\ (JobPersistent' <=> JobPersistent)
    BY <1>1, HiddenFacts DEF agentVars, JobExecutor, JobPersistent
  <2>e. JobExecutor => JobPersistent
    BY DEF JobExecutor, JobPersistent, Persistent
  <2>1. CASE Prepare
    BY <1>i, <2>0, <2>1, <2>e DEF Prepare
  <2>2. CASE AddWorktree \/ CannotSpawn
    BY <1>i, <2>0, <2>2 DEF AddWorktree, CannotSpawn
  <2>3. CASE ProcessEnds \/ TimeOut
    BY <1>i, <2>0, <2>3 DEF ProcessEnds, TimeOut
  <2>4. CASE Drain \/ Remove \/ CollectOutput
    BY <1>i, <2>0, <2>4 DEF Drain, Remove, CollectOutput
  <2>5. CASE CleanUp
    BY <1>i, <2>0, <2>5 DEF CleanUp
  <2>6. CASE LeftoverEnds
    BY <1>i, <2>0, <2>6 DEF LeftoverEnds
  <2>7. CASE Passes \/ (\E t \in Executor : InContainer(t)) \/ UNCHANGED sandboxVars
    BY <1>i, <2>0, <2>7 DEF Passes, InContainer, sandboxVars, progressVars
  <2> QED BY <1>1, <2>1, <2>2, <2>3, <2>4, <2>5, <2>6, <2>7 DEF Hidden
<1>2. CASE Elsewhere /\ UNCHANGED now
  BY <1>i, <1>2, ElsewhereFacts DEF Elsewhere, progressVars
<1>3. CASE Spawn
  <2>1. pc' = "running" /\ job' = job /\ stage' = "wait" /\ ending' = ending /\ held' = held
    BY <1>3 DEF Spawn, Launch
  <2>2. JobPersistent
    BY <1>i, <1>3 DEF Spawn, JobPersistent, Persistent
  <2> QED BY <1>i, <1>3, <2>1, <2>2 DEF Spawn, JobPersistent
<1>4. CASE RecordEnding
  BY <1>i, <1>4 DEF RecordEnding, FinishExecution, Break, Refuse
<1>5. CASE Dies
  BY <1>5 DEF Dies, Crash, Die
<1> QED BY <1>1, <1>2, <1>3, <1>4, <1>5, StepKinds

\* An output directory is made once, and a start needs a new one.
LEMMA StartedOnceStep ==
    ASSUME SandboxInv, [SandboxNext]_sandboxVars
    PROVE  StartedOnce'
<1> USE DEF StartedOnce
<1>i. StartedOnce /\ StageFits
  BY DEF SandboxInv
<1>t. starts \in [Task -> Nat] /\ outcome \in [Task -> Outcome] /\ Executor \subseteq Task
      /\ (pc \in {"exec", "running"} => job # NoJob)
  BY ExecutorIsTask DEF SandboxInv, LoneInv, AgentTypeOK
<1>j. pc \in {"exec", "running"} => job.task \in Task /\ (JobExecutor <=> job.task \in Executor)
  BY <1>t, JobFacts DEF SandboxInv
<1>1. CASE Hidden
  <2>0. /\ pc' = pc /\ job' = job /\ starts' = starts /\ outcome' = outcome
        /\ JobExecutor' <=> JobExecutor
        /\ \A t \in Task : Recorded(t)' <=> Recorded(t)
    BY <1>1, HiddenFacts DEF agentVars, JobExecutor, Recorded
  <2>1. CASE Prepare
    BY <1>i, <1>t, <1>j, <2>0, <2>1 DEF Prepare
  <2>2. CASE ~Prepare
    <3>1. outputs' = outputs /\ (stage' \in {"worktree", "spawn"} => stage \in {"worktree", "spawn"})
      BY <1>1, <2>2 DEF Hidden, AddWorktree, CannotSpawn, ProcessEnds, TimeOut, Drain, Remove, CollectOutput,
         CleanUp, LeftoverEnds, Passes, InContainer, sandboxVars, progressVars, residueVars
    <3>2. stage' \in {"worktree", "spawn"} => job.task \in Task
      BY <1>i, <1>j, <3>1 DEF StageFits
    <3> QED BY <1>i, <1>t, <1>j, <2>0, <3>1, <3>2
  <2> QED BY <2>1, <2>2
<1>2. CASE Elsewhere /\ UNCHANGED now
  <2>1. outputs' = outputs /\ stage' = "idle"
    BY <1>2 DEF Elsewhere, progressVars, residueVars
  <2>2. pc' = "running" => ~JobExecutor'
    BY <1>2, ElsewhereFacts DEF JobExecutor, JobPersistent, Persistent
  <2>3. \A t \in Executor : /\ starts'[t] = starts[t] /\ outcome'[t] = outcome[t]
                            /\ Recorded(t)' => Recorded(t)
    BY <1>2, ElsewhereFacts
  <2> QED BY <1>i, <2>1, <2>2, <2>3
<1>3. CASE Spawn
  <2>0. /\ pc = "exec" /\ pc' = "running" /\ job' = job /\ stage' = "wait" /\ outputs' = outputs
        /\ starts' = [starts EXCEPT ![job.task] = @ + 1] /\ outcome' = outcome
        /\ JobExecutor' <=> JobExecutor
    BY <1>3 DEF Spawn, Launch, JobExecutor
  <2>1. \A t \in Task : Recorded(t)' <=> Recorded(t)
    BY <1>3 DEF Spawn, Launch, Recorded, bookVars
  <2>2. CASE stage = "spawn"
    BY <1>i, <1>t, <1>j, <2>0, <2>1, <2>2
  <2>3. CASE job.capability = "registered"
    BY <1>i, <1>t, <1>j, <2>0, <2>1, <2>3 DEF JobExecutor
  <2> QED BY <1>3, <2>2, <2>3 DEF Spawn
<1>4. CASE RecordEnding
  <2>0. starts' = starts /\ outputs' = outputs /\ stage' = "idle" /\ pc' = "top"
    BY <1>4 DEF RecordEnding, FinishExecution, Break, Refuse, residueVars, historyVars
  <2>1. pc \in {"exec", "running"}
        /\ (outcome' = outcome \/ (pc = "running" /\ \E o \in Outcome : outcome' = [outcome EXCEPT ![job.task] = o]))
    BY <1>4 DEF RecordEnding, FinishExecution, Break, Refuse, historyVars, StateOf, Outcome
  <2>2. \A t \in Executor : outcome'[t] # outcome[t] => pc = "running" /\ job.task = t
    BY <1>t, <1>j, <2>1
  <2>3. \A t \in Executor : Recorded(t)' => Recorded(t) \/ (pc = "running" /\ job.task = t)
    BY <1>t, RecordedSource
  <2> QED BY <1>i, <1>t, <1>j, <2>0, <2>2, <2>3
<1>5. CASE Dies
  <2>0. starts' = starts /\ outcome' = outcome /\ outputs' = outputs /\ stage' = "idle" /\ pc' = "down"
    BY <1>5 DEF Dies, Crash, Die, historyVars
  <2>1. \A t \in Executor : Recorded(t)' => Recorded(t)
    BY <1>t, <1>5 DEF Dies, Crash, Die, Recorded
  <2> QED BY <1>i, <1>t, <2>0, <2>1
<1> QED BY <1>1, <1>2, <1>3, <1>4, <1>5, StepKinds

\* What an executor task left on disk or running is of the current execution.
LEMMA ResidueStep ==
    ASSUME SandboxInv, [SandboxNext]_sandboxVars
    PROVE  Residue'
<1> USE DEF Residue, Alive
<1>i. Residue /\ StageFits
  BY DEF SandboxInv
<1>t. Executor \subseteq Task /\ launcher \in [Task -> Launcher]
  BY ExecutorIsTask DEF SandboxInv, SandboxTypeOK
<1>j. pc \in {"exec", "running"} => job.task \in Task /\ (JobExecutor <=> job.task \in Executor)
  BY JobFacts DEF SandboxInv, LoneInv, AgentTypeOK
<1>s. stage # "idle" => pc \in {"exec", "running"}
  BY <1>i DEF StageFits
<1> SUFFICES ASSUME NEW t \in Executor, t \notin marred'
             PROVE  /\ t \in briefs' \cup worktrees' \/ Alive(t)'
                            => stage' \notin {"idle", "record"} /\ job'.task = t
                    /\ Alive(t)' => stage' \in {"wait", "drain", "remove"}
  OBVIOUS
<1>1. CASE Hidden
  <2>0. job' = job
    BY <1>1, HiddenFacts DEF agentVars
  <2>1. CASE Prepare
    BY <1>i, <1>j, <2>0, <2>1 DEF Prepare
  <2>2. CASE AddWorktree
    BY <1>i, <2>0, <2>2 DEF AddWorktree
  <2>3. CASE CannotSpawn
    BY <1>i, <2>0, <2>3 DEF CannotSpawn, residueVars
  <2>4. CASE ProcessEnds
    BY <1>i, <2>0, <2>4 DEF ProcessEnds, residueVars
  <2>5. CASE TimeOut
    BY <1>i, <1>t, <1>j, <1>s, <2>0, <2>5 DEF TimeOut, Ended, Launcher
  <2>6. CASE Drain
    BY <1>i, <1>j, <1>s, <2>0, <2>6 DEF Drain, residueVars
  <2>7. CASE Remove
    BY <1>i, <1>t, <1>j, <1>s, <2>0, <2>7 DEF Remove, Ended
  <2>8. CASE CollectOutput
    BY <1>i, <2>0, <2>8 DEF CollectOutput
  <2>9. CASE CleanUp
    BY <1>i, <1>j, <1>s, <2>0, <2>9 DEF CleanUp
  <2>10. CASE LeftoverEnds
    BY <1>i, <2>0, <2>10 DEF LeftoverEnds, residueVars
  <2>11. CASE \E u \in Executor : InContainer(u)
    <3>1. PICK u \in Executor : InContainer(u)
      BY <2>11
    <3>2. Alive(u) /\ \A v \in Task : v # u => launcher'[v] = launcher[v]
      BY <1>t, <3>1 DEF InContainer, RunEngine, RunTests, WriteResult, LauncherFails, MovesOn, Ended
    <3>3. UNCHANGED <<stage, job, briefs, worktrees, marred>>
      BY <3>1, <2>0 DEF InContainer, progressVars
    <3> QED BY <1>i, <1>t, <3>2, <3>3
  <2>12. CASE Passes \/ UNCHANGED sandboxVars
    BY <1>i, <2>0, <2>12 DEF Passes, sandboxVars, progressVars, residueVars
  <2> QED BY <1>1, <2>1, <2>2, <2>3, <2>4, <2>5, <2>6, <2>7, <2>8, <2>9, <2>10, <2>11, <2>12 DEF Hidden
<1>2. CASE Elsewhere /\ UNCHANGED now
  BY <1>i, <1>2 DEF Elsewhere, progressVars, residueVars
<1>3. CASE Spawn
  <2>0. job' = job /\ stage' = "wait" /\ UNCHANGED <<briefs, worktrees, marred>>
    BY <1>3 DEF Spawn, Launch
  <2>1. launcher'[t] = launcher[t] \/ job.task = t
    BY <1>t, <1>3 DEF Spawn
  <2>2. stage = "idle" => launcher' = launcher
    BY <1>3 DEF Spawn
  <2> QED BY <1>i, <2>0, <2>1, <2>2
<1>4. CASE RecordEnding
  <2>1. UNCHANGED residueVars /\ stage = "record"
    BY <1>4 DEF RecordEnding
  <2> QED BY <1>i, <2>1 DEF residueVars
<1>5. CASE Dies
  <2>1. UNCHANGED <<briefs, worktrees, launcher>> /\ (stage = "idle" \/ ~JobExecutor \/ job.task # t)
        /\ t \notin marred
    BY <1>5 DEF Dies
  <2> QED BY <1>i, <1>j, <1>s, <2>1
<1> QED BY <1>1, <1>2, <1>3, <1>4, <1>5, StepKinds

-----------------------------------------------------------------------------
(* The output directory                                                    *)

\* What collecting keeps is known and within its limit, and nothing else goes.
LEMMA KeptIsTidy ==
    ASSUME NEW f \in [Name -> Size], NEW left \in Remains(f)
    PROVE  /\ Kept(f, left) \in [Name -> Size]
           /\ \A n \in Name : Kept(f, left)[n] # "big"
           /\ \A n \in Name \ {"stray"} :
                 f[n] \notin {"absent", "big"} => Kept(f, left)[n] # "absent"
           /\ Present(Kept(f, left)) \in SUBSET Name
BY DEF Kept, Remains, Size, Present, Name

\* Collecting replaces the files of the task by those that are kept.
LEMMA CollectFacts ==
    ASSUME SandboxInv, CollectOutput, job.task \in Task
    PROVE  \/ ending' = "broken" /\ UNCHANGED <<files, manifest>>
           \/ /\ \E left \in Remains(files[job.task]) :
                    files' = [files EXCEPT ![job.task] = Kept(files[job.task], left)]
              /\ manifest' = [manifest EXCEPT ![job.task] = Present(files'[job.task])]
              /\ ending' \in {ending, "broken"}
BY DEF CollectOutput

\* A launcher that moves on is alive and touches the files of its task only.
LEMMA InContainerFacts ==
    ASSUME SandboxInv, NEW u \in Executor, InContainer(u)
    PROVE  /\ Alive(u)
           /\ UNCHANGED <<stage, ending, job, manifest, marred, outcome>>
           /\ launcher' \in [Task -> Launcher] /\ files' \in [Task -> [Name -> Size]]
           /\ \A v \in Task : v # u => launcher'[v] = launcher[v] /\ files'[v] = files[v]
<1>t. u \in Task /\ launcher \in [Task -> Launcher] /\ files \in [Task -> [Name -> Size]]
  BY ExecutorIsTask DEF SandboxInv, SandboxTypeOK
<1>1. Alive(u) /\ UNCHANGED <<stage, ending, job, manifest, marred, outcome>>
  BY DEF InContainer, RunEngine, RunTests, WriteResult, LauncherFails, Alive, agentVars, progressVars
<1>2. CASE RunEngine(u)
  <2>1. PICK code \in BOOLEAN, report \in Sizes("report") \cup {"absent"}, stray \in Strays :
            /\ files' = [files EXCEPT ![u]["report"] = report, ![u]["stray"] = stray]
            /\ MovesOn(u, "tests", code)
    BY <1>2 DEF RunEngine
  <2>2. report \in Size /\ stray \in Size
    BY StraysAssumption DEF Sizes, Size
  <2> QED BY <1>t, <1>1, <2>1, <2>2 DEF MovesOn, Launcher, Name
<1>3. CASE RunTests(u)
  BY <1>t, <1>1, <1>3 DEF RunTests, Writes, MovesOn, Launcher, Name, Sizes, Size
<1>4. CASE WriteResult(u)
  BY <1>t, <1>1, <1>4 DEF WriteResult, Writes, MovesOn, Launcher, Name, Sizes, Size
<1>5. CASE LauncherFails(u)
  BY <1>t, <1>1, <1>5 DEF LauncherFails, Ended, Launcher
<1> QED BY <1>2, <1>3, <1>4, <1>5 DEF InContainer

\* What was collected stays as it is: only a running launcher writes.
LEMMA TidyAllAlongStep ==
    ASSUME SandboxInv, [SandboxNext]_sandboxVars
    PROVE  TidyAllAlong'
<1> USE DEF TidyAllAlong
<1>i. TidyAllAlong /\ Residue /\ StageFits /\ StartedOnce
  BY DEF SandboxInv
<1>t. Executor \subseteq Task /\ files \in [Task -> [Name -> Size]] /\ manifest \in [Task -> SUBSET Name]
  BY ExecutorIsTask DEF SandboxInv, SandboxTypeOK
<1>j. pc \in {"exec", "running"} => job.task \in Task /\ (JobExecutor <=> job.task \in Executor)
  BY JobFacts DEF SandboxInv, LoneInv, AgentTypeOK
<1>s. stage # "idle" => pc \in {"exec", "running"}
  BY <1>i DEF StageFits
<1>u. ASSUME NEW t \in Executor, UNCHANGED <<files, manifest>>, Tidy(t)
      PROVE  Tidy(t)'
  BY <1>u DEF Tidy, Present
<1>1. CASE Hidden
  <2>0. /\ job' = job /\ (JobExecutor' <=> JobExecutor)
        /\ \A t \in Task : Recorded(t)' <=> Recorded(t)
    BY <1>1, HiddenFacts DEF agentVars, Recorded, JobExecutor
  <2>1. CASE Prepare
    <3>1. UNCHANGED <<files, manifest, marred>> /\ ~(stage' \in {"cleanup", "record"} /\ ending' \in Done)
      BY <1>i, <2>1 DEF Prepare, StageFits, Done
    <3> QED BY <1>i, <1>t, <1>u, <2>0, <3>1
  <2>2. CASE AddWorktree \/ CannotSpawn \/ ProcessEnds \/ TimeOut
    <3>1. UNCHANGED <<files, manifest, marred>> /\ ~(stage' \in {"cleanup", "record"} /\ ending' \in Done)
      BY <2>2 DEF AddWorktree, CannotSpawn, ProcessEnds, TimeOut, residueVars, Done
    <3> QED BY <1>i, <1>t, <1>u, <2>0, <3>1
  <2>3. CASE Drain \/ Remove
    <3>1. UNCHANGED <<files, manifest>> /\ marred \subseteq marred'
          /\ ~(stage' \in {"cleanup", "record"} /\ JobExecutor /\ ending' \in Done)
      BY <2>3 DEF Drain, Remove, residueVars, Done
    <3> QED BY <1>i, <1>t, <1>u, <2>0, <3>1
  <2>4. CASE CollectOutput
    <3>1. stage = "collect" /\ job.task \in Executor /\ job.task \in Task /\ ~Recorded(job.task) /\ marred' = marred
      BY <1>i, <1>j, <2>4 DEF CollectOutput, StageFits, StartedOnce
    <3>2. CASE ending' = "broken" /\ UNCHANGED <<files, manifest>>
      BY <1>i, <1>t, <1>u, <2>0, <3>1, <3>2 DEF Done
    <3>3. ASSUME NEW left \in Remains(files[job.task]),
                 files' = [files EXCEPT ![job.task] = Kept(files[job.task], left)],
                 manifest' = [manifest EXCEPT ![job.task] = Present(files'[job.task])]
          PROVE  TidyAllAlong'
      <4>1. \A t \in Executor : t # job.task => (Tidy(t)' <=> Tidy(t))
        BY <1>t, <3>1, <3>3 DEF Tidy, Present
      <4>2. files'[job.task] = Kept(files[job.task], left)
            /\ manifest'[job.task] = Present(files'[job.task])
        BY <1>t, <3>1, <3>3
      <4>3. Tidy(job.task)'
        BY <1>t, <2>0, <3>1, <4>2, KeptIsTidy DEF Tidy, Present
      <4> QED BY <1>i, <1>t, <2>0, <3>1, <4>1, <4>3
    <3> QED BY <2>4, <3>1, <3>2, <3>3, CollectFacts
  <2>5. CASE CleanUp \/ LeftoverEnds
    <3>1. /\ UNCHANGED <<files, manifest>> /\ marred \subseteq marred'
          /\ ending' \in {ending, "broken"} /\ (stage' \in {"cleanup", "record"} => stage \in {"cleanup", "record"})
      BY <2>5 DEF CleanUp, LeftoverEnds, residueVars
    <3> QED BY <1>i, <1>t, <1>u, <1>j, <1>s, <2>0, <3>1 DEF Done
  <2>6. CASE \E u \in Executor : InContainer(u)
    <3>1. PICK u \in Executor : InContainer(u)
      BY <2>6
    <3>2. u \notin marred => ~Recorded(u) /\ ~(stage \in {"cleanup", "record"} /\ job.task = u)
      BY <1>i, <1>j, <3>1, InContainerFacts DEF Residue, StageFits, StartedOnce
    <3>3. \A t \in Executor : t # u => (Tidy(t)' <=> Tidy(t))
      BY <1>t, <3>1, InContainerFacts DEF Tidy, Present
    <3> QED BY <1>i, <1>t, <1>s, <1>j, <2>0, <3>1, <3>2, <3>3, InContainerFacts
  <2>7. CASE Passes \/ UNCHANGED sandboxVars
    BY <1>i, <1>t, <1>u, <1>j, <1>s, <2>0, <2>7 DEF Passes, sandboxVars, progressVars, residueVars
  <2> QED BY <1>1, <2>1, <2>2, <2>3, <2>4, <2>5, <2>6, <2>7 DEF Hidden
<1>2. CASE Elsewhere /\ UNCHANGED now
  <2>1. UNCHANGED residueVars /\ stage' = "idle"
    BY <1>2 DEF Elsewhere, progressVars
  <2> QED BY <1>i, <1>2, <1>u, <2>1, ElsewhereFacts DEF residueVars
<1>3. CASE Spawn
  <2>1. UNCHANGED <<files, manifest, marred>> /\ stage' = "wait"
    BY <1>3 DEF Spawn
  <2>2. \A t \in Task : Recorded(t)' <=> Recorded(t)
    BY <1>3 DEF Spawn, Launch, Recorded, bookVars
  <2> QED BY <1>i, <1>t, <1>u, <2>1, <2>2
<1>4. CASE RecordEnding
  <2>1. UNCHANGED <<files, manifest, marred>> /\ stage = "record" /\ stage' = "idle"
    BY <1>4 DEF RecordEnding, residueVars
  <2>2. \A t \in Task : Recorded(t)' => Recorded(t) \/ (pc = "running" /\ job.task = t /\ ending \in Done)
    <3>1. ending \notin Done => \A t \in Task : Recorded(t)' <=> Recorded(t)
      BY <1>4 DEF RecordEnding, Break, Refuse, bookVars, Recorded
    <3> QED BY <3>1, RecordedSource
  <2> QED BY <1>i, <1>t, <1>j, <1>u, <2>1, <2>2
<1>5. CASE Dies
  <2>1. UNCHANGED <<files, manifest>> /\ marred \subseteq marred' /\ stage' = "idle"
    BY <1>5 DEF Dies
  <2>2. \A t \in Task : Recorded(t)' => Recorded(t)
    BY <1>5 DEF Dies, Crash, Die, Recorded
  <2> QED BY <1>i, <1>t, <1>u, <2>1, <2>2
<1> QED BY <1>1, <1>2, <1>3, <1>4, <1>5, StepKinds

-----------------------------------------------------------------------------
(* The launcher and what it wrote                                          *)

\* What a launcher that is still good has written so far.
Written(t) ==
    /\ \A n \in Name : files[t][n] = "big" => n \in Bulky
    /\ launcher[t].ok =>
          /\ launcher[t].at = "tests" => Wrote(t, {"report"})
          /\ launcher[t].at = "result" => Wrote(t, {"report", "log"})
          /\ launcher[t].at = "gone" => Wrote(t, {"report", "log", "result"})

\* Each step of the launcher adds what the next one's good end presupposes.
LEMMA LauncherWrites ==
    ASSUME SandboxInv, NEW u \in Executor, InContainer(u)
    PROVE  Written(u)'
<1> USE DEF Written, Wrote
<1>i. Written(u)
  BY ExecutorIsTask DEF SandboxInv, EvidenceAllAlong
<1>t. /\ u \in Task /\ launcher \in [Task -> Launcher] /\ files \in [Task -> [Name -> Size]]
      /\ launcher[u].ok \in BOOLEAN
  BY ExecutorIsTask DEF SandboxInv, SandboxTypeOK, Launcher
<1>b. ASSUME NEW n \in Name, NEW size \in Sizes(n)
      PROVE  size # "absent" /\ (size = "big" => n \in Bulky)
  BY <1>b DEF Sizes
<1>2. CASE RunEngine(u)
  <2>1. PICK code \in BOOLEAN, report \in Sizes("report") \cup {"absent"}, stray \in Strays :
            /\ code => report # "absent"
            /\ files' = [files EXCEPT ![u]["report"] = report, ![u]["stray"] = stray]
            /\ MovesOn(u, "tests", code)
    BY <1>2 DEF RunEngine
  <2>2. /\ files'[u]["report"] = report /\ files'[u]["stray"] = stray
        /\ \A n \in Name \ {"report", "stray"} : files'[u][n] = files[u][n]
    BY <1>t, <2>1 DEF Name
  <2>3. launcher'[u].at = "tests" /\ (launcher'[u].ok => code)
    BY <1>t, <2>1 DEF MovesOn
  <2>4. "report" \in Name /\ (report = "big" => "report" \in Bulky) /\ stray # "big"
    BY <1>b, StraysAssumption DEF Name
  <2> QED BY <1>i, <2>1, <2>2, <2>3, <2>4
<1>3. CASE RunTests(u)
  <2>1. PICK passed \in BOOLEAN, log \in Sizes("log") : Writes(u, "log", log) /\ MovesOn(u, "result", passed)
    BY <1>3 DEF RunTests
  <2>2. files'[u]["log"] = log /\ \A n \in Name \ {"log"} : files'[u][n] = files[u][n]
    BY <1>t, <2>1 DEF Writes, Name
  <2>3. launcher'[u].at = "result" /\ (launcher'[u].ok => launcher[u].ok) /\ launcher[u].at = "tests"
    BY <1>t, <1>3, <2>1 DEF MovesOn, RunTests
  <2>4. "log" \in Name /\ "report" \in Name /\ log # "absent" /\ (log = "big" => "log" \in Bulky)
    BY <1>b DEF Name
  <2> QED BY <1>i, <2>2, <2>3, <2>4
<1>4. CASE WriteResult(u)
  <2>1. PICK size \in Sizes("result") : Writes(u, "result", size)
    BY <1>4 DEF WriteResult
  <2>2. files'[u]["result"] = size /\ \A n \in Name \ {"result"} : files'[u][n] = files[u][n]
    BY <1>t, <2>1 DEF Writes, Name
  <2>3. launcher'[u].at = "gone" /\ (launcher'[u].ok => launcher[u].ok) /\ launcher[u].at = "result"
    BY <1>t, <1>4 DEF MovesOn, WriteResult
  <2>4. /\ "log" \in Name /\ "report" \in Name /\ "result" \in Name
        /\ size # "absent" /\ (size = "big" => "result" \in Bulky)
    BY <1>b DEF Name
  <2> QED BY <1>i, <2>2, <2>3, <2>4
<1>5. CASE LauncherFails(u)
  <2>1. files' = files /\ launcher'[u].ok = FALSE
    BY <1>t, <1>5 DEF LauncherFails, Ended
  <2> QED BY <1>i, <2>1
<1> QED BY <1>2, <1>3, <1>4, <1>5 DEF InContainer

\* A launcher that was stopped is not good, and one that is gone stays as it is.
LEMMA EndedFacts ==
    ASSUME SandboxInv, NEW u \in Task, launcher' \in {launcher, Ended(u)}, UNCHANGED files
    PROVE  \A t \in Task : Written(t)' /\ (Good(t) => Good(t)')
<1>t. launcher \in [Task -> Launcher] /\ \A t \in Task : Written(t)
  BY DEF SandboxInv, SandboxTypeOK, EvidenceAllAlong, Written
<1>1. CASE launcher' = launcher
  BY <1>t, <1>1 DEF Written, Wrote, Good
<1>2. CASE launcher' = Ended(u) /\ Alive(u)
  <2>1. launcher'[u] = [at |-> "gone", ok |-> FALSE] /\ \A t \in Task \ {u} : launcher'[t] = launcher[t]
    BY <1>t, <1>2 DEF Ended
  <2>2. ~Good(u)
    BY <1>2 DEF Alive, Good
  <2>3. \A t \in Task \ {u} : Written(t)' /\ (Good(t) => Good(t)')
    BY <1>t, <2>1 DEF Written, Wrote, Good
  <2>4. Written(u)'
    BY <1>t, <2>1 DEF Written, Wrote
  <2> QED BY <2>2, <2>3, <2>4
<1> QED BY <1>1, <1>2 DEF Ended

\* Success is of a launcher that came to a good end, and its files stay.
LEMMA EvidenceStep ==
    ASSUME SandboxInv, [SandboxNext]_sandboxVars
    PROVE  EvidenceAllAlong'
<1>i. EvidenceAllAlong /\ Residue /\ StageFits /\ StartedOnce
  BY DEF SandboxInv
<1>t. /\ Executor \subseteq Task /\ files \in [Task -> [Name -> Size]]
      /\ launcher \in [Task -> Launcher] /\ outcome \in [Task -> Outcome]
  BY ExecutorIsTask DEF SandboxInv, SandboxTypeOK, LoneInv, AgentTypeOK
<1>j. pc \in {"exec", "running"} => job.task \in Task /\ (JobExecutor <=> job.task \in Executor)
  BY JobFacts DEF SandboxInv, LoneInv, AgentTypeOK
<1>s. stage # "idle" => pc \in {"exec", "running"}
  BY <1>i DEF StageFits
<1>e. \A t \in Task : Written(t)
  BY <1>i DEF EvidenceAllAlong, Written
<1>c. stage # "idle" /\ JobExecutor /\ ending = "succeeded" => Good(job.task)
  BY <1>i DEF EvidenceAllAlong
<1>d. \A t \in Executor : outcome[t] = "succeeded" => Good(t)
  BY <1>i DEF EvidenceAllAlong
<1> SUFFICES /\ \A t \in Task : Written(t)'
             /\ (stage # "idle" /\ JobExecutor /\ ending = "succeeded")' => Good(job.task)'
             /\ \A t \in Executor : outcome'[t] = "succeeded" => Good(t)'
  BY DEF EvidenceAllAlong, Written
<1>u. ASSUME UNCHANGED <<launcher, files>>
      PROVE  \A t \in Task : Written(t)' /\ (Good(t)' <=> Good(t))
  BY <1>u, <1>e DEF Written, Wrote, Good
<1>1. CASE Hidden
  <2>0. job' = job /\ outcome' = outcome /\ (JobExecutor' <=> JobExecutor)
    BY <1>1, HiddenFacts DEF agentVars, JobExecutor
  <2>1. CASE Prepare \/ AddWorktree \/ CannotSpawn
    <3>1. UNCHANGED <<launcher, files>> /\ ending' # "succeeded"
      BY <1>i, <2>1 DEF Prepare, AddWorktree, CannotSpawn, residueVars, StageFits
    <3> QED BY <1>t, <1>u, <1>d, <2>0, <3>1
  <2>2. CASE ProcessEnds
    <3>1. UNCHANGED <<launcher, files>> /\ stage # "idle"
          /\ (ending' = "succeeded" /\ JobExecutor => Good(job.task))
      BY <2>2 DEF ProcessEnds, residueVars, Good
    <3> QED BY <1>t, <1>j, <1>s, <1>u, <1>d, <2>0, <3>1 DEF Good
  <2>3. CASE TimeOut
    <3>1. launcher' \in {launcher, Ended(job.task)} /\ UNCHANGED files /\ ending' # "succeeded" /\ stage # "idle"
      BY <2>3 DEF TimeOut
    <3> QED BY <1>t, <1>j, <1>s, <1>d, <2>0, <3>1, EndedFacts
  <2>4. CASE Drain
    <3>1. UNCHANGED <<launcher, files, ending>> /\ stage # "idle"
      BY <2>4 DEF Drain, residueVars
    <3> QED BY <1>t, <1>j, <1>s, <1>u, <1>c, <1>d, <2>0, <3>1 DEF Good
  <2>5. CASE Remove
    <3>1. launcher' \in {launcher, Ended(job.task)} /\ UNCHANGED files /\ stage # "idle" /\ ending' \in {ending, "broken"}
      BY <2>5 DEF Remove
    <3>2. \A t \in Task : Written(t)' /\ (Good(t) => Good(t)')
      BY <1>j, <1>s, <3>1, EndedFacts
    <3> QED BY <1>t, <1>j, <1>s, <1>c, <1>d, <2>0, <3>1, <3>2 DEF Good
  <2>6. CASE CollectOutput
    <3>0. launcher' = launcher /\ stage # "idle" /\ job.task \in Task
      BY <1>j, <1>s, <2>6 DEF CollectOutput
    <3>1. ending' \in {ending, "broken"}
      BY <2>6, <3>0, CollectFacts
    <3>2. \A t \in Task : Good(t)' <=> Good(t)
      BY <3>0 DEF Good
    <3>3. \A t \in Task :
              \/ files'[t] = files[t]
              \/ \E left \in Remains(files[t]) : files'[t] = Kept(files[t], left)
      BY <1>t, <3>0, <2>6, CollectFacts
    <3>4. ASSUME NEW t \in Task
          PROVE  Written(t)'
      <4>1. CASE files'[t] = files[t]
        BY <1>e, <3>0, <4>1 DEF Written, Wrote
      <4>2. ASSUME NEW left \in Remains(files[t]), files'[t] = Kept(files[t], left)
            PROVE  Written(t)'
        <5>1. \A n \in Name : files'[t][n] # "big"
          BY <1>t, <4>2, KeptIsTidy
        <5>2. \A n \in Name \ {"stray"} : n \notin Bulky /\ files[t][n] # "absent" => files'[t][n] # "absent"
          BY <1>t, <1>e, <4>2, KeptIsTidy DEF Written, Size
        <5> QED BY <1>e, <3>0, <5>1, <5>2 DEF Written, Wrote, Name
      <4> QED BY <3>3, <4>1, <4>2
    <3> QED BY <1>t, <1>c, <1>d, <2>0, <3>0, <3>1, <3>2, <3>4 DEF Good
  <2>7. CASE CleanUp \/ LeftoverEnds
    <3>1. UNCHANGED <<launcher, files>> /\ ending' \in {ending, "broken"} /\ stage # "idle"
      BY <1>i, <2>7 DEF CleanUp, LeftoverEnds, residueVars, StageFits
    <3> QED BY <1>t, <1>j, <1>s, <1>u, <1>c, <1>d, <2>0, <3>1 DEF Good
  <2>8. CASE \E u \in Executor : InContainer(u)
    <3>1. PICK u \in Executor : InContainer(u)
      BY <2>8
    <3>2. ASSUME NEW t \in Task \ {u}
          PROVE  Written(t)' /\ (Good(t)' <=> Good(t))
      <4>1. launcher'[t] = launcher[t] /\ files'[t] = files[t]
        BY <3>1, InContainerFacts
      <4> QED BY <1>e, <4>1 DEF Written, Wrote, Good
    <3>3. ~Good(u) /\ UNCHANGED <<stage, ending>>
      BY <3>1, InContainerFacts DEF Alive, Good
    <3>4. Written(u)'
      BY <3>1, LauncherWrites
    <3> QED BY <1>t, <1>j, <1>s, <1>c, <1>d, <2>0, <3>2, <3>3, <3>4 DEF Good
  <2>9. CASE Passes \/ UNCHANGED sandboxVars
    <3>1. UNCHANGED <<launcher, files, ending, stage>>
      BY <2>9 DEF Passes, sandboxVars, progressVars, residueVars
    <3> QED BY <1>t, <1>j, <1>s, <1>u, <1>c, <1>d, <2>0, <3>1 DEF Good
  <2> QED BY <1>1, <2>1, <2>2, <2>3, <2>4, <2>5, <2>6, <2>7, <2>8, <2>9 DEF Hidden
<1>2. CASE Elsewhere /\ UNCHANGED now
  <2>1. UNCHANGED <<launcher, files>> /\ stage' = "idle"
    BY <1>2 DEF Elsewhere, progressVars, residueVars
  <2> QED BY <1>t, <1>u, <1>d, <1>2, <2>1, ElsewhereFacts
<1>3. CASE Spawn
  <2>0. pc = "exec" /\ files' = files /\ outcome' = outcome /\ ending' = ending /\ ending = "none"
    BY <1>i, <1>3 DEF Spawn, Launch, StageFits
  <2>1. CASE launcher' = launcher
    BY <1>t, <1>u, <1>d, <2>0, <2>1
  <2>2. CASE stage = "spawn" /\ launcher' = [launcher EXCEPT ![job.task] = [at |-> "engine", ok |-> TRUE]]
    <3>1. job.task \in Executor /\ job.task \in Task /\ outcome[job.task] = "none"
      BY <1>i, <1>t, <1>j, <2>2, <2>0 DEF StageFits, StartedOnce
    <3>2. launcher'[job.task].at = "engine" /\ \A t \in Task \ {job.task} : launcher'[t] = launcher[t]
      BY <1>t, <2>2, <3>1
    <3>3. \A t \in Task : Written(t)'
      BY <1>e, <2>0, <3>2 DEF Written, Wrote
    <3>4. \A t \in Task \ {job.task} : Good(t)' <=> Good(t)
      BY <3>2 DEF Good
    <3> QED BY <1>t, <1>d, <2>0, <3>1, <3>3, <3>4
  <2> QED BY <1>3, <2>1, <2>2 DEF Spawn
<1>4. CASE RecordEnding
  <2>1. UNCHANGED <<launcher, files>> /\ stage' = "idle" /\ stage # "idle"
    BY <1>4 DEF RecordEnding, residueVars
  <2>2. \/ outcome' = outcome
        \/ outcome' = [outcome EXCEPT ![job.task] = StateOf(ending)]
        \/ outcome' = [outcome EXCEPT ![job.task] = "failed"]
    BY <1>4 DEF RecordEnding, FinishExecution, Break, Refuse, historyVars
  <2>3. StateOf(ending) = "succeeded" => ending = "succeeded"
    BY DEF StateOf
  <2> QED BY <1>t, <1>j, <1>s, <1>u, <1>c, <1>d, <2>1, <2>2, <2>3
<1>5. CASE Dies
  BY <1>t, <1>u, <1>d, <1>5 DEF Dies, Crash, historyVars
<1> QED BY <1>1, <1>2, <1>3, <1>4, <1>5, StepKinds

-----------------------------------------------------------------------------
(* Types                                                                   *)

\* The variables of the sandbox stay well typed.
LEMMA SandboxTypeStep ==
    ASSUME SandboxInv, [SandboxNext]_sandboxVars, AgentTypeOK'
    PROVE  SandboxTypeOK'
<1> USE DEF SandboxTypeOK
<1>i. SandboxTypeOK /\ StageFits /\ StartedOnce
  BY DEF SandboxInv
<1>j. pc \in {"exec", "running"} =>
          job.task \in Task /\ (JobExecutor => job.task \in Executor /\ job.task \in Task)
  BY JobFacts DEF SandboxInv, LoneInv, AgentTypeOK
<1>s. stage # "idle" => pc \in {"exec", "running"}
  BY <1>i DEF StageFits
<1>k. \A e \in Done \cup {"broken", "refused", "none"} : e \in EndingKind
  BY DEF EndingKind
<1>e. job.task \in Task => Ended(job.task) \in [Task -> Launcher]
  BY <1>i DEF Ended, Launcher
<1>1. CASE Prepare
  BY <1>i, <1>j, <1>k, <1>1 DEF Prepare, Stage
<1>2. CASE AddWorktree \/ CannotSpawn
  BY <1>i, <1>j, <1>s, <1>k, <1>2 DEF AddWorktree, CannotSpawn, Stage, residueVars, StartedOnce
<1>3. CASE ProcessEnds \/ TimeOut
  BY <1>i, <1>j, <1>s, <1>k, <1>e, <1>3 DEF ProcessEnds, TimeOut, Stage, residueVars, Done
<1>4. CASE Drain
  BY <1>i, <1>4 DEF Drain, Stage, residueVars
<1>5. CASE Remove
  <2>1. job.task \in Executor /\ job.task \in Task
    BY <1>i, <1>j, <1>5 DEF Remove, StageFits
  <2> QED BY <1>i, <1>k, <1>e, <1>5, <2>1 DEF Remove, Stage
<1>6. CASE CollectOutput
  <2>1. job.task \in Task
    BY <1>j, <1>s, <1>6 DEF CollectOutput
  <2>2. files' \in [Task -> [Name -> Size]] /\ manifest' \in [Task -> SUBSET Name]
    BY <1>i, <1>6, <2>1, CollectFacts, KeptIsTidy
  <2> QED BY <1>i, <1>k, <1>6, <2>1, <2>2, CollectFacts DEF CollectOutput, Stage
<1>7. CASE CleanUp
  <2>1. job.task \in Executor
    BY <1>i, <1>j, <1>s, <1>7 DEF CleanUp, StageFits
  <2> QED BY <1>i, <1>k, <1>7, <2>1 DEF CleanUp, Stage
<1>8. CASE LeftoverEnds
  BY <1>i, <1>k, <1>8 DEF LeftoverEnds, residueVars
<1>9. CASE \E t \in Executor : InContainer(t)
  <2>1. PICK t \in Executor : InContainer(t)
    BY <1>9
  <2>2. UNCHANGED <<held, briefs, worktrees, outputs>>
    BY <2>1 DEF InContainer, progressVars
  <2> QED BY <1>i, <2>1, <2>2, InContainerFacts
<1>10. CASE (Elsewhere /\ UNCHANGED now) \/ Passes \/ UNCHANGED sandboxVars
  BY <1>i, <1>10 DEF Elsewhere, Passes, sandboxVars, progressVars, residueVars
<1>11. CASE Spawn
  <2>1. pc = "exec"
    BY <1>11 DEF Spawn, Launch
  <2>2. [at |-> "engine", ok |-> TRUE] \in Launcher
    BY DEF Launcher
  <2>3. launcher' \in [Task -> Launcher]
    BY <1>i, <1>j, <1>11, <2>1, <2>2 DEF Spawn
  <2> QED BY <1>i, <1>11, <2>3 DEF Spawn, Stage
<1>12. CASE RecordEnding
  BY <1>i, <1>k, <1>12 DEF RecordEnding, Stage, residueVars
<1>13. CASE Dies
  BY <1>i, <1>j, <1>s, <1>k, <1>13 DEF Dies, Stage
<1> QED
  BY <1>1, <1>2, <1>3, <1>4, <1>5, <1>6, <1>7, <1>8, <1>9, <1>10, <1>11, <1>12, <1>13
     DEF SandboxNext, Execution

-----------------------------------------------------------------------------
(* The theorems                                                            *)

\* No step of an execution in detail breaks the invariant.
LEMMA SandboxInvStep ==
    ASSUME SandboxInv, [SandboxNext]_sandboxVars
    PROVE  SandboxInv'
<1>1. LoneInv'
  BY StepIsAgentStep, LoneInvStep DEF SandboxInv
<1>2. SandboxTypeOK'
  BY <1>1, SandboxTypeStep DEF LoneInv
<1> QED
  BY <1>1, <1>2, StageFitsStep, StartedOnceStep, ResidueStep, TidyAllAlongStep, EvidenceStep DEF SandboxInv

\* The inductive invariant of executions in detail.
THEOREM SandboxInvariant == SandboxSpec => []SandboxInv
BY SandboxInvInit, SandboxInvStep, PTL DEF SandboxSpec

\* The agent's variables and what executions leave behind stay well typed:
\* there is a brief or a worktree only where there is an output directory.
THEOREM SandboxTypeCorrect == SandboxSpec => []SandboxTypeOK
<1>1. SandboxInv => SandboxTypeOK
  BY DEF SandboxInv
<1> QED BY SandboxInvariant, <1>1, PTL

\* An executor task is started at most once, whatever the Controller hands
\* out again and wherever the agent crashed.
THEOREM ExecutorIsStartedOnce == SandboxSpec => []ExecutorStartsOnce
<1>1. SandboxInv => ExecutorStartsOnce
  BY DEF SandboxInv, StartedOnce, ExecutorStartsOnce
<1> QED BY SandboxInvariant, <1>1, PTL

\* No brief, worktree or running container outlives its execution, unless the
\* agent died in it or the clean-up was cut short.
THEOREM NothingIsLeftBehind == SandboxSpec => []NothingLeftBehind
<1>1. SandboxInv => NothingLeftBehind
  BY DEF SandboxInv, Residue, NothingLeftBehind
<1> QED BY SandboxInvariant, <1>1, PTL

\* While an execution is on record, the files in its directory are those that
\* its manifest lists, and none is over its limit; a directory that could not
\* be emptied may lie beside them.
THEOREM OutputsAreManifests == SandboxSpec => []OutputIsManifest
<1>1. SandboxInv => OutputIsManifest
  BY DEF SandboxInv, TidyAllAlong, Tidy, OutputIsManifest
<1> QED BY SandboxInvariant, <1>1, PTL

\* Success means an engine and tests that came to a good end, and their files.
THEOREM SuccessIsEvident == SandboxSpec => []SuccessHasEvidence
<1>1. SandboxInv => SuccessHasEvidence
  <2> SUFFICES ASSUME SandboxInv, NEW t \in Executor, outcome[t] = "succeeded"
               PROVE  Evident(t)
    BY DEF SuccessHasEvidence
  <2>1. Good(t)
    BY DEF SandboxInv, EvidenceAllAlong
  <2>2. launcher[t].ok /\ launcher[t].at = "gone"
    BY <2>1 DEF Good
  <2>3. Wrote(t, {"report", "log", "result"})
    BY <2>2, ExecutorIsTask DEF SandboxInv, EvidenceAllAlong
  <2> QED BY <2>1, <2>3 DEF Evident, Good, Wrote
<1> QED BY SandboxInvariant, <1>1, PTL

\* What holds of the agent against any Controller holds of the agent with its
\* executions in detail: one report owed at most, recorded tasks not run again
\* and records stable, as far as the file of records could be read.
THEOREM SandboxKeepsAgentPromises ==
    SandboxSpec => []OwesAtMostOne /\ RecordedIsNotRerun /\ RecordIsStable
BY SandboxImplementsLoneAgent, AgentOwesAtMostOne, AgentDoesNotRerun, AgentRecordsAreStable, PTL

-----------------------------------------------------------------------------
(* Every execution ends                                                    *)

\* The order in which an execution goes through its stages.
Rank == [s \in Stage |->
    CASE s = "idle" -> 0 [] s = "worktree" -> 1 [] s = "spawn" -> 2 [] s = "wait" -> 3
      [] s = "drain" -> 4 [] s = "remove" -> 5 [] s = "collect" -> 6 [] s = "cleanup" -> 7
      [] s = "record" -> 8]

\* An execution is under way and has come to the k-th stage.
Past(k) == stage # "idle" /\ Rank[stage] >= k

\* No step takes an execution back, and each of the agent's own takes it on.
LEMMA StagesAdvance ==
    ASSUME SandboxInv, [SandboxNext]_sandboxVars, stage # "idle", stage' # "idle"
    PROVE  /\ Rank[stage'] >= Rank[stage]
           /\ Execution => Rank[stage'] > Rank[stage]
           /\ ~held /\ Rank[stage] >= 4 => ~held'
<1> USE DEF Rank, Stage
<1>t. stage \in Stage /\ StageFits
  BY DEF SandboxInv, SandboxTypeOK
<1>1. CASE AddWorktree \/ Spawn \/ CannotSpawn \/ TimeOut
  BY <1>1 DEF AddWorktree, Spawn, CannotSpawn, TimeOut
<1>2. CASE Drain \/ Remove \/ CollectOutput \/ CleanUp \/ RecordEnding
  BY <1>2 DEF Drain, Remove, CollectOutput, CleanUp, RecordEnding
<1>3. CASE ~Execution
  <2>1. ~(Elsewhere /\ UNCHANGED now) /\ ~Prepare /\ ~Dies
    BY DEF Elsewhere, Prepare, Dies
  <2>2. CASE ProcessEnds
    BY <1>3, <2>2 DEF ProcessEnds
  <2>3. CASE LeftoverEnds \/ Passes
    BY <1>3, <1>t, <2>3 DEF LeftoverEnds, Passes, progressVars
  <2>4. CASE \E t \in Executor : InContainer(t)
    BY <1>3, <1>t, <2>4 DEF InContainer, progressVars
  <2>5. CASE UNCHANGED sandboxVars
    BY <1>3, <1>t, <2>5 DEF sandboxVars, progressVars
  <2> QED BY <1>3, <2>1, <2>2, <2>3, <2>4, <2>5 DEF SandboxNext
<1> QED BY <1>1, <1>2, <1>3 DEF Execution

\* Nothing holds an execution up before it is past the k-th stage.
Clear(k) == k = 4 => ~held

GetsPast(k) == FairSandboxSpec /\ []NeverStuck /\ <>[](Past(k) /\ Clear(k)) => <>[]Past(k + 1)

\* An execution that does not end gets past every stage, past draining unless
\* a process left behind holds it up there.
LEMMA StageIsPassed ==
    ASSUME NEW k \in 1 .. 8
    PROVE  GetsPast(k)
<1>0. \A s \in Stage : Rank[s] \in Nat
  BY DEF Rank, Stage
<1>1. SandboxInv /\ SandboxInv' /\ [SandboxNext]_sandboxVars /\ Past(k) /\ Past(k)'
      => (<<Execution>>_sandboxVars \/ Past(k + 1) => Past(k + 1)')
  <2> SUFFICES ASSUME SandboxInv, SandboxInv', [SandboxNext]_sandboxVars, Past(k), Past(k)',
                      Execution \/ Past(k + 1)
               PROVE  Past(k + 1)'
    OBVIOUS
  <2>1. stage \in Stage /\ stage' \in Stage
    BY DEF SandboxInv, SandboxTypeOK
  <2> QED BY <1>0, <2>1, StagesAdvance DEF Past
<1>2. SandboxInv /\ NeverStuck /\ Past(k) /\ ~Past(k + 1) /\ Clear(k)
      => ENABLED <<Execution>>_sandboxVars
  <2>1. SandboxInv /\ Past(k) /\ ~Past(k + 1) /\ k # 4 => ~held
    BY DEF SandboxInv, SandboxTypeOK, StageFits, Past, Rank, Stage
  <2> QED BY <2>1 DEF NeverStuck, Past, Clear
<1> QED BY <1>1, <1>2, SandboxInvariant, PTL DEF GetsPast, FairSandboxSpec, SandboxSpec

\* Before it drains, nothing can hold an execution up; while it drains, a
\* process left behind may; and once none does, none will.
LEMMA LeftoverOnlyDrains ==
    FairSandboxSpec /\ []NeverStuck /\ <>[](Past(4))
        => <>[](stage = "drain" /\ held) \/ <>[](Past(4) /\ ~held)
<1>1. SandboxInv /\ held => stage = "drain"
  BY DEF SandboxInv, StageFits
<1>2. SandboxInv /\ [SandboxNext]_sandboxVars /\ Past(4) /\ Past(4)' /\ ~held => ~held'
  BY StagesAdvance DEF Past
<1> QED BY <1>1, <1>2, SandboxInvariant, PTL DEF FairSandboxSpec, SandboxSpec

\* Every execution ends, whatever the launcher, the tools and the Controller
\* do, unless a process it left behind keeps its output pipes open for ever.
\* That the agent can always take its next step (NeverStuck) is a hypothesis:
\* it is a statement about ENABLED.
THEOREM ExecutionsEnd == FairSandboxSpec /\ []NeverStuck => OnlyALeftoverBlocks
<1>1. SandboxInv /\ ~(stage = "idle") => Past(1)
  BY DEF SandboxInv, SandboxTypeOK, Past, Rank, Stage
<1>2. GetsPast(1) /\ GetsPast(2) /\ GetsPast(3) /\ GetsPast(4)
      /\ GetsPast(5) /\ GetsPast(6) /\ GetsPast(7) /\ GetsPast(8)
  BY StageIsPassed
<1>3. /\ Past(1 + 1) <=> Past(2)
      /\ Past(2 + 1) <=> Past(3)
      /\ Past(3 + 1) <=> Past(4)
      /\ Past(4 + 1) <=> Past(5)
      /\ Past(5 + 1) <=> Past(6)
      /\ Past(6 + 1) <=> Past(7)
      /\ Past(7 + 1) <=> Past(8)
      /\ Past(8 + 1) <=> Past(9)
  OBVIOUS
<1>4. /\ Clear(1) /\ Clear(2) /\ Clear(3) /\ Clear(5) /\ Clear(6) /\ Clear(7) /\ Clear(8)
      /\ ~held => Clear(4)
  BY DEF Clear
<1>5. SandboxInv => ~Past(9)
  BY DEF SandboxInv, SandboxTypeOK, Past, Rank, Stage
<1> QED
  BY <1>1, <1>2, <1>3, <1>4, <1>5, LeftoverOnlyDrains, SandboxInvariant, PTL
  DEF OnlyALeftoverBlocks, FairSandboxSpec, GetsPast
=============================================================================
