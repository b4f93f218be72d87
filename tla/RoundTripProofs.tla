--------------------------- MODULE RoundTripProofs ---------------------------
(***************************************************************************)
(* Proofs about the whole way from a tool call to the container and back:  *)
(* the invariants of the parts, proved in their own modules for any        *)
(* surroundings, meet here in the variables that the parts share.          *)
(***************************************************************************)
EXTENDS RoundTrip, SandboxProofs, ExecutorRoundProofs

-----------------------------------------------------------------------------
(* The agent of the relay is the agent of LoneAgent                        *)

\* Whatever its loop does but take a task, LoneAgent allows it.
LEMMA LoopOfLone ==
    ASSUME LoopStep, ~\E j \in Job : PollTask(j)
    PROVE  Turn \/ UNCHANGED agentVars
BY DEF LoopStep, Answer, Ending, Replies, Turn, Loop, Execute

\* A task polled from the store is one that was dispatched and not started.
LEMMA PolledOfLone ==
    ASSUME RelayInv, Polling, Dispatched, MaxStarts > 1
    PROVE  Turn
<1>1. PICK t \in Task :
        /\ NextTask(Self, t)
        /\ PollTask([task |-> t, capability |-> request[t].capability])
  BY DEF Polling
<1>2. status[t] = "QUEUED"
  BY <1>1 DEF NextTask, QueuedFor
<1>3. [task |-> t, capability |-> request[t].capability] \in Dispatch
  BY <1>2 DEF Dispatched
<1>4. InBounds(t)
  <2>1. starts[t] = 0 /\ \A u \in Task : starts[u] \in Nat /\ starts[u] <= 1
    BY <1>2 DEF RelayInv, Base, AgentTypeOK, WorkedInTurn, AtMostOnce
  <2> QED BY <2>1, MaxStartsAssumption DEF InBounds
<1> QED
  BY <1>1, <1>3, <1>4 DEF Turn, Loop

\* The agent that serves this Controller is LoneAgent, which serves any: for
\* tasks that are dispatched as they were requested, the Controller never has
\* an agent do what LoneAgent would not.
THEOREM RelayImplementsLoneAgent ==
    ASSUME MaxStarts > 1
    PROVE  RelaySpec /\ []Dispatched => LoneSpec
<1>1. RelayInit => LoneInit
  BY DEF RelayInit, Init, LoneInit
<1>2. ASSUME RelayInv, Dispatched, [RelayNext]_relayVars
      PROVE  [LoneNext]_loneVars
  <2> USE DEF LoneNext, loneVars
  <2>1. Shape
    BY <1>2, BaseStep DEF RelayInv
  <2>2. CASE Tick /\ UNCHANGED agentVars
    BY <2>2
  <2>3. CASE Polling
    <3>1. Turn
      BY <1>2, <2>3, PolledOfLone
    <3> QED BY <2>3, <3>1 DEF Polling
  <2>4. CASE LoopStep /\ now' = now /\ ~\E j \in Job : PollTask(j)
    BY <2>4, LoopOfLone
  <2>5. ASSUME ~Polling, NEW j \in Job, PollTask(j)
        PROVE  FALSE
    <3>1. job = NoJob /\ job' = j
      BY <1>2, <2>5 DEF RelayInv, Base, AgentTypeOK, PollTask
    <3>2. j # NoJob
      BY AbsenceAssumption
    <3> QED BY <2>1, <2>5, <3>1, <3>2, JobOfShape
  <2> QED BY <2>1, <2>2, <2>3, <2>4, <2>5, ShapeOfAgent
<1> QED
  BY <1>1, <1>2, RelayInvariant, PTL DEF RelaySpec, LoneSpec

\* The capability of a task is settled when it is queued: no replay, report,
\* read or restart changes it, so that some Dispatch suits every behaviour.
Settled(t, c) == status[t] # "ABSENT" => request[t].capability = c
IsSettled(t, c) == []Settled(t, c)

THEOREM CapabilitiesAreSettled ==
    ASSUME NEW t \in Task
    PROVE  RelaySpec => \E c \in Capability : IsSettled(t, c)
<1> DEFINE queued == status[t] # "ABSENT"
           has(c) == queued /\ request[t].capability = c
<1>1. RelayInit => ~queued
  BY DEF RelayInit, Init
<1>2. ASSUME Base, [RelayNext]_relayVars
      PROVE  /\ has("observation") => has("observation")'
             /\ has("registered") => has("registered")'
             /\ has("executor") => has("executor")'
  <2>1. Stays(t) \/ IsQueued(t) \/ IsHandedOut(t) \/ IsReported(t) \/ IsGivenUp(t)
    BY <1>2, BaseStep, ShapeOfStore, StepOfTask DEF Base
  <2>2. queued => queued' /\ request'[t] = request[t]
    BY <2>1 DEF Stays, IsQueued, IsHandedOut, IsReported, IsGivenUp, RowKept, Verdict, GivenUpAs
  <2> QED BY <2>2
<1>3. Base /\ queued => has("observation") \/ has("registered") \/ has("executor")
  BY SubmissionAssumption DEF Base, TypeOK, Request, Capability, Persistent, Observation
<1>4. /\ (~queued \/ has("observation")) => Settled(t, "observation")
      /\ (~queued \/ has("registered")) => Settled(t, "registered")
      /\ (~queued \/ has("executor")) => Settled(t, "executor")
  BY DEF Settled
<1>5. RelaySpec => \/ IsSettled(t, "observation") \/ IsSettled(t, "registered")
                   \/ IsSettled(t, "executor")
  <2> HIDE DEF has, queued
  <2> QED BY <1>1, <1>2, <1>3, <1>4, BaseInvariant, PTL DEF RelaySpec, IsSettled
<1> QED
  BY <1>5 DEF Capability, Persistent, Observation

-----------------------------------------------------------------------------
(* What links the parts                                                    *)

\* Only an executor task ever has a container that runs.
OnlyExecutorsRun == \A t \in Task : Alive(t) => t \in Executor

LEMMA ContainersStep ==
    ASSUME SandboxInv, OnlyExecutorsRun, [SandboxNext]_sandboxVars
    PROVE  OnlyExecutorsRun'
<1>t. launcher \in [Task -> Launcher]
  BY DEF SandboxInv, SandboxTypeOK
<1>1. CASE UNCHANGED launcher
  BY <1>1 DEF OnlyExecutorsRun, Alive
<1>2. CASE Spawn /\ stage = "spawn"
  <2>1. job # NoJob /\ JobExecutor
    BY <1>2 DEF SandboxInv, SandboxTypeOK, StageFits, AgentTypeOK
  <2>2. job.task \in Executor
    BY <2>1, JobFacts DEF SandboxInv
  <2>3. \A t \in Task : t # job.task => launcher'[t] = launcher[t]
    BY <1>t, <1>2 DEF Spawn
  <2> QED BY <2>2, <2>3 DEF OnlyExecutorsRun, Alive
<1>3. CASE launcher' = Ended(job.task)
  <2>1. \A t \in Task : launcher'[t] = launcher[t] \/ launcher'[t].at = "gone"
    BY <1>t, <1>3 DEF Ended
  <2> QED BY <2>1 DEF OnlyExecutorsRun, Alive
<1>4. ASSUME NEW u \in Executor, InContainer(u)
      PROVE  OnlyExecutorsRun'
  <2>1. \A v \in Task : v # u => launcher'[v] = launcher[v]
    BY <1>4, InContainerFacts
  <2> QED BY <1>4, <2>1 DEF OnlyExecutorsRun, Alive
<1>5. CASE Spawn /\ stage # "spawn"
  BY <1>1, <1>5 DEF Spawn
<1>6. CASE TimeOut \/ Remove
  BY <1>1, <1>3, <1>6 DEF TimeOut, Remove
<1>7. ~Spawn /\ ~TimeOut /\ ~Remove /\ ~(\E u \in Executor : InContainer(u)) => UNCHANGED launcher
  BY DEF SandboxNext, Elsewhere, Prepare, Execution, AddWorktree, CannotSpawn, Drain, CollectOutput,
         CleanUp, RecordEnding, Dies, Passes, ProcessEnds, LeftoverEnds, sandboxVars, residueVars
<1> QED
  BY <1>1, <1>2, <1>4, <1>5, <1>6, <1>7

\* What was started was dispatched as it was requested: the executor tasks of
\* the store are those of the sandbox.
StartedAsRequested ==
    \A t \in Task : starts[t] # 0 => [task |-> t, capability |-> request[t].capability] \in Dispatch

LEMMA StartedStep ==
    ASSUME LoneInv, RelayInv, StartedAsRequested, [RelayNext]_relayVars
    PROVE  StartedAsRequested'
<1> SUFFICES ASSUME NEW t \in Task, starts'[t] # 0
             PROVE  [task |-> t, capability |-> request'[t].capability] \in Dispatch
  BY DEF StartedAsRequested
<1>1. Shape /\ Base /\ LoopStep /\ starts \in [Task -> Nat]
  BY BaseStep, ShapeIsLoopStep DEF RelayInv, Base, AgentTypeOK
<1>2. CASE starts[t] # 0
  <2>1. status[t] \notin {"ABSENT", "QUEUED"}
    BY <1>2 DEF RelayInv, WorkedInTurn
  <2>2. Stays(t) \/ IsReported(t) \/ IsGivenUp(t)
    BY <1>1, <2>1, ShapeOfStore, StepOfTask DEF Base, IsQueued, IsHandedOut
  <2>3. request'[t] = request[t]
    BY <2>2 DEF Stays, IsReported, IsGivenUp, RowKept
  <2> QED BY <1>2, <2>3 DEF StartedAsRequested
<1>3. CASE starts[t] = 0
  <2>1. Launch /\ job.task = t
    BY <1>1, <1>3, JobSource DEF Launch
  <2>2. job # NoJob
    BY <1>1, <2>1 DEF Base, AgentTypeOK, Launch
  <2>3. Taken(t) /\ job.capability = request[t].capability
    BY <2>1, <2>2 DEF RelayInv, HoldsOnlyTaken
  <2>4. request'[t] = request[t]
    BY <1>1, <2>3, TakenStays
  <2>5. job \in Dispatch /\ job \in Job
    BY <2>2, JobFacts, DispatchAssumption
  <2>6. job = [task |-> t, capability |-> request[t].capability]
    BY <2>1, <2>3, <2>5 DEF Job
  <2> QED BY <2>4, <2>5, <2>6
<1> QED
  BY <1>2, <1>3

TripInv == SandboxInv /\ RelayInv /\ RoundInv /\ OnlyExecutorsRun /\ StartedAsRequested

\* The invariants of the parts, and what links them, hold all along.
THEOREM TripInvariant == TripSpec => []TripInv
<1>1. SandboxInit => OnlyExecutorsRun
  BY DEF SandboxInit, OnlyExecutorsRun, Alive
<1>2. RelayInit => StartedAsRequested
  BY DEF RelayInit, AgentInit, StartedAsRequested
<1>3. SandboxInv /\ OnlyExecutorsRun /\ [SandboxNext]_sandboxVars => OnlyExecutorsRun'
  BY ContainersStep
<1>4. SandboxInv /\ RelayInv /\ StartedAsRequested /\ [RelayNext]_relayVars => StartedAsRequested'
  BY StartedStep DEF SandboxInv
<1> QED
  BY <1>1, <1>2, <1>3, <1>4, SandboxInvariant, RelayInvariant, RoundInvariant, PTL
  DEF TripSpec, SandboxSpec, RelaySpec, TripInv

-----------------------------------------------------------------------------
(* What a client may conclude                                              *)

\* The status that a call has read as terminal is that of its task.
LEMMA ReadIsOf ==
    ASSUME RoundInv, NEW c \in Call, seen[c] \in Terminal
    PROVE  ticket[c] \in Task /\ status[ticket[c]] = seen[c]
BY DEF RoundInv, RoundTypeOK, CallInv, InOrder, Agrees, Terminal, Verdict, Reaped

\* SUCCEEDED is the truth about the container, not only about the reply.
THEOREM SuccessReadIsTrue == TripSpec => []SuccessIsTrue
<1>1. ASSUME TripInv, NEW c \in Call, seen[c] = "SUCCEEDED", SuccessHasEvidence
      PROVE  /\ starts[ticket[c]] = 1 /\ outcome[ticket[c]] = "succeeded"
             /\ IsExecutorTask(ticket[c]) => Evident(ticket[c])
  <2>1. ticket[c] \in Task /\ status[ticket[c]] = "SUCCEEDED"
    BY <1>1, ReadIsOf DEF TripInv, Terminal, Verdict
  <2>2. starts[ticket[c]] = 1 /\ outcome[ticket[c]] = "succeeded"
    BY <1>1, <2>1 DEF TripInv, RelayInv, SuccessIsEarnedAllAlong, SuccessIsEarned
  <2>3. ASSUME IsExecutorTask(ticket[c]) PROVE ticket[c] \in Executor
    <3>1. [task |-> ticket[c], capability |-> "executor"] \in Dispatch
      BY <1>1, <2>1, <2>2, <2>3 DEF TripInv, StartedAsRequested, IsExecutorTask
    <3> QED BY <3>1 DEF Executor
  <2> QED BY <1>1, <2>2, <2>3 DEF SuccessHasEvidence
<1>2. TripInv /\ SuccessHasEvidence => SuccessIsTrue
  BY <1>1 DEF SuccessIsTrue
<1> QED
  BY <1>2, TripInvariant, SuccessIsEvident, PTL DEF TripSpec

\* AGENT_INTERRUPTED is the truth about the host, not only about its agent.
THEOREM InterruptionReadIsTrue == TripSpec => []InterruptionIsTrue
<1>1. ASSUME TripInv, RecordsHaveEnded, NEW c \in Call, seen[c] = "AGENT_INTERRUPTED"
      PROVE  /\ ticket[c] \notin unread => ~Holds(ticket[c])
             /\ ticket[c] \notin marred => ~LeftBehind(ticket[c])
  <2> DEFINE t == ticket[c]
  <2>1. t \in Task /\ status[t] = "AGENT_INTERRUPTED"
    BY <1>1, ReadIsOf DEF TripInv, Terminal, Reaped
  <2>2. t \notin unread => ~Holds(t)
    BY <1>1, <2>1 DEF TripInv, RelayInv, HeldSinceBeat, InterruptedMeansGone
  <2>3. ASSUME t \notin marred, LeftBehind(t) PROVE FALSE
    <3>1. t \in Executor
      BY <1>1, <2>1, <2>3 DEF TripInv, OnlyExecutorsRun, LeftBehind, SandboxInv, SandboxTypeOK
    <3>2. stage # "idle" /\ job.task = t
      BY <1>1, <2>3, <3>1 DEF TripInv, SandboxInv, Residue, LeftBehind
    <3>3. job # NoJob
      BY <1>1, <3>2 DEF TripInv, SandboxInv, SandboxTypeOK, StageFits, AgentTypeOK
    <3>4. outcome[t] = "none"
      BY <1>1, <2>1, <3>2
      DEF TripInv, SandboxInv, StageFits, RelayInv, WorkedInTurn
    <3>5. t \notin unread
      BY <1>1, <2>1, <3>4 DEF RecordsHaveEnded
    <3> QED BY <2>2, <3>2, <3>3, <3>5 DEF Holds
  <2> QED BY <2>2, <2>3
<1>2. TripInv /\ RecordsHaveEnded => InterruptionIsTrue
  BY <1>1 DEF InterruptionIsTrue
<1> QED
  BY <1>2, TripInvariant, RecordsAreOfEndedWork, PTL DEF TripSpec

\* A keyed round is safe to repeat: whoever submits it, and whatever was lost
\* meanwhile, its work is started once at most.
THEOREM KeyedRoundsAreRunOnce == TripSpec => []KeyedRoundsRunOnce
<1>1. TripInv /\ ReplaysShareTheRound => KeyedRoundsRunOnce
  <2> SUFFICES ASSUME TripInv, ReplaysShareTheRound, NEW c \in Call, NEW d \in Call,
                      ticket[c] # NoTask, ticket[d] # NoTask,
                      Keyed(request[ticket[c]]), request[ticket[c]] = request[ticket[d]]
               PROVE  ticket[c] = ticket[d] /\ starts[ticket[c]] <= 1
    BY DEF KeyedRoundsRunOnce
  <2>1. ticket[c] \in Task
    BY DEF TripInv, RoundInv, RoundTypeOK
  <2> QED BY <2>1 DEF ReplaysShareTheRound, TripInv, RelayInv, WorkedInTurn, AtMostOnce
<1> QED
  BY <1>1, TripInvariant, ReplaysShareOneRound, PTL DEF TripSpec
=============================================================================
