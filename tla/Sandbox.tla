------------------------------- MODULE Sandbox -------------------------------
(***************************************************************************)
(* LoneAgent with executions in detail: run_registered_task,               *)
(* start_registered_executor_task and _run_executor_process of             *)
(* relayme/agent.py, and the launcher (adapters/executors/launcher.py)     *)
(* as the process in the container.  An executor task goes through         *)
(*   idle, worktree, spawn     before its container runs (pc = "exec")     *)
(*   wait, drain, remove, collect, cleanup, record       (pc = "running")  *)
(* and a registered task through idle, wait, drain, record.  What they     *)
(* leave on disk, and the container, outlive the agent process.            *)
(***************************************************************************)
EXTENDS LoneAgent

CONSTANTS
    Bulky,      \* the files that may grow larger than their limit
    Strays      \* what an engine may leave beside its report, by its size

\* What lands in task_output: the report (or its fallback analysis.md),
\* test.log, result.json, patch.diff as files, and anything else, directories
\* included: of those a folder may remain.
Name == {"report", "log", "result", "patch", "stray"}

ASSUME BulkyAssumption == Bulky \subseteq Name
ASSUME StraysAssumption == Strays \subseteq {"absent", "fits"}

VARIABLES
    stage,      \* how far the execution of `job' is
    ending,     \* how it ended, as far as it has
    held,       \* a process left behind holds its output pipes open
    briefs,     \* tasks with a brief.txt on disk
    worktrees,  \* tasks with a disposable worktree on disk
    outputs,    \* tasks with an output directory, which is never removed
    files,      \* what is in the output directory
    manifest,   \* `artifacts' of the task's result
    launcher,   \* where the launcher in the task's container is
    marred      \* history: the agent died, or clean-up was cut short

progressVars == <<stage, ending, held>>
residueVars == <<briefs, worktrees, outputs, files, manifest, launcher, marred>>
sandboxVars == <<now, agentVars, progressVars, residueVars>>

Size == {"absent", "fits", "big", "folder"}
Stage == {"idle", "worktree", "spawn", "wait", "drain", "remove", "collect", "cleanup", "record"}
Done == {"succeeded", "failed", "timed_out"}
EndingKind == Done \cup {"none", "broken", "refused"}
Launcher == [at : {"none", "engine", "tests", "result", "gone"}, ok : BOOLEAN]

Executor == {j.task : j \in {k \in Dispatch : k.capability = "executor"}}
JobExecutor == job.capability = "executor"
Alive(t) == launcher[t].at \in {"engine", "tests", "result"}
Ended(t) == IF Alive(t) THEN [launcher EXCEPT ![t] = [at |-> "gone", ok |-> FALSE]] ELSE launcher
Sizes(n) == IF n \in Bulky THEN {"fits", "big"} ELSE {"fits"}

SandboxInit ==
    /\ LoneInit
    /\ stage = "idle" /\ ending = "none" /\ held = FALSE
    /\ briefs = {} /\ worktrees = {} /\ outputs = {} /\ marred = {}
    /\ files = [t \in Task |-> [n \in Name |-> "absent"]]
    /\ manifest = [t \in Task |-> {}]
    /\ launcher = [t \in Task |-> [at |-> "none", ok |-> TRUE]]

-----------------------------------------------------------------------------
(* The agent                                                               *)

\* Everything but the execution of persistent tasks; a refusal here is one
\* before anything was prepared: unknown, in cooldown, as root.
Elsewhere ==
    /\ stage = "idle"
    /\ \/ Loop \/ Refuse
       \/ Launch /\ ~JobPersistent
       \/ \E state \in {"succeeded", "failed"} : FinishObservation(state)
    /\ UNCHANGED <<progressVars, residueVars>>

\* Slip: an output directory that exists is taken over.
PrepareAgain ==
    /\ pc = "exec" /\ stage = "idle" /\ JobExecutor /\ book[job.task] = NoEntry
    /\ outputs' = outputs \cup {job.task}
    /\ briefs' = briefs \cup {job.task}
    /\ stage' = "worktree"
    /\ UNCHANGED <<now, agentVars, ending, held, worktrees, files, manifest, launcher, marred>>

\* mkdir(exist_ok=False), the brief, and the base revision.
Prepare ==
    /\ pc = "exec" /\ stage = "idle" /\ JobExecutor /\ book[job.task] = NoEntry
    /\ \/ /\ job.task \notin outputs
          /\ outputs' = outputs \cup {job.task}
          /\ briefs' = briefs \cup {job.task}
          /\ \/ stage' = "worktree" /\ UNCHANGED ending
             \/ stage' = "cleanup" /\ ending' \in {"refused", "broken"}
       \/ stage' = "cleanup" /\ ending' = "broken" /\ UNCHANGED <<outputs, briefs>>
    /\ UNCHANGED <<now, agentVars, held, worktrees, files, manifest, launcher, marred>>

\* A worktree that could not be added may be there in part.
AddWorktree ==
    /\ stage = "worktree"
    /\ \/ stage' = "spawn" /\ worktrees' = worktrees \cup {job.task} /\ UNCHANGED ending
       \/ /\ stage' = "cleanup" /\ ending' = "broken"
          /\ worktrees' \in {worktrees, worktrees \cup {job.task}}
    /\ UNCHANGED <<now, agentVars, held, briefs, outputs, files, manifest, launcher, marred>>

Spawn ==
    /\ Launch /\ UNCHANGED now
    /\ \/ stage = "idle" /\ job.capability = "registered" /\ UNCHANGED launcher
       \/ /\ stage = "spawn"
          /\ launcher' = [launcher EXCEPT ![job.task] = [at |-> "engine", ok |-> TRUE]]
    /\ stage' = "wait"
    /\ UNCHANGED <<ending, held, briefs, worktrees, outputs, files, manifest, marred>>

CannotSpawn ==
    /\ stage = "spawn"
    /\ stage' = "cleanup" /\ ending' = "refused"
    /\ UNCHANGED <<now, agentVars, held, residueVars>>

\* Slip: only registered tasks are waited for with a time-out.
TimeOutOfRegistered ==
    /\ stage = "wait" /\ ~JobExecutor
    /\ ending' = "timed_out"
    /\ held' \in BOOLEAN
    /\ stage' = "drain"
    /\ UNCHANGED <<now, agentVars, residueVars>>

\* process.wait: the process ends, or the time is up and its group is killed.
\* An executor's process is the container's client, which may fail alone and
\* whose death need not end the container.
ProcessEnds ==
    /\ stage = "wait"
    /\ \/ ending' = "failed"
       \/ ending' = "succeeded" /\ (JobExecutor => launcher[job.task] = [at |-> "gone", ok |-> TRUE])
    /\ held' \in BOOLEAN
    /\ stage' = "drain"
    /\ UNCHANGED <<now, agentVars, residueVars>>

TimeOut ==
    /\ stage = "wait"
    /\ ending' = "timed_out"
    /\ launcher' \in {launcher, Ended(job.task)}
    /\ held' \in BOOLEAN
    /\ stage' = "drain"
    /\ UNCHANGED <<now, agentVars, briefs, worktrees, outputs, files, manifest, marred>>

\* Joining the readers is bounded, closing the pipes under them is not: the
\* agent stays here as long as another process holds them open.
Drain ==
    /\ stage = "drain" /\ ~held
    /\ stage' = IF JobExecutor THEN "remove" ELSE "record"
    /\ UNCHANGED <<now, agentVars, ending, held, residueVars>>

\* podman rm -f: its exit code is ignored, and it may time out.  The launcher
\* standing in for podman does nothing here; it is the process that ended.
Remove ==
    /\ stage = "remove"
    /\ \/ launcher' = Ended(job.task) /\ UNCHANGED marred
       \/ Alive(job.task) /\ marred' = marred \cup {job.task} /\ UNCHANGED launcher
    /\ \/ stage' = "collect" /\ UNCHANGED ending
       \/ stage' = "cleanup" /\ ending' = "broken"
    /\ UNCHANGED <<now, agentVars, held, briefs, worktrees, outputs, files, manifest>>

\* Slip: the limit is applied to test.log only.
KeptLoosely(f, left) == [n \in Name |-> CASE n = "patch" -> "fits"
                                          [] n = "stray" -> left
                                          [] n = "log" /\ f[n] = "big" -> "absent"
                                          [] OTHER -> f[n]]

\* The patch is written, cut to its limit; what is too large goes, and so does
\* what is unknown, up to a directory that rmtree could not empty (`left').
Kept(f, left) == [n \in Name |-> CASE n = "patch" -> "fits"
                                   [] n = "stray" -> left
                                   [] f[n] = "big" -> "absent"
                                   [] OTHER -> f[n]]
Remains(f) == IF f["stray"] = "absent" THEN {"absent"} ELSE {"absent", "folder"}
Present(f) == {n \in Name : f[n] \in {"fits", "big"}}

\* Diffs, filter, manifest and summary.  A result.json whose fields have
\* unexpected types, or a git that times out, raises.
CollectOutput ==
    /\ stage = "collect"
    /\ stage' = "cleanup"
    /\ \/ /\ \E left \in Remains(files[job.task]) :
                files' = [files EXCEPT ![job.task] = Kept(@, left)]
          /\ manifest' = [manifest EXCEPT ![job.task] = Present(files'[job.task])]
          /\ \/ UNCHANGED ending
             \/ files[job.task]["result"] = "fits" /\ ending' = "broken"
       \/ ending' = "broken" /\ UNCHANGED <<files, manifest>>
    /\ UNCHANGED <<now, agentVars, held, briefs, worktrees, outputs, launcher, marred>>

\* Slip: cleaning up at the end instead of in a finally block.
CleanUpAtTheEnd ==
    /\ stage = "cleanup"
    /\ stage' = "record"
    /\ IF ending = "broken" THEN UNCHANGED <<briefs, worktrees>>
       ELSE briefs' = briefs \ {job.task} /\ worktrees' = worktrees \ {job.task}
    /\ UNCHANGED <<now, agentVars, ending, held, outputs, files, manifest, launcher, marred>>

\* The finally block.  `git worktree remove' may time out, which replaces the
\* result; rmtree ignores what it cannot delete.  A container that put a
\* directory in the place of brief.txt makes unlink raise: the result is
\* replaced, too, and what comes after it does not happen.
CleanUp ==
    /\ stage = "cleanup"
    /\ stage' = "record"
    /\ \/ /\ briefs' = briefs \ {job.task}
          /\ \/ /\ worktrees' = worktrees \ {job.task}
                /\ UNCHANGED <<ending, marred>>
             \/ /\ job.task \in worktrees
                /\ ending' \in {ending, "broken"}
                /\ marred' = marred \cup {job.task}
                /\ UNCHANGED worktrees
       \/ /\ launcher[job.task].at # "none"
          /\ ending' = "broken"
          /\ marred' = marred \cup {job.task}
          /\ UNCHANGED <<briefs, worktrees>>
    /\ UNCHANGED <<now, agentVars, held, outputs, files, manifest, launcher>>

\* Slip: what did not fail succeeded.
StateOfAny(e) == IF e = "failed" THEN "failed" ELSE "succeeded"

StateOf(e) == IF e = "succeeded" THEN "succeeded" ELSE "failed"

RecordEnding ==
    /\ stage = "record"
    /\ \/ ending \in Done /\ \E written \in BOOLEAN : FinishExecution(StateOf(ending), written)
       \/ ending = "broken" /\ Break
       \/ ending = "refused" /\ Refuse
    /\ stage' = "idle" /\ ending' = "none"
    /\ UNCHANGED <<now, held, residueVars>>

Dies ==
    /\ Crash
    /\ stage' = "idle" /\ ending' = "none" /\ held' = FALSE
    /\ marred' = IF stage = "idle" \/ ~JobExecutor THEN marred ELSE marred \cup {job.task}
    /\ UNCHANGED <<now, briefs, worktrees, outputs, files, manifest, launcher>>

-----------------------------------------------------------------------------
(* The processes it started                                                *)

\* The left-behind process exits; if it wrote after the pipes were closed, a
\* reader died and its output is missing (KeyError).
LeftoverEnds ==
    /\ held
    /\ held' = FALSE
    /\ ending' \in {ending, "broken"}
    /\ UNCHANGED <<now, agentVars, stage, residueVars>>

Writes(t, n, size) == files' = [files EXCEPT ![t][n] = size]
MovesOn(t, to, ok) == launcher' = [launcher EXCEPT ![t] = [at |-> to, ok |-> @.ok /\ ok]]

\* run_codex, run_opencode, run_mock: an engine that fails may have left no
\* report; any engine may leave other files.
RunEngine(t) ==
    /\ launcher[t].at = "engine"
    /\ \E code \in BOOLEAN, report \in Sizes("report") \cup {"absent"}, stray \in Strays :
         /\ code => report # "absent"
         /\ files' = [files EXCEPT ![t]["report"] = report, ![t]["stray"] = stray]
         /\ MovesOn(t, "tests", code)

RunTests(t) ==
    /\ launcher[t].at = "tests"
    /\ \E passed \in BOOLEAN, log \in Sizes("log") : Writes(t, "log", log) /\ MovesOn(t, "result", passed)

WriteResult(t) ==
    /\ launcher[t].at = "result"
    /\ \E size \in Sizes("result") : Writes(t, "result", size)
    /\ MovesOn(t, "gone", TRUE)

\* An uncaught exception (the tests' time-out, a full disk) or a kill.
LauncherFails(t) == Alive(t) /\ launcher' = Ended(t) /\ UNCHANGED files

InContainer(t) ==
    /\ RunEngine(t) \/ RunTests(t) \/ WriteResult(t) \/ LauncherFails(t)
    /\ UNCHANGED <<now, agentVars, progressVars, briefs, worktrees, outputs, manifest, marred>>

Passes == Tick /\ UNCHANGED <<agentVars, progressVars, residueVars>>

-----------------------------------------------------------------------------
Execution ==      \* what the agent does without waiting for anybody for ever
    \/ AddWorktree \/ Spawn \/ CannotSpawn \/ TimeOut
    \/ Drain \/ Remove \/ CollectOutput \/ CleanUp \/ RecordEnding

SandboxNext ==
    \/ Elsewhere /\ UNCHANGED now
    \/ Prepare \/ Execution \/ Dies \/ Passes
    \/ ProcessEnds \/ LeftoverEnds \/ \E t \in Executor : InContainer(t)

SandboxSpec == SandboxInit /\ [][SandboxNext]_sandboxVars
FairSandboxSpec == SandboxSpec /\ WF_sandboxVars(Execution)
-----------------------------------------------------------------------------
SandboxTypeOK ==
    /\ AgentTypeOK
    /\ stage \in Stage /\ ending \in EndingKind /\ held \in BOOLEAN
    /\ briefs \subseteq outputs /\ worktrees \subseteq outputs
    /\ outputs \subseteq Executor /\ marred \subseteq Executor
    /\ files \in [Task -> [Name -> Size]]
    /\ manifest \in [Task -> SUBSET Name]
    /\ launcher \in [Task -> Launcher]

\* An executor task is started at most once, whatever the Controller hands out
\* again, wherever the agent crashed, and after its record expired: its output
\* directory outlives all of these, and preparing refuses to take it over.
ExecutorStartsOnce == \A t \in Executor : starts[t] <= 1

\* However an execution ends - success, time-out, a refusal half way, an
\* exception in any step - no brief, no worktree and no running container is
\* left of it, unless the agent died in it or the clean-up was cut short: by a
\* tool that failed, or by a brief.txt that unlink cannot remove.
NothingLeftBehind ==
    \A t \in Executor \ marred :
        t \in briefs \cup worktrees \/ Alive(t) => stage \notin {"idle", "record"} /\ job.task = t

Recorded(t) == book[t] # NoEntry \/ disk[t] # NoEntry

\* While an execution is on record, the files in its output directory are those
\* its manifest lists, no other and none over its limit: the artifact routes
\* serve what was reported.  (A directory that could not be emptied may lie
\* beside them; the routes serve files.)
OutputIsManifest ==
    \A t \in Executor \ marred : Recorded(t) =>
        Present(files[t]) = manifest[t] /\ \A n \in Name : files[t][n] # "big"

Evident(t) ==
    /\ launcher[t] = [at |-> "gone", ok |-> TRUE]
    /\ \A n \in {"report", "log", "result"} \ Bulky : files[t][n] # "absent"

\* An executor task that ended succeeded has run its engine and its tests to a
\* good end, and what they wrote is there, unless it was too large: a client
\* that dies, a time-out or a late kill is never taken for success.
SuccessHasEvidence ==
    \A t \in Executor : outcome[t] = "succeeded" => Evident(t)

\* The agent is never stuck inside an execution: whichever step failed and
\* whatever the container does, its next step can be taken, unless a process
\* left behind holds the output pipes that it is closing.
NeverStuck == stage # "idle" /\ ~held => ENABLED <<Execution>>_sandboxVars

\* Every execution ends, whatever the launcher does, unless a process that it
\* left behind keeps its output pipes open for ever.
OnlyALeftoverBlocks == []<>(stage = "idle") \/ <>[](stage = "drain" /\ held)
=============================================================================
