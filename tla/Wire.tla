-------------------------------- MODULE Wire --------------------------------
(***************************************************************************)
(* What the Controller, the Host Agents and the clients of RelayMe share:  *)
(* task identities, the requests clients submit, the reports agents post   *)
(* (controller.py 15-28, agent.py 20-30 and 491-496), and wall-clock time. *)
(*                                                                         *)
(* Clocks of different machines are assumed not to drift apart; `now' is   *)
(* time.time() of all of them, in units no finer than its seconds.         *)
(***************************************************************************)
EXTENDS Integers

CONSTANTS
    Task,        \* the ids create_task can draw (uuid4)
    Host,        \* enrolled host ids
    Reader,      \* identities that read tasks over the API
    Admin,       \* those of them whose scope is administrative
    Actor,       \* the actors, targets and keys that requests name
    Target,
    Key,
    NoKey,       \* the idempotency_key of a request that carries none
    Submission,  \* the requests clients submit
    NoTask,      \* "no task": NoneType on either side of the wire
    MaxTime      \* bound: the clock stops here

Observation == "observation"          \* R0: host_status, read_file, git_diff...
Persistent == {"registered", "executor"}        \* PERSISTENT_CAPABILITIES
Capability == Persistent \cup {Observation}

Request == [actor: Actor, host: Host, capability: Capability,
            target: Target, key: Key \cup {NoKey}]

\* A report is what an agent posts to /v1/agent/tasks/result.  Its result is
\* "tagged" when it is a dict carrying the task's own execution_id (every
\* persistent result is), "plain" for an observation, "none" for None; `big'
\* says that its JSON exceeds MAX_RESULT_BYTES.
Verdict == {"SUCCEEDED", "FAILED"}
Report == [verdict: Verdict, result: {"none", "plain", "tagged"}, big: BOOLEAN]

Time == 0 .. MaxTime

ASSUME SubmissionAssumption ==
    /\ Submission \subseteq Request
    /\ \A s \in Submission : s.capability = Observation => s.key = NoKey
ASSUME NoKeyAssumption == NoKey \notin Key
ASSUME NoTaskAssumption == NoTask \notin Task
ASSUME AdminAssumption == Admin \subseteq Reader
ASSUME MaxTimeAssumption == MaxTime \in Nat \ {0}

VARIABLE now

ClockInit == now = 1      \* 0 stands for NULL in the timestamp columns

Tick ==
    /\ now < MaxTime
    /\ now' = now + 1
=============================================================================
