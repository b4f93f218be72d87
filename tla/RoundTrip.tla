------------------------------ MODULE RoundTrip ------------------------------
(***************************************************************************)
(* All the way from a tool call to the container and back: what a client   *)
(* of the MCP adapter may conclude from the status it reads.  The parts    *)
(* share variables and are composed by conjunction: the calls of           *)
(* ExecutorRound and the agent of Relay meet in the rows of the store, the *)
(* loop of Relay's agent and the executions of Sandbox in the agent's      *)
(* variables.  A step of the whole is a step of each part that it touches: *)
(* serving a report is a report for Relay, a step of an agent for          *)
(* ExecutorRound and a turn of the loop for Sandbox.  The clients are the  *)
(* calls; Dispatch stands for what they turn out to request.               *)
(***************************************************************************)
EXTENDS Sandbox, Relay, ExecutorRound

TripSpec == SandboxSpec /\ RelaySpec /\ RoundSpec

\* Every task is dispatched with the capability it was requested with.
Dispatched ==
    \A t \in Task : status[t] # "ABSENT" =>
        [task |-> t, capability |-> request[t].capability] \in Dispatch

-----------------------------------------------------------------------------
IsExecutorTask(t) == request[t].capability = "executor"

\* A call that has read SUCCEEDED can rely on it: the work of its task was
\* started once, on the host, and succeeded there, and if it was an
\* executor's, engine, tests and result.json went through in the container
\* and left their output - whatever was lost, repeated, restarted or read
\* between the launcher's exit code and the reply to the call.
SuccessIsTrue ==
    \A c \in Call : seen[c] = "SUCCEEDED" =>
        /\ starts[ticket[c]] = 1 /\ outcome[ticket[c]] = "succeeded"
        /\ IsExecutorTask(ticket[c]) => Evident(ticket[c])

LeftBehind(t) == t \in briefs \cup worktrees \/ Alive(t)

\* A call that has read AGENT_INTERRUPTED may submit its round again: the
\* agent neither works on the task any more nor will it report it, unless a
\* start could not read its record, and it has left no brief, worktree or
\* running container, unless it died in the execution or its clean-up was cut
\* short.
InterruptionIsTrue ==
    \A c \in Call : seen[c] = "AGENT_INTERRUPTED" =>
        /\ ticket[c] \notin unread => ~Holds(ticket[c])
        /\ ticket[c] \notin marred => ~LeftBehind(ticket[c])

\* Calls that submitted one request with one key have one task, whose work
\* was started at most once on the host.
KeyedRoundsRunOnce ==
    \A c, d \in Call :
        /\ ticket[c] # NoTask /\ ticket[d] # NoTask
        /\ Keyed(request[ticket[c]]) /\ request[ticket[c]] = request[ticket[d]]
        => ticket[c] = ticket[d] /\ starts[ticket[c]] <= 1
=============================================================================
