------------------------------ MODULE LoneAgent ------------------------------
(***************************************************************************)
(* The Host Agent against any Controller: replies, losses and repeated     *)
(* hand-outs of the same task in any order.  What holds here is the        *)
(* agent's own doing and does not rest on the Controller.                  *)
(***************************************************************************)
EXTENDS HostAgent

CONSTANTS
    Dispatch,      \* the jobs a poll can return
    MaxStarts      \* bound: no task is handed out that was started so often,
                   \* alone or together with any other

\* The capability of a task is a column of its row and never changes.
ASSUME DispatchAssumption ==
    /\ Dispatch \subseteq Job
    /\ \A i, j \in Dispatch : i.task = j.task => i = j
ASSUME MaxStartsAssumption == MaxStarts \in Nat

loneVars == <<now, agentVars>>

Replies == {"ok", "refused", "unavailable"}

InBounds(t) ==
    /\ starts[t] < MaxStarts
    /\ \A u \in Task \ {t} : starts[t] + starts[u] < MaxStarts

Loop ==      \* the turn of the loop outside of an execution
    \/ Start \/ StartUnread
    \/ \E j \in Dispatch : InBounds(j.task) /\ PollTask(j)
    \/ \E reply \in Replies : PostMem(reply) \/ Beat(reply) \/ PollEmpty(reply)
    \/ \E reply \in Replies, written \in BOOLEAN : PostKept(reply, written)
    \/ \E written \in BOOLEAN : Top(written) \/ Recall(written)

Turn ==
    \/ Loop \/ Crash \/ Execute
    \/ \E state \in {"succeeded", "failed"}, written \in BOOLEAN : FinishExecution(state, written)

LoneInit == ClockInit /\ AgentInit

LoneNext == (Turn /\ UNCHANGED now) \/ (Tick /\ UNCHANGED agentVars)

LoneSpec == LoneInit /\ [][LoneNext]_loneVars

\* A task whose record is on disk and has not expired is not run again, even
\* if the Controller hands it out again after the agent restarted - unless the
\* agent once started from a file that it could not read.
RecordedIsNotRerun ==
    [][\A t \in Task \ unread : Current(disk)[t] # NoEntry => starts'[t] = starts[t]]_loneVars

\* The record of an execution on disk never turns from delivered to
\* undelivered, and its result never changes: what is posted again after a
\* restart is what was posted before.  Only a task that was run again because
\* its record could not be read gets another.
RecordIsStable ==
    [][\A t \in Task \ unread : disk[t] # NoEntry =>
          \/ disk'[t] = NoEntry
          \/ /\ disk'[t].state = disk[t].state /\ disk'[t].large = disk[t].large
             /\ disk[t].delivered => disk'[t].delivered
          \/ disk[t].expires <= now]_loneVars
=============================================================================
