---------------------------- MODULE TaskLifecycle ----------------------------
(***************************************************************************)
(* What RelayMe promises about one task, without stores, polls, reports or *)
(* clocks: it is submitted, handed to an agent, its work is started at most*)
(* once, and it ends in one state for good; it is only called SUCCEEDED if *)
(* its work was started and succeeded.  Giving a task up does not stop its *)
(* work, so the work may start and end after the task has.                 *)
(***************************************************************************)
EXTENDS Integers

CONSTANT Task

VARIABLES
    state,     \* the task's state as clients see it
    starts,    \* how often its work was started
    outcome    \* how that work ended

lifecycleVars == <<state, starts, outcome>>

Ended == {"SUCCEEDED", "FAILED", "TIMED_OUT", "AGENT_LOST", "AGENT_INTERRUPTED"}

LInit ==
    /\ state = [t \in Task |-> "ABSENT"]
    /\ starts = [t \in Task |-> 0]
    /\ outcome = [t \in Task |-> "none"]

Submit(t) ==
    /\ state[t] = "ABSENT"
    /\ state' = [state EXCEPT ![t] = "QUEUED"]
    /\ UNCHANGED <<starts, outcome>>

HandOut(t) ==
    /\ state[t] = "QUEUED"
    /\ state' = [state EXCEPT ![t] = "RUNNING"]
    /\ UNCHANGED <<starts, outcome>>

Begin(t) ==
    /\ state[t] \notin {"ABSENT", "QUEUED"}
    /\ starts[t] = 0
    /\ starts' = [starts EXCEPT ![t] = 1]
    /\ UNCHANGED <<state, outcome>>

Complete(t, result) ==
    /\ starts[t] = 1 /\ outcome[t] = "none"
    /\ outcome' = [outcome EXCEPT ![t] = result]
    /\ UNCHANGED <<state, starts>>

Succeed(t) ==
    /\ state[t] = "RUNNING" /\ outcome[t] = "succeeded"
    /\ state' = [state EXCEPT ![t] = "SUCCEEDED"]
    /\ UNCHANGED <<starts, outcome>>

Abandon(t) ==      \* refused, failed, oversize, timed out, agent gone
    /\ state[t] = "RUNNING"
    /\ \E s \in Ended \ {"SUCCEEDED"} : state' = [state EXCEPT ![t] = s]
    /\ UNCHANGED <<starts, outcome>>

LNext ==
    \E t \in Task :
        \/ Submit(t) \/ HandOut(t) \/ Begin(t) \/ Succeed(t) \/ Abandon(t)
        \/ \E result \in {"succeeded", "failed"} : Complete(t, result)

LSpec == LInit /\ [][LNext]_lifecycleVars
=============================================================================
