---------------------------- MODULE ExecutorRound ----------------------------
(***************************************************************************)
(* The composite tools of the MCP adapter: run_executor_round and          *)
(* collect_executor_round of adapters/mcp/server.py; calls of different    *)
(* adapter processes run side by side.  A call is a sequence of            *)
(* requests to the Controller; between any two of them agents report, the  *)
(* retained result expires, the Controller restarts or requests fail.      *)
(***************************************************************************)
EXTENDS TaskStore

CONSTANTS
    Call,      \* tool calls
    Caller,    \* the identity of the adapter's client token
    WaitCap    \* bound: the longest wait_seconds a call asks for

ASSUME CallerAssumption == Caller \in Reader /\ WaitCap \in Nat \ {0}

VARIABLES
    at,        \* where the call is
    ticket,    \* task_id
    deadline,  \* of the wait
    seen,      \* the task's status in the last reply
    result,    \* bundle: what /result said; "none" when it could not be fetched
    evidence   \* bundle: whether any artifact was fetched

callVars == <<at, ticket, deadline, seen, result, evidence>>
roundVars == <<now, storeVars, callVars>>

Waiting == {"wait", "collect"}
\* In the order they are fetched.  The report is executor_report.md or else
\* analysis.md: two requests of which at most one finds anything.
Artifact == {"report", "patch", "log"}
Bundling == {"result"} \cup Artifact
Returned == {"done", "failed"}

\* The statuses the adapter takes for terminal; AGENT_LOST and
\* AGENT_INTERRUPTED are not among them.
AdapterTerminal == {"SUCCEEDED", "FAILED", "TIMED_OUT"}

RoundInit ==
    /\ Init
    /\ at = [c \in Call |-> "idle"]
    /\ ticket = [c \in Call |-> NoTask]
    /\ deadline = [c \in Call |-> 0]
    /\ seen = [c \in Call |-> "ABSENT"]
    /\ result = [c \in Call |-> "none"]
    /\ evidence = [c \in Call |-> FALSE]

Goto(c, place) == at' = [at EXCEPT ![c] = place]

-----------------------------------------------------------------------------
\* POST /v1/tasks: t is the id create_task returns for r.
Submitted(r, t) ==
    /\ CreateTask(r)
    /\ IF Replayed(r) THEN [key |-> IdempotencyKey(r), execution |-> t] \in idempotency
                      ELSE status[t] = "ABSENT" /\ status'[t] = "QUEUED"

\* Calls begin early enough for the bounded clock to reach their deadline.
Run(c, r, t, wait) ==
    /\ at[c] = "idle"
    /\ now + wait <= MaxTime
    /\ Submitted(r, t)
    /\ Goto(c, "wait")
    /\ ticket' = [ticket EXCEPT ![c] = t]
    /\ deadline' = [deadline EXCEPT ![c] = now + wait]
    /\ UNCHANGED <<seen, result, evidence>>

Collect(c, t) ==
    /\ at[c] = "idle"
    /\ status[t] # "ABSENT" /\ IsPersistent(t)
    /\ Goto(c, "collect")
    /\ ticket' = [ticket EXCEPT ![c] = t]
    /\ UNCHANGED <<storeVars, deadline, seen, result, evidence>>

\* POST /v1/tasks raises, whether or not the task was created.
RunFails(c, r) ==
    /\ at[c] = "idle"
    /\ CreateTask(r) \/ UNCHANGED storeVars
    /\ Goto(c, "failed")
    /\ UNCHANGED <<ticket, deadline, seen, result, evidence>>

\* Slip: the loop has no deadline.
AfterStatusPatient(c, s) ==
    IF s \in AdapterTerminal THEN "result"
    ELSE IF at[c] = "collect" THEN "done" ELSE "wait"

AfterStatus(c, s) ==
    IF s \in AdapterTerminal THEN "result"
    ELSE IF at[c] = "collect" \/ now >= deadline[c] THEN "done" ELSE "wait"

\* GET /v1/tasks/<id>
ReadStatus(c) ==
    /\ at[c] \in Waiting
    /\ ReadTask(ticket[c], Caller, FALSE)
    /\ Visible(ticket[c], Caller)
    /\ seen' = [seen EXCEPT ![c] = StatusRead(ticket[c])]
    /\ Goto(c, AfterStatus(c, StatusRead(ticket[c])))
    /\ UNCHANGED <<ticket, deadline, result, evidence>>

\* Slip: a result that expired is not answered for.
ReadResultKept(c) ==
    /\ at[c] = "result"
    /\ ReadTask(ticket[c], Caller, FALSE)
    /\ Swept[ticket[c]] \in Content
    /\ result' = [result EXCEPT ![c] = Swept[ticket[c]]]
    /\ Goto(c, "report")
    /\ UNCHANGED <<ticket, deadline, seen, evidence>>

\* GET /v1/tasks/<id>/result: without a result it says that it expired.
ReadResult(c) ==
    /\ at[c] = "result"
    /\ ReadTask(ticket[c], Caller, FALSE)
    /\ result' = [result EXCEPT ![c] = IF Swept[ticket[c]] \in Content
                                       THEN Swept[ticket[c]] ELSE "expired"]
    /\ Goto(c, "report")
    /\ UNCHANGED <<ticket, deadline, seen, evidence>>

\* Slip: an artifact is served without the retained result.
ServedUnretained(t) == TRUE

\* task_artifact needs the retained result for its manifest, which the
\* replacement of an oversize one has not.
ManifestRetained(t) == IsPersistent(t) /\ Swept[t] = "result"

NextPart == [report |-> "patch", patch |-> "log", log |-> "done"]

\* GET /v1/tasks/<id>/artifacts/<name>; the executor need not have made it.
ReadArtifact(c, a, found) ==
    /\ at[c] = a
    /\ ReadTask(ticket[c], Caller, TRUE)
    /\ found => ManifestRetained(ticket[c])
    /\ evidence' = [evidence EXCEPT ![c] = @ \/ found]
    /\ Goto(c, NextPart[a])
    /\ UNCHANGED <<ticket, deadline, seen, result>>

\* A request fails, served or not: the status read raises, the bundle goes on
\* without.
RequestFails(c) ==
    /\ at[c] \in Waiting \cup Bundling
    /\ \/ UNCHANGED storeVars
       \/ \E artifact \in BOOLEAN : ReadTask(ticket[c], Caller, artifact)
    /\ \/ at[c] \in Waiting /\ Goto(c, "failed")
       \/ at[c] = "result" /\ Goto(c, "report")
       \/ at[c] \in Artifact /\ Goto(c, NextPart[at[c]])
    /\ UNCHANGED <<ticket, deadline, seen, result, evidence>>

-----------------------------------------------------------------------------
CallStep(c) ==
    \/ ReadStatus(c) \/ ReadResult(c)
    \/ \E a \in Artifact, found \in BOOLEAN : ReadArtifact(c, a, found)

CallBegins(c) ==
    \/ \E r \in Submission, t \in Task, wait \in 1 .. WaitCap : Run(c, r, t, wait)
    \/ \E t \in Task : Collect(c, t)
    \/ \E r \in Submission : RunFails(c, r)

RoundNext ==
    \/ \E c \in Call : (CallBegins(c) \/ CallStep(c) \/ RequestFails(c)) /\ UNCHANGED now
    \/ (AgentStep \/ Restart) /\ UNCHANGED <<now, callVars>>
    \/ Tick /\ UNCHANGED <<storeVars, callVars>>

\* A call is carried on until it returns, and time passes.
RoundSpec ==
    /\ RoundInit /\ [][RoundNext]_roundVars
    /\ WF_roundVars(Tick /\ UNCHANGED <<storeVars, callVars>>)
    /\ \A c \in Call : WF_roundVars(CallStep(c) /\ UNCHANGED now)
-----------------------------------------------------------------------------
RoundTypeOK ==
    /\ TypeOK
    /\ at \in [Call -> {"idle"} \cup Waiting \cup Bundling \cup Returned]
    /\ ticket \in [Call -> Task \cup {NoTask}]
    /\ \A c \in Call : at[c] \notin {"idle", "failed"} => ticket[c] # NoTask
    /\ deadline \in [Call -> Time]
    /\ seen \in [Call -> Status]
    /\ result \in [Call -> {"none", "expired"} \cup Content]
    /\ evidence \in [Call -> BOOLEAN]

\* The state of a bundle is the task's, for good: two bundles of one task,
\* collected at different times by different calls, never disagree, and no
\* later report or read contradicts one that was returned.
BundlesAgree ==
    \A c \in Call : seen[c] \in AdapterTerminal => status[ticket[c]] = seen[c]

\* The parts of a bundle fit together although they are fetched one by one:
\* a result is there only under a verdict, its oversize replacement only
\* under FAILED, and artifacts only if the result had not expired before.
BundleIsCoherent ==
    \A c \in Call :
        /\ result[c] \in Content => seen[c] \in Verdict
        /\ result[c] = "oversize" => seen[c] = "FAILED"
        /\ result[c] \in {"expired", "oversize"} => ~evidence[c]

\* Rounds submitted with one key wait for one execution: replaying a round
\* never starts the executor again.
ReplaysShareTheRound ==
    \A c, d \in Call :
        /\ ticket[c] # NoTask /\ ticket[d] # NoTask
        /\ Keyed(request[ticket[c]]) /\ request[ticket[c]] = request[ticket[d]]
        => ticket[c] = ticket[d] /\ handed[ticket[c]] <= 1

\* Whatever became of its task meanwhile, a call can always ask for the next
\* part of its bundle, and for the status once the time to wait is over: no
\* call waits for what never comes.
CallCanGoOn ==
    \A c \in Call :
        at[c] \in {"collect"} \cup Bundling \/ (at[c] = "wait" /\ now >= deadline[c])
        => ENABLED <<CallStep(c) /\ UNCHANGED now>>_roundVars

\* Every call returns, also if the task never ends.
CallsReturn == \A c \in Call : at[c] # "idle" ~> at[c] \in Returned

\* docs/mcp.md:87 "If terminal, compiles and returns the exact same
\* structured review bundle as run_executor_round": a call that read a
\* terminal status (controller.py:24) goes on to build the bundle.
TerminalIsBundled ==
    \A c \in Call : seen[c] \in Terminal /\ at[c] = "done" => seen[c] \in AdapterTerminal
=============================================================================
