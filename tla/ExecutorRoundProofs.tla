------------------------- MODULE ExecutorRoundProofs -------------------------
(***************************************************************************)
(* Proofs that the safety properties of the round tools hold for any       *)
(* number of calls, tasks, keys and clients, and any agents.               *)
(***************************************************************************)
EXTENDS ExecutorRound, RelayProofs

-----------------------------------------------------------------------------
(* A step of the tools is a step of the store beside a step of a call      *)

OneCallMoves ==
    \E c \in Call : (CallBegins(c) \/ CallStep(c) \/ RequestFails(c)) /\ UNCHANGED now

\* Calls ask for tasks they were given, so every request is one of the store's.
Ticketed == \A c \in Call : at[c] \notin {"idle", "failed"} => ticket[c] \in Task

\* Whatever a call, an agent or the clock does, the store sees one of its own
\* steps or none.
LEMMA RoundStepOfStore ==
    ASSUME Ticketed, [RoundNext]_roundVars
    PROVE  [Next]_vars
<1> USE CallerAssumption
<1>1. ASSUME NEW c \in Call, at[c] \notin {"idle", "failed"}, NEW artifact \in BOOLEAN,
             ReadTask(ticket[c], Caller, artifact)
      PROVE  ClientStep
  BY <1>1 DEF ClientStep, Ticketed
<1>2. ASSUME NEW c \in Call, CallBegins(c), UNCHANGED now PROVE [Next]_vars
  <2>1. (\E r \in Submission : CreateTask(r)) \/ UNCHANGED storeVars
    BY <1>2 DEF CallBegins, Run, Submitted, Collect, RunFails
  <2>2. QED
    BY <1>2, <2>1 DEF Next, ClientStep, vars
<1>3. ASSUME NEW c \in Call, CallStep(c), UNCHANGED now PROVE [Next]_vars
  <2>1. at[c] \notin {"idle", "failed"} /\ \E artifact \in BOOLEAN : ReadTask(ticket[c], Caller, artifact)
    BY <1>3 DEF CallStep, ReadStatus, ReadResult, ReadArtifact, Waiting, Artifact
  <2>2. QED
    BY <1>1, <1>3, <2>1 DEF Next
<1>4. ASSUME NEW c \in Call, RequestFails(c), UNCHANGED now PROVE [Next]_vars
  <2>1. /\ at[c] \notin {"idle", "failed"}
        /\ UNCHANGED storeVars \/ \E artifact \in BOOLEAN : ReadTask(ticket[c], Caller, artifact)
    BY <1>4 DEF RequestFails, Waiting, Bundling, Artifact
  <2>2. QED
    BY <1>1, <1>4, <2>1 DEF Next, vars
<1>5. CASE (AgentStep \/ Restart) /\ UNCHANGED <<now, callVars>>
  BY <1>5 DEF Next
<1>6. CASE Tick /\ UNCHANGED <<storeVars, callVars>>
  BY <1>6 DEF Next
<1>7. CASE UNCHANGED roundVars
  BY <1>7 DEF roundVars, vars, storeVars
<1>8. QED
  BY <1>2, <1>3, <1>4, <1>5, <1>6, <1>7 DEF RoundNext

\* At most one call moves in a step (the adapter processes interleave).
LEMMA OthersWait ==
    ASSUME [RoundNext]_roundVars
    PROVE  OneCallMoves \/ UNCHANGED callVars
BY DEF RoundNext, OneCallMoves, roundVars, callVars

-----------------------------------------------------------------------------
(* Two more invariants of the store                                        *)

\* An idempotency row names a task that exists.
RowsHaveTasks == \A row \in idempotency : row.execution \in Task /\ status[row.execution] # "ABSENT"

\* The replacement of an oversize result stands under FAILED.
OversizeHasFailed == \A t \in Task : retained[t] = "oversize" => status[t] = "FAILED"

\* A task that exists stays, with its request; one that ended keeps its
\* status and gains no evidence.
LEMMA TaskRemains ==
    ASSUME TypeOK, [Next]_vars, NEW t \in Task, status[t] # "ABSENT"
    PROVE  /\ status'[t] # "ABSENT" /\ request'[t] = request[t]
           /\ status[t] \in Terminal => status'[t] = status[t] /\ EvidenceKept(t)
BY StepOfTask
DEF Stays, IsQueued, IsHandedOut, IsReported, IsGivenUp, RowKept, GivenUpAs, Verdict, Terminal, Reaped

\* create_task inserts the key and the task in one transaction.
LEMMA StoreRowsStep ==
    ASSUME TypeOK, RowsHaveTasks, [Next]_vars
    PROVE  RowsHaveTasks'
<1>1. \A row \in idempotency : row.execution \in Task /\ status'[row.execution] # "ABSENT"
  BY TaskRemains DEF RowsHaveTasks
<1>2. ASSUME NEW r \in Submission, NEW t \in Task, Enqueue(r, t)
      PROVE  status'[t] # "ABSENT"
  BY <1>2 DEF Enqueue, TypeOK
<1>3. QED
  BY <1>1, <1>2, StepOfKeys DEF RowsHaveTasks

\* A result only enters with the verdict of a report.
LEMMA RetainedSource ==
    ASSUME [Next]_vars
    PROVE  \/ retained' = retained \/ retained' = Swept
           \/ \E h \in Host, t \in Task, rep \in Report :
                 /\ RunningOn(h, t) /\ SetVerdict(t, rep)
                 /\ retained' = [Swept EXCEPT ![t] = Stored(rep)]
<1>1. CASE ClientStep
  BY <1>1 DEF ClientStep, CreateTask, ReadTask, ReviewableTasks
<1>2. ASSUME NEW h \in Host, NEW t \in Task, NextTask(h, t) PROVE retained' = retained
  BY <1>2 DEF NextTask, resultVars
<1>3. ASSUME NEW h \in Host, Heartbeat(h) PROVE retained' = retained
  BY <1>3 DEF Heartbeat, resultVars
<1>4. ASSUME NEW h \in Host, NEW t \in Task, NEW rep \in Report,
             FinishTask(h, t, rep) \/ FinishCrash(h, t, rep) \/ FinishError(h, t, rep)
      PROVE  \/ retained' = Swept
             \/ /\ RunningOn(h, t) /\ SetVerdict(t, rep)
                /\ retained' = [Swept EXCEPT ![t] = Stored(rep)]
  BY <1>4 DEF FinishTask, FinishCrash, FinishError, LoseMemory, Record, Keep
<1>5. CASE Restart
  BY <1>5 DEF Restart, LoseMemory
<1>6. CASE UNCHANGED storeVars
  BY <1>6 DEF storeVars
<1>7. QED
  BY <1>1, <1>2, <1>3, <1>4, <1>5, <1>6 DEF Next, AgentStep, vars

\* finish_task stores the replacement only with the verdict FAILED.
LEMMA OversizeStep ==
    ASSUME TypeOK, OversizeHasFailed, EvidenceHasVerdict, [Next]_vars
    PROVE  OversizeHasFailed'
<1> SUFFICES ASSUME NEW t \in Task, retained'[t] = "oversize"
             PROVE  status'[t] = "FAILED"
  BY DEF OversizeHasFailed
<1>1. CASE retained[t] = "oversize"
  BY <1>1, TaskRemains DEF OversizeHasFailed, Terminal, Verdict, TypeOK
<1>2. CASE retained[t] # "oversize"
  <2>1. Swept[t] # "oversize"
    BY <1>2 DEF Swept
  <2>2. PICK h \in Host, u \in Task, rep \in Report :
          /\ RunningOn(h, u) /\ SetVerdict(u, rep)
          /\ retained' = [Swept EXCEPT ![u] = Stored(rep)]
    <3>1. retained' # retained /\ retained' # Swept
      BY <1>2, <2>1
    <3>2. QED
      BY <3>1, RetainedSource
  <2>3. retained' = [Swept EXCEPT ![u] = Stored(rep)]
    BY <2>2
  <2>4. t = u /\ Stored(rep) = "oversize"
    BY <2>1, <2>3, SweptType DEF TypeOK
  <2>5. RecordedVerdict(rep) = "FAILED"
    BY <2>4 DEF Stored, RecordedVerdict
  <2>6. QED
    BY <2>2, <2>4, <2>5 DEF SetVerdict, TypeOK
<1>3. QED
  BY <1>1, <1>2

-----------------------------------------------------------------------------
(* The inductive invariant                                                 *)

\* A call before its bundle has nothing of it; one with a task has a task
\* that exists; one that bundles has read a terminal status.
InOrder(c) ==
    /\ at[c] \in {"idle", "result"} \cup Waiting => result[c] = "none" /\ ~evidence[c]
    /\ at[c] = "idle" => seen[c] = "ABSENT"
    /\ IF ticket[c] = NoTask THEN seen[c] = "ABSENT" /\ result[c] = "none"
                             ELSE status[ticket[c]] # "ABSENT"
    /\ at[c] \in Bundling \/ result[c] # "none" => seen[c] \in AdapterTerminal

\* A result that could not be served stays so: no artifact follows it.
NotServable(t) == status[t] \in Terminal /\ Swept[t] # "result"

Fits(c) ==
    /\ result[c] \in Content => seen[c] \in Verdict
    /\ result[c] = "oversize" => seen[c] = "FAILED"
    /\ result[c] \in {"expired", "oversize"} => NotServable(ticket[c]) /\ ~evidence[c]

Agrees(c) == seen[c] \in Terminal => status[ticket[c]] = seen[c]

StoreInv == TypeOK /\ EvidenceHasVerdict /\ RowsHaveTasks /\ OversizeHasFailed
CallInv(c) == InOrder(c) /\ Agrees(c) /\ Fits(c)
RoundInv == StoreInv /\ RoundTypeOK /\ \A c \in Call : CallInv(c)

\* Before the first call nothing is bundled.
LEMMA RoundInvInit ==
    ASSUME RoundInit
    PROVE  RoundInv
<1>1. TypeOK
  BY MaxTimeAssumption DEF RoundInit, Init, ClockInit, TypeOK, Status, Retained, Time
<1>2. StoreInv
  BY <1>1 DEF RoundInit, Init, StoreInv, EvidenceHasVerdict, RowsHaveTasks, OversizeHasFailed
<1>3. RoundTypeOK
  BY <1>1, MaxTimeAssumption DEF RoundInit, RoundTypeOK, Status, Time
<1>4. \A c \in Call : CallInv(c)
  BY DEF RoundInit, CallInv, InOrder, Agrees, Fits, Waiting, Bundling, Artifact, AdapterTerminal,
         Content, Terminal, Verdict, Reaped
<1>5. QED
  BY <1>2, <1>3, <1>4 DEF RoundInv

-----------------------------------------------------------------------------
(* What the store does under a call                                        *)

\* A result that expired or was replaced does not come back.
LEMMA ServableNoMore ==
    ASSUME TypeOK, TypeOK', [Next]_vars, NEW t \in Task, NotServable(t)
    PROVE  NotServable(t)'
<1>1. status[t] # "ABSENT"
  BY DEF NotServable, Terminal, Verdict, Reaped
<1>2. status'[t] = status[t] /\ EvidenceKept(t)
  BY <1>1, TaskRemains DEF NotServable
<1>3. now' >= now /\ now \in Nat /\ now' \in Nat /\ expires[t] \in Nat
  BY MaxTimeAssumption, StepOfTime DEF TypeOK, Time
<1>4. Swept'[t] = IF retained'[t] \in Content /\ expires'[t] < now' THEN "expired" ELSE retained'[t]
  BY DEF Swept
<1>5. Swept[t] = IF retained[t] \in Content /\ expires[t] < now THEN "expired" ELSE retained[t]
  BY DEF Swept
<1>6. Swept'[t] # "result"
  BY <1>2, <1>3, <1>4, <1>5 DEF NotServable, EvidenceKept, Content
<1>7. QED
  BY <1>2, <1>6 DEF NotServable

\* A call that does not move keeps its invariant whatever the store does.
LEMMA CallStays ==
    ASSUME TypeOK, TypeOK', RoundTypeOK, [Next]_vars, NEW c \in Call, CallInv(c),
           at'[c] = at[c], ticket'[c] = ticket[c], seen'[c] = seen[c],
           result'[c] = result[c], evidence'[c] = evidence[c]
    PROVE  CallInv(c)'
<1>1. CASE ticket[c] = NoTask
  BY <1>1 DEF CallInv, InOrder, Agrees, Fits, AdapterTerminal, Terminal, Verdict, Reaped, Content
<1>2. CASE ticket[c] \in Task
  <2>1. status[ticket[c]] # "ABSENT"
    BY <1>2, NoTaskAssumption DEF CallInv, InOrder
  <2>2. /\ status'[ticket[c]] # "ABSENT"
        /\ status[ticket[c]] \in Terminal => status'[ticket[c]] = status[ticket[c]]
    BY <1>2, <2>1, TaskRemains
  <2>3. Agrees(c)'
    BY <2>2 DEF CallInv, Agrees, AdapterTerminal, Terminal, Verdict, Reaped
  <2>4. NotServable(ticket[c]) => NotServable(ticket[c])'
    BY <1>2, ServableNoMore DEF NotServable
  <2>5. Fits(c)' /\ InOrder(c)'
    BY <1>2, <2>2, <2>4 DEF CallInv, Fits, InOrder
  <2>6. QED
    BY <2>3, <2>5 DEF CallInv
<1>3. QED
  BY <1>1, <1>2 DEF RoundTypeOK

-----------------------------------------------------------------------------
(* Type correctness                                                        *)

\* What the adapter keeps of a call, apart from the store.
CallTypes ==
    /\ at \in [Call -> {"idle"} \cup Waiting \cup Bundling \cup Returned]
    /\ ticket \in [Call -> Task \cup {NoTask}]
    /\ \A c \in Call : at[c] \notin {"idle", "failed"} => ticket[c] # NoTask
    /\ deadline \in [Call -> Time]
    /\ seen \in [Call -> Status]
    /\ result \in [Call -> {"none", "expired"} \cup Content]
    /\ evidence \in [Call -> BOOLEAN]

\* The type invariant says that a call under way has its task.
LEMMA TypeIsTicketed == RoundTypeOK => Ticketed
BY DEF RoundTypeOK, Ticketed, Waiting, Bundling, Artifact, Returned

\* A step of a call keeps what the adapter holds well-formed.
LEMMA CallTypesStep ==
    ASSUME TypeOK, CallTypes, OneCallMoves
    PROVE  CallTypes'
<1> USE DEF CallTypes, Goto, Waiting, Bundling, Artifact, Returned
<1> USE NoTaskAssumption
<1>1. PICK c \in Call : (CallBegins(c) \/ CallStep(c) \/ RequestFails(c)) /\ UNCHANGED now
  BY DEF OneCallMoves
<1>2. ASSUME NEW r \in Submission, NEW t \in Task, NEW wait \in 1 .. WaitCap, Run(c, r, t, wait)
      PROVE  CallTypes'
  <2>1. now + wait \in Time
    BY <1>2, CallerAssumption, MaxTimeAssumption DEF Run, TypeOK, Time
  <2>2. QED
    BY <1>2, <2>1 DEF Run
<1>3. ASSUME NEW t \in Task, Collect(c, t) PROVE CallTypes'
  BY <1>3 DEF Collect
<1>4. ASSUME NEW r \in Submission, RunFails(c, r) PROVE CallTypes'
  BY <1>4 DEF RunFails
<1>5. CASE ReadStatus(c)
  <2>1. ticket[c] \in Task
    BY <1>5 DEF ReadStatus
  <2>2. StatusRead(ticket[c]) \in Status
    BY <2>1 DEF StatusRead, GivenUpAs, TypeOK, Status, Terminal, Reaped
  <2>3. AfterStatus(c, StatusRead(ticket[c])) \in {"result", "done", "wait"}
    BY DEF AfterStatus
  <2>4. at' \in [Call -> {"idle"} \cup Waiting \cup Bundling \cup Returned]
    BY <1>5, <2>3 DEF ReadStatus
  <2>5. QED
    BY <1>5, <2>2, <2>4 DEF ReadStatus
<1>6. CASE ReadResult(c)
  BY <1>6 DEF ReadResult
<1>7. ASSUME NEW a \in Artifact, NextPart[a] \notin {"report", "patch", "log", "done"} PROVE FALSE
  BY <1>7 DEF NextPart
<1>8. ASSUME NEW a \in Artifact, NEW found \in BOOLEAN, ReadArtifact(c, a, found)
      PROVE  CallTypes'
  BY <1>7, <1>8 DEF ReadArtifact
<1>9. CASE RequestFails(c)
  BY <1>7, <1>9 DEF RequestFails
<1>10. QED
  BY <1>1, <1>2, <1>3, <1>4, <1>5, <1>6, <1>8, <1>9 DEF CallBegins, CallStep

\* The store and every call keep to their values, however calls, reports and
\* failures interleave.
THEOREM RoundTypeCorrect == RoundSpec => []RoundTypeOK
<1>1. RoundInit => RoundTypeOK
  BY RoundInvInit DEF RoundInv
<1>2. RoundTypeOK /\ [RoundNext]_roundVars => RoundTypeOK'
  <2> SUFFICES ASSUME RoundTypeOK, [RoundNext]_roundVars PROVE RoundTypeOK'
    OBVIOUS
  <2>1. TypeOK'
    BY TypeIsTicketed, RoundStepOfStore, TypeStep DEF RoundTypeOK
  <2>2. CallTypes'
    BY OthersWait, CallTypesStep DEF RoundTypeOK, CallTypes, callVars
  <2>3. QED
    BY <2>1, <2>2 DEF RoundTypeOK, CallTypes
<1>3. QED
  BY <1>1, <1>2, PTL DEF RoundSpec

\* The tools do nothing to the store that a client may not do: what is
\* proved of the store for any clients holds under them.
THEOREM RoundImplementsStore == RoundSpec => Spec
<1>1. RoundInit => Init
  BY DEF RoundInit
<1>2. RoundTypeOK /\ [RoundNext]_roundVars => [Next]_vars
  BY TypeIsTicketed, RoundStepOfStore
<1>3. QED
  BY <1>1, <1>2, RoundTypeCorrect, PTL DEF RoundSpec, Spec

-----------------------------------------------------------------------------
(* Every step of a call keeps its own invariant                            *)

\* create_task answers with the id of a task that exists.
LEMMA CallBeginsKeeps ==
    ASSUME StoreInv, RoundTypeOK, [Next]_vars, NEW c \in Call, CallInv(c), CallBegins(c)
    PROVE  CallInv(c)'
<1> USE NoTaskAssumption DEF RoundTypeOK, Goto
<1>1. /\ at[c] = "idle"
      /\ seen'[c] = "ABSENT" /\ result'[c] = "none" /\ evidence'[c] = FALSE
  <2>1. at[c] = "idle" /\ UNCHANGED <<seen, result, evidence>>
    BY DEF CallBegins, Run, Collect, RunFails
  <2>2. QED
    BY <2>1 DEF CallInv, InOrder
<1>2. Agrees(c)' /\ Fits(c)'
  BY <1>1 DEF Agrees, Fits, AdapterTerminal, Content, Terminal, Verdict, Reaped
<1>3. at'[c] \in {"wait", "collect", "failed"}
  BY DEF CallBegins, Run, Collect, RunFails
<1>4. ticket'[c] # NoTask => status'[ticket'[c]] # "ABSENT"
  <2>1. ASSUME NEW r \in Submission, NEW t \in Task, NEW wait \in 1 .. WaitCap, Run(c, r, t, wait)
        PROVE  ticket'[c] = t /\ status'[t] # "ABSENT"
    <3>1. ticket'[c] = t /\ Submitted(r, t)
      BY <2>1 DEF Run
    <3>2. CASE Replayed(r)
      <4>1. status[t] # "ABSENT"
        BY <3>1, <3>2 DEF Submitted, StoreInv, RowsHaveTasks
      <4>2. QED
        BY <3>1, <4>1, TaskRemains DEF StoreInv
    <3>3. CASE ~Replayed(r)
      BY <3>1, <3>3 DEF Submitted
    <3>4. QED
      BY <3>1, <3>2, <3>3
  <2>2. ASSUME NEW t \in Task, Collect(c, t)
        PROVE  ticket'[c] = t /\ status'[t] # "ABSENT"
    BY <2>2 DEF Collect, storeVars
  <2>3. ASSUME NEW r \in Submission, RunFails(c, r), ticket'[c] # NoTask
        PROVE  status'[ticket'[c]] # "ABSENT"
    <3>1. ticket'[c] = ticket[c] /\ ticket[c] \in Task /\ status[ticket[c]] # "ABSENT"
      BY <2>3 DEF RunFails, CallInv, InOrder
    <3>2. QED
      BY <3>1, TaskRemains DEF StoreInv
  <2>4. QED
    BY <2>1, <2>2, <2>3 DEF CallBegins
<1>5. InOrder(c)'
  BY <1>1, <1>3, <1>4 DEF InOrder, Waiting, Bundling, Artifact
<1>6. QED
  BY <1>2, <1>5 DEF CallInv

\* A terminal status that was read is the status the read left behind.
LEMMA ReadStatusKeeps ==
    ASSUME StoreInv, RoundTypeOK, NEW c \in Call, CallInv(c), ReadStatus(c)
    PROVE  CallInv(c)'
<1> USE NoTaskAssumption DEF RoundTypeOK, Goto
<1> DEFINE t == ticket[c]
           s == StatusRead(t)
<1>1. /\ at[c] \in Waiting /\ t \in Task /\ ticket'[c] = t
      /\ result'[c] = "none" /\ evidence'[c] = FALSE
  BY DEF ReadStatus, CallInv, InOrder, Waiting
<1>2. seen'[c] = s /\ at'[c] = AfterStatus(c, s)
  <2>1. /\ at \in [Call -> {"idle"} \cup Waiting \cup Bundling \cup Returned]
        /\ seen \in [Call -> Status]
    OBVIOUS
  <2>2. QED
    BY <2>1 DEF ReadStatus
<1>3. status'[t] = s /\ s # "ABSENT"
  <2>1. status'[t] = s
    BY <1>1 DEF ReadStatus, ReadTask, TypeOK
  <2>2. status[t] # "ABSENT"
    BY DEF ReadStatus, ReadTask
  <2>3. QED
    BY <2>1, <2>2 DEF StatusRead, GivenUpAs
<1>4. at'[c] \in {"result", "done", "wait"} /\ (at'[c] = "result" => s \in AdapterTerminal)
  BY <1>2 DEF AfterStatus
<1>5. InOrder(c)'
  BY <1>1, <1>2, <1>3, <1>4 DEF InOrder, Waiting, Bundling, Artifact
<1>6. Agrees(c)' /\ Fits(c)'
  BY <1>1, <1>2, <1>3 DEF Agrees, Fits, Content
<1>7. QED
  BY <1>5, <1>6 DEF CallInv

\* The step of a call that bundles leaves the verdict it has read standing.
LEMMA BundlingKeepsVerdict ==
    ASSUME StoreInv, RoundTypeOK, [Next]_vars, NEW c \in Call, CallInv(c), at[c] \in Bundling
    PROVE  /\ ticket[c] \in Task
           /\ seen[c] \in AdapterTerminal /\ status[ticket[c]] = seen[c]
           /\ status'[ticket[c]] = seen[c]
<1>1. ticket[c] \in Task /\ seen[c] \in AdapterTerminal /\ status[ticket[c]] = seen[c]
  BY DEF CallInv, InOrder, Agrees, RoundTypeOK, Bundling, Artifact, AdapterTerminal,
         Terminal, Verdict, Reaped
<1>2. status[ticket[c]] # "ABSENT" /\ status[ticket[c]] \in Terminal
  BY <1>1 DEF AdapterTerminal, Terminal, Verdict, Reaped
<1>3. QED
  BY <1>1, <1>2, TaskRemains DEF StoreInv

\* The result fetched is the one of the verdict that was read before.
LEMMA ReadResultKeeps ==
    ASSUME StoreInv, StoreInv', RoundTypeOK, [Next]_vars, UNCHANGED now,
           NEW c \in Call, CallInv(c), ReadResult(c)
    PROVE  CallInv(c)'
<1> USE NoTaskAssumption DEF RoundTypeOK, Goto
<1> DEFINE t == ticket[c]
<1>1. at[c] = "result" /\ at'[c] = "report" /\ ticket'[c] = t /\ seen'[c] = seen[c]
  BY DEF ReadResult
<1>2. evidence'[c] = FALSE
  BY DEF ReadResult, CallInv, InOrder
<1>3. /\ t \in Task /\ seen[c] \in AdapterTerminal
      /\ status[t] = seen[c] /\ status'[t] = seen[c]
  BY <1>1, BundlingKeepsVerdict DEF Bundling
<1>4. result'[c] = IF Swept[t] \in Content THEN Swept[t] ELSE "expired"
  BY DEF ReadResult
<1>5. status'[t] # "ABSENT"
  BY <1>3 DEF AdapterTerminal
<1>6. InOrder(c)'
  BY <1>1, <1>3, <1>4, <1>5 DEF InOrder, Waiting, Bundling, Artifact
<1>7. Agrees(c)'
  BY <1>1, <1>3 DEF Agrees
<1>8. retained' = Swept
  BY DEF ReadResult, ReadTask
<1>9. result'[c] \in Content => retained'[t] = result'[c]
  BY <1>4, <1>8 DEF Content
<1>10. result'[c] \in Content => seen[c] \in Verdict
  BY <1>3, <1>9 DEF Content, StoreInv, EvidenceHasVerdict
<1>11. result'[c] = "oversize" => seen[c] = "FAILED"
  BY <1>3, <1>9 DEF Content, StoreInv, OversizeHasFailed
<1>12. result'[c] \in {"expired", "oversize"} => NotServable(t)
  <2>1. result'[c] \in {"expired", "oversize"} => Swept[t] # "result"
    BY <1>4 DEF Content
  <2>2. QED
    BY <1>3, <2>1 DEF NotServable, AdapterTerminal, Terminal, Verdict, Reaped
<1>13. NotServable(t) => NotServable(t)'
  BY <1>1, <1>3, ServableNoMore DEF StoreInv
<1>14. Fits(c)'
  BY <1>1, <1>2, <1>10, <1>11, <1>12, <1>13 DEF Fits
<1>15. QED
  BY <1>6, <1>7, <1>14 DEF CallInv

\* An artifact is only found while the result could be served.
LEMMA ReadArtifactKeeps ==
    ASSUME StoreInv, StoreInv', RoundTypeOK, [Next]_vars,
           NEW c \in Call, NEW a \in Artifact, NEW found \in BOOLEAN,
           CallInv(c), ReadArtifact(c, a, found)
    PROVE  CallInv(c)'
<1> USE NoTaskAssumption DEF RoundTypeOK, Goto
<1> DEFINE t == ticket[c]
<1>1. /\ at[c] = a /\ at'[c] = NextPart[a] /\ ticket'[c] = t
      /\ seen'[c] = seen[c] /\ result'[c] = result[c]
  BY DEF ReadArtifact
<1>2. at'[c] \in {"patch", "log", "done"}
  BY <1>1 DEF NextPart, Artifact
<1>3. /\ t \in Task /\ seen[c] \in AdapterTerminal
      /\ status[t] = seen[c] /\ status'[t] = seen[c]
  BY <1>1, BundlingKeepsVerdict DEF Bundling
<1>4. status'[t] # "ABSENT"
  BY <1>3 DEF AdapterTerminal
<1>5. InOrder(c)'
  BY <1>1, <1>2, <1>3, <1>4 DEF InOrder, Waiting, Bundling, Artifact
<1>6. Agrees(c)'
  BY <1>1, <1>3 DEF Agrees
<1>7. NotServable(t) => ~found
  BY DEF NotServable, ReadArtifact, ManifestRetained
<1>8. evidence'[c] = (evidence[c] \/ found)
  BY DEF ReadArtifact
<1>9. NotServable(t) => NotServable(t)'
  BY <1>1, <1>3, ServableNoMore DEF StoreInv
<1>10. Fits(c)'
  BY <1>1, <1>7, <1>8, <1>9 DEF Fits, CallInv
<1>11. QED
  BY <1>5, <1>6, <1>10 DEF CallInv

\* A request that fails leaves of the call only its place.
LEMMA RequestFailsKeeps ==
    ASSUME StoreInv, StoreInv', RoundTypeOK, [Next]_vars,
           NEW c \in Call, CallInv(c), RequestFails(c)
    PROVE  CallInv(c)'
<1> USE NoTaskAssumption DEF RoundTypeOK, Goto
<1> DEFINE t == ticket[c]
<1>1. /\ t \in Task /\ ticket'[c] = t /\ seen'[c] = seen[c]
      /\ result'[c] = result[c] /\ evidence'[c] = evidence[c]
  BY DEF RequestFails, Waiting, Bundling, Artifact
<1>2. /\ at'[c] \in {"failed", "report", "patch", "log", "done"}
      /\ at'[c] \in Bundling => at[c] \in Bundling
  BY DEF RequestFails, Waiting, Bundling, Artifact, NextPart
<1>3. status[t] # "ABSENT"
  BY <1>1 DEF CallInv, InOrder
<1>4. /\ status'[t] # "ABSENT"
      /\ status[t] \in Terminal => status'[t] = status[t]
  BY <1>1, <1>3, TaskRemains DEF StoreInv
<1>5. InOrder(c)'
  BY <1>1, <1>2, <1>4 DEF CallInv, InOrder, Waiting
<1>6. Agrees(c)'
  BY <1>1, <1>4 DEF CallInv, Agrees, AdapterTerminal, Terminal, Verdict, Reaped
<1>7. NotServable(t) => NotServable(t)'
  BY <1>1, ServableNoMore DEF StoreInv
<1>8. Fits(c)'
  BY <1>1, <1>7 DEF CallInv, Fits
<1>9. QED
  BY <1>5, <1>6, <1>8 DEF CallInv

-----------------------------------------------------------------------------
(* The bundles                                                             *)

\* Whatever the other calls, the agents, time and a restarting Controller do
\* between two requests of a call.
THEOREM RoundInvariant == RoundSpec => []RoundInv
<1>1. RoundInv /\ RoundTypeOK' /\ EvidenceHasVerdict' /\ [RoundNext]_roundVars => RoundInv'
  <2> SUFFICES ASSUME RoundInv, RoundTypeOK', EvidenceHasVerdict', [RoundNext]_roundVars
               PROVE  RoundInv'
    OBVIOUS
  <2>1. /\ StoreInv /\ TypeOK /\ TypeOK' /\ RoundTypeOK
        /\ \A c \in Call : CallInv(c)
    BY DEF RoundInv, StoreInv, RoundTypeOK
  <2>2. [Next]_vars
    BY <2>1, TypeIsTicketed, RoundStepOfStore
  <2>3. StoreInv'
    BY <2>1, <2>2, StoreRowsStep, OversizeStep DEF StoreInv
  <2>4. ASSUME NEW c \in Call, CallBegins(c) \/ CallStep(c) \/ RequestFails(c), UNCHANGED now
        PROVE  CallInv(c)'
    <3>1. CASE CallBegins(c)
      BY <2>1, <2>2, <3>1, CallBeginsKeeps
    <3>2. CASE ReadStatus(c)
      BY <2>1, <3>2, ReadStatusKeeps
    <3>3. CASE ReadResult(c)
      BY <2>1, <2>2, <2>3, <2>4, <3>3, ReadResultKeeps
    <3>4. ASSUME NEW a \in Artifact, NEW found \in BOOLEAN, ReadArtifact(c, a, found)
          PROVE  CallInv(c)'
      BY <2>1, <2>2, <2>3, <3>4, ReadArtifactKeeps
    <3>5. CASE RequestFails(c)
      BY <2>1, <2>2, <2>3, <3>5, RequestFailsKeeps
    <3>6. QED
      BY <2>4, <3>1, <3>2, <3>3, <3>4, <3>5 DEF CallStep
  <2>5. ASSUME NEW c \in Call, CallBegins(c) \/ CallStep(c) \/ RequestFails(c),
               NEW d \in Call, d # c
        PROVE  /\ at'[d] = at[d] /\ ticket'[d] = ticket[d] /\ seen'[d] = seen[d]
               /\ result'[d] = result[d] /\ evidence'[d] = evidence[d]
    <3>1. /\ at' = [at EXCEPT ![c] = at'[c]] /\ ticket' = [ticket EXCEPT ![c] = ticket'[c]]
          /\ seen' = [seen EXCEPT ![c] = seen'[c]]
          /\ result' = [result EXCEPT ![c] = result'[c]]
          /\ evidence' = [evidence EXCEPT ![c] = evidence'[c]]
      BY <2>1, <2>5
      DEF CallBegins, Run, Collect, RunFails, CallStep, ReadStatus, ReadResult, ReadArtifact,
          RequestFails, Goto, RoundTypeOK
    <3>2. QED
      BY <2>1, <2>5, <3>1 DEF RoundTypeOK
  <2>6. ASSUME NEW c \in Call
        PROVE  CallInv(c)'
    <3>1. CASE UNCHANGED callVars
      BY <2>1, <2>2, <3>1, CallStays DEF callVars
    <3>2. CASE OneCallMoves
      <4>1. PICK d \in Call : (CallBegins(d) \/ CallStep(d) \/ RequestFails(d)) /\ UNCHANGED now
        BY <3>2 DEF OneCallMoves
      <4>2. CASE c = d
        BY <2>4, <4>1, <4>2
      <4>3. CASE c # d
        BY <2>1, <2>2, <2>5, <4>1, <4>3, CallStays
      <4>4. QED
        BY <4>2, <4>3
    <3>3. QED
      BY <3>1, <3>2, OthersWait
  <2>7. QED
    BY <2>3, <2>6 DEF RoundInv
<1>2. QED
  BY <1>1, RoundInvInit, RoundTypeCorrect, RoundImplementsStore, EvidenceIsReported, PTL
  DEF RoundSpec

\* Two bundles of one task never disagree on its state, and no later report
\* or read contradicts one that was returned.
THEOREM BundlesNeverDisagree == RoundSpec => []BundlesAgree
<1>1. RoundInv => BundlesAgree
  BY DEF RoundInv, CallInv, Agrees, BundlesAgree, AdapterTerminal, Terminal, Verdict, Reaped
<1>2. QED
  BY <1>1, RoundInvariant, PTL

\* The parts of a bundle fit together although they are fetched one by one.
THEOREM BundlesAreCoherent == RoundSpec => []BundleIsCoherent
<1>1. RoundInv => BundleIsCoherent
  BY DEF RoundInv, CallInv, Fits, BundleIsCoherent
<1>2. QED
  BY <1>1, RoundInvariant, PTL

\* Rounds submitted with one key wait for one execution, which the executor
\* was handed at most once.
THEOREM ReplaysShareOneRound == RoundSpec => []ReplaysShareTheRound
<1>1. RoundInv /\ OneTaskPerKey /\ HandedOnce => ReplaysShareTheRound
  <2> SUFFICES ASSUME RoundInv, OneTaskPerKey, HandedOnce, NEW c \in Call, NEW d \in Call,
                      ticket[c] # NoTask, ticket[d] # NoTask,
                      Keyed(request[ticket[c]]), request[ticket[c]] = request[ticket[d]]
               PROVE  ticket[c] = ticket[d] /\ handed[ticket[c]] <= 1
    BY DEF ReplaysShareTheRound
  <2>1. /\ ticket[c] \in Task /\ status[ticket[c]] # "ABSENT"
        /\ ticket[d] \in Task /\ status[ticket[d]] # "ABSENT"
    BY DEF RoundInv, RoundTypeOK, CallInv, InOrder
  <2>2. QED
    BY <2>1 DEF OneTaskPerKey, HandedOnce
<1>2. QED
  BY <1>1, RoundInvariant, RoundImplementsStore, KeysNameOneTask, NeverHandedTwice, PTL

-----------------------------------------------------------------------------
(* Every call returns                                                      *)

IsCarriedOn(c) == WF_roundVars(CallStep(c) /\ UNCHANGED now)

LEMMA CallsAreCarriedOn == RoundSpec => \A c \in Call : IsCarriedOn(c)
<1>1. RoundSpec => \A c \in Call : WF_roundVars(CallStep(c) /\ UNCHANGED now)
  BY PTL DEF RoundSpec
<1> QED BY <1>1, PTL DEF IsCarriedOn

\* How far a call has come.
CallStage(c) ==
    CASE at[c] \in {"idle", "wait", "collect"} -> 1
      [] at[c] = "result" -> 2
      [] at[c] = "report" -> 3
      [] at[c] = "patch" -> 4
      [] at[c] = "log" -> 5
      [] at[c] \in Returned -> 6

\* A call that is on its way, as far as k at least.
Under(c, k) == at[c] \notin {"idle"} \cup Returned /\ CallStage(c) >= k

StagesOK == \A c \in Call : CallStage(c) \in 1 .. 6 /\ (CallStage(c) = 6 <=> at[c] \in Returned)

LEMMA StageType == RoundTypeOK => StagesOK
<1> SUFFICES ASSUME RoundTypeOK, NEW c \in Call
             PROVE  CallStage(c) \in 1 .. 6 /\ (CallStage(c) = 6 <=> at[c] \in Returned)
  BY DEF StagesOK
<1>1. at[c] \in {"idle", "wait", "collect", "result", "report", "patch", "log", "done", "failed"}
  BY DEF RoundTypeOK, Waiting, Bundling, Artifact, Returned
<1> QED BY <1>1 DEF CallStage, Returned

\* No step takes a call back; one of its own takes it on, unless it waits
\* and its deadline is still to come.
LEMMA StageStep ==
    ASSUME RoundTypeOK, RoundTypeOK', [RoundNext]_roundVars, NEW c \in Call, at[c] # "idle"
    PROVE  /\ at'[c] # "idle" /\ CallStage(c)' >= CallStage(c)
           /\ now = MaxTime /\ CallStep(c) => CallStage(c)' > CallStage(c)
<1>1. at \in [Call -> {"idle"} \cup Waiting \cup Bundling \cup Returned]
  BY DEF RoundTypeOK
<1>2. ASSUME NEW d \in Call, d # c, CallBegins(d) \/ CallStep(d) \/ RequestFails(d)
      PROVE  at'[c] = at[c]
  BY <1>1, <1>2
  DEF CallBegins, Run, Collect, RunFails, CallStep, ReadStatus, ReadResult, ReadArtifact,
      RequestFails, Goto
<1>3. ~CallBegins(c)
  BY DEF CallBegins, Run, Collect, RunFails
<1>4. ASSUME ReadStatus(c)
      PROVE  /\ at'[c] \in {"wait", "result", "done"} /\ at[c] \in Waiting
             /\ now = MaxTime => at'[c] # "wait"
  <2>1. at[c] \in Waiting /\ at'[c] = AfterStatus(c, StatusRead(ticket[c]))
    BY <1>1, <1>4 DEF ReadStatus, Goto
  <2>2. deadline[c] <= MaxTime
    BY MaxTimeAssumption DEF RoundTypeOK, Time
  <2> QED BY <2>1, <2>2, MaxTimeAssumption DEF AfterStatus, Waiting
<1>5. ASSUME ReadResult(c)
      PROVE  at[c] = "result" /\ at'[c] = "report"
  BY <1>1, <1>5 DEF ReadResult, Goto
<1>6. ASSUME NEW a \in Artifact, NEW found \in BOOLEAN, ReadArtifact(c, a, found)
      PROVE  at[c] \in Artifact /\ at'[c] = NextPart[at[c]]
  BY <1>1, <1>6 DEF ReadArtifact, Goto
<1>7. ASSUME RequestFails(c)
      PROVE  \/ at[c] \in Waiting /\ at'[c] = "failed"
             \/ at[c] = "result" /\ at'[c] = "report"
             \/ at[c] \in Artifact /\ at'[c] = NextPart[at[c]]
  BY <1>1, <1>7 DEF RequestFails, Goto
<1>8. at[c] \in Artifact => NextPart[at[c]] \in {"patch", "log", "done"}
                            /\ (at[c] = "report" => NextPart[at[c]] = "patch")
                            /\ (at[c] = "patch" => NextPart[at[c]] = "log")
                            /\ (at[c] = "log" => NextPart[at[c]] = "done")
  BY DEF NextPart, Artifact
<1> DEFINE Onward == at'[c] # "idle" /\ CallStage(c)' > CallStage(c)
<1>9. ReadResult(c) \/ RequestFails(c) \/ (\E a \in Artifact, found \in BOOLEAN : ReadArtifact(c, a, found))
      => Onward
  BY <1>5, <1>6, <1>7, <1>8 DEF CallStage, Waiting, Artifact, Returned
<1>10. ReadStatus(c) => at'[c] # "idle" /\ CallStage(c)' >= CallStage(c) /\ (now = MaxTime => Onward)
  BY <1>4 DEF CallStage, Waiting, Returned
<1>11. CallStage(c) \in Nat /\ CallStage(c)' \in Nat
  <2>1. StagesOK /\ StagesOK'
    BY StageType, PTL
  <2> QED BY <2>1 DEF StagesOK
<1>12. at'[c] = at[c] => CallStage(c)' = CallStage(c)
  BY DEF CallStage
<1>13. CallStep(c) => ReadStatus(c) \/ ReadResult(c)
                      \/ \E a \in Artifact, found \in BOOLEAN : ReadArtifact(c, a, found)
  BY DEF CallStep
<1>14. CASE OneCallMoves
  BY <1>2, <1>3, <1>9, <1>10, <1>11, <1>12, <1>13, <1>14 DEF OneCallMoves
<1>15. CASE UNCHANGED callVars
  <2>1. at'[c] = at[c]
    BY <1>15 DEF callVars
  <2>2. ~CallStep(c) \/ now # MaxTime
    <3>1. at[c] \in {"result", "report", "patch", "log"} => at'[c] # at[c]
             \/ ~(ReadResult(c) \/ \E a \in Artifact, found \in BOOLEAN : ReadArtifact(c, a, found))
      BY <1>9, <1>11, <1>12
    <3> QED
      BY <2>1, <1>4, <1>9, <1>11, <1>12, <1>13 DEF Waiting
  <2> QED BY <1>11, <1>12, <2>1, <2>2
<1> QED BY OthersWait, <1>14, <1>15

UnderAdvances(c, k) ==
    RoundSpec /\ []CallCanGoOn /\ TimePasses /\ <>[]Under(c, k) => <>[]Under(c, k + 1)

\* When the time is up, a call that does not return is carried on from
\* wherever it is.
LEMMA CallAdvances ==
    ASSUME NEW c \in Call, NEW k \in 1 .. 5
    PROVE  UnderAdvances(c, k)
<1>1. [RoundNext]_roundVars /\ now = MaxTime => (now = MaxTime)'
  <2>1. ~Tick \/ now # MaxTime
    BY MaxTimeAssumption DEF Tick
  <2> QED BY <2>1 DEF RoundNext, roundVars
<1>2. RoundTypeOK /\ RoundTypeOK' /\ [RoundNext]_roundVars /\ now = MaxTime
      /\ Under(c, k) /\ Under(c, k)'
      => (<<CallStep(c) /\ UNCHANGED now>>_roundVars \/ Under(c, k + 1) => Under(c, k + 1)')
  <2> SUFFICES ASSUME RoundTypeOK, RoundTypeOK', [RoundNext]_roundVars, now = MaxTime,
                      Under(c, k), Under(c, k)', CallStep(c) \/ Under(c, k + 1)
               PROVE  Under(c, k + 1)'
    OBVIOUS
  <2>1. StagesOK /\ StagesOK'
    BY StageType, PTL
  <2> QED BY <2>1, StageStep DEF StagesOK, Under
<1>3. RoundTypeOK /\ now = MaxTime /\ CallCanGoOn /\ Under(c, k)
      => ENABLED <<CallStep(c) /\ UNCHANGED now>>_roundVars
  <2> SUFFICES ASSUME RoundTypeOK, now = MaxTime, CallCanGoOn, Under(c, k)
               PROVE  at[c] \in {"collect"} \cup Bundling \/ (at[c] = "wait" /\ now >= deadline[c])
    BY DEF CallCanGoOn
  <2>1. deadline[c] <= MaxTime
    BY MaxTimeAssumption DEF RoundTypeOK, Time
  <2>2. deadline[c] \in Nat
    BY MaxTimeAssumption DEF RoundTypeOK, Time
  <2> QED BY <2>1, <2>2, MaxTimeAssumption DEF Under, RoundTypeOK, Waiting
<1>4. RoundSpec => IsCarriedOn(c)
  BY CallsAreCarriedOn
<1> QED
  BY <1>1, <1>2, <1>3, <1>4, RoundTypeCorrect, PTL
  DEF UnderAdvances, TimePasses, IsCarriedOn, RoundSpec

\* Every call returns, whatever agents, the Controller and other calls do and
\* whichever of its requests fail.  That it can always go on (CallCanGoOn) is
\* a hypothesis: it is a statement about ENABLED.
THEOREM EveryCallReturns == RoundSpec /\ []CallCanGoOn /\ TimePasses => CallsReturn
<1>1. ASSUME NEW c \in Call
      PROVE  RoundSpec /\ []CallCanGoOn /\ TimePasses => (at[c] # "idle" ~> at[c] \in Returned)
  <2>1. /\ UnderAdvances(c, 1) /\ UnderAdvances(c, 2) /\ UnderAdvances(c, 3)
        /\ UnderAdvances(c, 4) /\ UnderAdvances(c, 5)
    BY CallAdvances
  <2>2. /\ Under(c, 1 + 1) <=> Under(c, 2)
        /\ Under(c, 2 + 1) <=> Under(c, 3)
        /\ Under(c, 3 + 1) <=> Under(c, 4)
        /\ Under(c, 4 + 1) <=> Under(c, 5)
    OBVIOUS
  <2>3. RoundTypeOK => /\ ~Under(c, 5 + 1)
                       /\ at[c] # "idle" /\ ~(at[c] \in Returned) => Under(c, 1)
    BY StageType DEF StagesOK, Under
  <2>4. RoundTypeOK /\ RoundTypeOK' /\ [RoundNext]_roundVars /\ at[c] # "idle"
        => (at[c] # "idle")'
    BY StageStep
  <2> QED
    BY <2>1, <2>2, <2>3, <2>4, RoundTypeCorrect, PTL DEF UnderAdvances, RoundSpec
<1> QED BY <1>1 DEF CallsReturn
=============================================================================
