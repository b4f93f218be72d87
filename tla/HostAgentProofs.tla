--------------------------- MODULE HostAgentProofs ---------------------------
(***************************************************************************)
(* Lemmas about one step of the Host Agent, whatever the Controller        *)
(* answers.  SandboxProofs and RelayProofs build their theorems on them.   *)
(***************************************************************************)
EXTENDS HostAgent, TLAPS

Answer == {"ok", "refused", "unavailable"}
Ending == {"succeeded", "failed"}

\* Any step of the agent, and none.
LoopStep ==
    \/ Start \/ StartUnread \/ Crash \/ Refuse \/ Launch \/ Break
    \/ \E j \in Job : PollTask(j)
    \/ \E reply \in Answer : PostMem(reply) \/ Beat(reply) \/ PollEmpty(reply)
    \/ \E reply \in Answer, written \in BOOLEAN : PostKept(reply, written)
    \/ \E written \in BOOLEAN : Top(written) \/ Recall(written)
    \/ \E state \in Ending : FinishObservation(state)
    \/ \E state \in Ending, written \in BOOLEAN : FinishExecution(state, written)
    \/ UNCHANGED agentVars

-----------------------------------------------------------------------------
(* The inductive invariant behind OwesAtMostOne and RecordedIsNotRerun.     *)

\* Nothing of a stopped process is left in memory.
StoppedIsEmpty ==
    pc \in Stopped => mem = NoReport /\ delivery = NoTask /\ \A t \in Task : book[t] = NoEntry

\* While it runs, memory is ahead of the file: what the file still holds
\* undelivered is undelivered, and what it holds unexpired is in the book - up
\* to what the start could not read.
BookLeadsDisk ==
    pc \notin Stopped =>
        /\ Undelivered(disk) \ unread \subseteq Undelivered(book)
        /\ \A t \in Task \ unread : Current(disk)[t] # NoEntry => book[t] = disk[t]

\* Between the snapshot at the top and a post, the snapshot stays right.
SnapshotIsRight ==
    /\ pc = "postMem" =>
          /\ mem # NoReport
          /\ IF delivery = NoTask THEN Undelivered(book) = {} ELSE delivery \in Undelivered(book)
    /\ pc = "postKept" => mem = NoReport /\ delivery \in Undelivered(book)

\* Launch consulted the book, and nothing entered it since.
RunningIsUnknown == pc = "running" /\ JobPersistent => book[job.task] = NoEntry

LoopInv == StoppedIsEmpty /\ BookLeadsDisk /\ SnapshotIsRight /\ RunningIsUnknown /\ OwesAtMostOne

-----------------------------------------------------------------------------
(* Type correctness                                                        *)

\* Dropping what expired keeps the book a book.
LEMMA CurrentType ==
    ASSUME NEW b \in [Task -> Entry \cup {NoEntry}]
    PROVE  /\ Current(b) \in [Task -> Entry \cup {NoEntry}]
           /\ \A t \in Task : Current(b)[t] = b[t] \/ Current(b)[t] = NoEntry
BY DEF Current

\* A new record is of the state it was made for, and undelivered.
LEMMA NewEntryFacts ==
    ASSUME now \in Time, NEW state \in Ending, NEW entry \in NewEntries(state)
    PROVE  entry \in Entry /\ entry.state = state /\ ~entry.delivered /\ entry # NoEntry
<1> DEFINE swells == job.capability = "executor" /\ job.task \in Lengthy
<1>1. {FALSE, swells} \subseteq BOOLEAN
  OBVIOUS
<1>2. now + KeepFor \in Nat
  BY AgentTimesAssumption DEF Time
<1>3. entry \in [state : {state}, expires : {now + KeepFor}, delivered : {FALSE}, large : {FALSE, swells}]
  BY DEF NewEntries
<1> HIDE DEF swells
<1> QED BY <1>1, <1>2, <1>3, AbsenceAssumption DEF Entry, Ending

\* What is kept is reported in the wire form of a report.
LEMMA PayloadType ==
    ASSUME NEW t \in Task, NEW e \in Entry
    PROVE  PayloadOf(t, e) \in Pending /\ PayloadOf(t, e).task = t
BY DEF PayloadOf, Carried, VerdictOf, Pending, Verdict, Entry

\* The end of the process leaves an agent that stopped.
LEMMA DieType ==
    ASSUME NEW how \in Stopped, Die(how)
    PROVE  /\ pc' = how /\ pc' \in Place \ {"exec", "running"}
           /\ job' = NoJob /\ mem' = NoReport /\ delivery' = NoTask
           /\ book' = [t \in Task |-> NoEntry] /\ lastBeat' = 0 /\ lastBeat' \in Time
BY MaxTimeAssumption DEF Die, Stopped, Place, Time

\* The agent's variables stay well typed, whatever the Controller does.
LEMMA AgentTypeStep ==
    ASSUME AgentTypeOK, now \in Time, LoopStep
    PROVE  AgentTypeOK'
<1> USE DEF AgentTypeOK, bookVars, historyVars
<1>0. 0 \in Time /\ "down" \in Stopped /\ "halted" \in Stopped
  BY MaxTimeAssumption DEF Time, Stopped
<1>c. /\ Current(book) \in [Task -> Entry \cup {NoEntry}]
      /\ Current(disk) \in [Task -> Entry \cup {NoEntry}]
  BY CurrentType
<1>1. CASE Start
  BY <1>1, <1>0, <1>c DEF Start, Place, Stopped
<1>u. CASE StartUnread
  BY <1>u, <1>0 DEF StartUnread, OnDisk, Place, Stopped
<1>2. CASE Crash
  BY <1>2, <1>0, DieType DEF Crash
<1>3. CASE Refuse
  <2>1. job \in Job BY <1>3 DEF Refuse
  <2>2. JobReport("FAILED", Tagged) \in Pending
    BY <2>1 DEF JobReport, Tagged, Pending, Job, Verdict
  <2> QED BY <1>3, <2>2 DEF Refuse, Place
<1>4. CASE Launch
  <2>1. job \in Job BY <1>4 DEF Launch
  <2>2. job.task \in Task BY <2>1 DEF Job
  <2> QED BY <1>4, <2>2 DEF Launch, Place
<1>5. CASE Break
  <2>1. job \in Job BY <1>5 DEF Break
  <2>2. JobReport("FAILED", "none") \in Pending /\ job.task \in Task
    BY <2>1 DEF JobReport, Pending, Job, Verdict
  <2> QED BY <1>5, <2>2 DEF Break, Place, Outcome
<1>6. ASSUME NEW j \in Job, PollTask(j) PROVE AgentTypeOK'
  BY <1>6, AbsenceAssumption DEF PollTask, Place
<1>7. ASSUME NEW reply \in Answer, PostMem(reply) PROVE AgentTypeOK'
  <2>1. CASE reply = "ok"
    BY <1>7, <2>1 DEF PostMem, AfterMem, AfterPosts, Place
  <2>2. CASE reply = "unavailable"
    BY <1>7, <2>2 DEF PostMem, Place
  <2>3. CASE reply = "refused"
    BY <1>7, <2>3, <1>0, DieType DEF PostMem
  <2> QED BY <2>1, <2>2, <2>3 DEF Answer
<1>8. ASSUME NEW reply \in Answer, Beat(reply) PROVE AgentTypeOK'
  <2>1. CASE reply = "refused"
    BY <1>8, <2>1, <1>0, DieType DEF Beat
  <2>2. CASE reply # "refused"
    BY <1>8, <2>2 DEF Beat, Place
  <2> QED BY <2>1, <2>2
<1>9. ASSUME NEW reply \in Answer, PollEmpty(reply) PROVE AgentTypeOK'
  <2>1. CASE reply = "refused"
    BY <1>9, <2>1, <1>0, DieType DEF PollEmpty
  <2>2. CASE reply # "refused"
    BY <1>9, <2>2 DEF PollEmpty, Place
  <2> QED BY <2>1, <2>2
<1>10. ASSUME NEW reply \in Answer, NEW written \in BOOLEAN, PostKept(reply, written)
       PROVE  AgentTypeOK'
  <2>1. CASE reply = "ok" /\ written
    <3>1. delivery \in Undelivered(book) BY <1>10, <2>1 DEF PostKept
    <3>2. delivery \in Task /\ book[delivery] \in Entry BY <3>1 DEF Undelivered
    <3>3. [book EXCEPT ![delivery].delivered = TRUE] \in [Task -> Entry \cup {NoEntry}]
      BY <3>2 DEF Entry
    <3>4. Confirmed(delivery) \in [Task -> Entry \cup {NoEntry}]
      BY <3>3, CurrentType DEF Confirmed
    <3> QED BY <1>10, <2>1, <3>4 DEF PostKept, AfterPosts, Place
  <2>2. CASE reply = "ok" /\ ~written
    BY <1>10, <2>2, <1>0, DieType DEF PostKept
  <2>3. CASE reply = "unavailable"
    BY <1>10, <2>3 DEF PostKept, Place
  <2>4. CASE reply = "refused"
    BY <1>10, <2>4, <1>0, DieType DEF PostKept
  <2> QED BY <2>1, <2>2, <2>3, <2>4 DEF Answer
<1>11. ASSUME NEW written \in BOOLEAN, Top(written) PROVE AgentTypeOK'
  <2>1. CASE written
    <3>1. delivery' \in Task \cup {NoTask}
      BY <1>11, <2>1 DEF Top, Undelivered
    <3>2. pc' \in {"postMem", "postKept", "beat", "poll"}
      BY <1>11, <2>1 DEF Top, AfterMem, AfterPosts
    <3> QED BY <1>11, <2>1, <3>1, <3>2, <1>c DEF Top, DropExpired, Place
  <2>2. CASE ~written
    BY <1>11, <2>2, <1>0, DieType DEF Top, CannotDrop
  <2> QED BY <2>1, <2>2
<1>12. ASSUME NEW written \in BOOLEAN, Recall(written) PROVE AgentTypeOK'
  <2>1. CASE written
    <3>1. job \in Job /\ book[job.task] # NoEntry BY <1>12 DEF Recall
    <3>2. KeptReport(job.task) \in Pending
      BY <3>1, PayloadType DEF KeptReport, Job
    <3> QED BY <1>12, <2>1, <3>2, <1>c DEF Recall, DropExpired, Place
  <2>2. CASE ~written
    BY <1>12, <2>2, <1>0, DieType DEF Recall, CannotDrop
  <2> QED BY <2>1, <2>2
<1>13. ASSUME NEW state \in Ending, FinishObservation(state) PROVE AgentTypeOK'
  <2>1. job \in Job BY <1>13 DEF FinishObservation
  <2>2. /\ \A result \in {"none", "plain", "large"} : JobReport(VerdictOf(state), result) \in Pending
        /\ job.task \in Task
    BY <2>1 DEF JobReport, VerdictOf, Pending, Job, Verdict
  <2> QED BY <1>13, <2>2 DEF FinishObservation, Place, Outcome, Ending
<1>14. ASSUME NEW state \in Ending, NEW written \in BOOLEAN, FinishExecution(state, written)
       PROVE  AgentTypeOK'
  <2>1. job \in Job BY <1>14 DEF FinishExecution
  <2>2. JobReport("FAILED", "none") \in Pending /\ job.task \in Task
    BY <2>1 DEF JobReport, Pending, Job, Verdict
  <2>3. PICK entry \in NewEntries(state) : book' = Current([book EXCEPT ![job.task] = entry])
    BY <1>14 DEF FinishExecution
  <2>4. book' \in [Task -> Entry \cup {NoEntry}]
    BY <2>2, <2>3, NewEntryFacts, CurrentType
  <2>5. disk' \in [Task -> Entry \cup {NoEntry}] /\ mem' \in Pending \cup {NoReport}
    BY <1>14, <2>2, <2>4 DEF FinishExecution
  <2> QED BY <1>14, <2>2, <2>4, <2>5 DEF FinishExecution, Place, Outcome, Ending
<1>15. CASE UNCHANGED agentVars
  BY <1>15 DEF agentVars
<1> QED
  BY <1>1, <1>u, <1>2, <1>3, <1>4, <1>5, <1>6, <1>7, <1>8, <1>9, <1>10, <1>11, <1>12, <1>13,
     <1>14, <1>15 DEF LoopStep

-----------------------------------------------------------------------------
(* One undelivered result                                                  *)

\* Dropping what expired adds nothing, and dropping twice drops no more.
LEMMA CurrentFacts ==
    ASSUME NEW b \in [Task -> Entry \cup {NoEntry}], NEW t \in Task
    PROVE  /\ Current(b)[t] # NoEntry => b[t] = Current(b)[t]
           /\ Current(Current(b))[t] = Current(b)[t]
           /\ t \in Undelivered(Current(b)) => t \in Undelivered(b)
BY DEF Current, Undelivered

\* The end of the process leaves the file as it was.
LEMMA DieInv ==
    ASSUME AgentTypeOK, LoopInv, NEW how \in Stopped, Die(how), UNCHANGED <<disk, unread>>
    PROVE  LoopInv'
<1>1. /\ pc' \in Stopped /\ pc' \notin {"beat", "poll", "exec", "running", "postMem", "postKept"}
      /\ mem' = NoReport /\ delivery' = NoTask /\ \A t \in Task : book'[t] = NoEntry
  BY DieType DEF Stopped
<1>2. StoppedIsEmpty' /\ BookLeadsDisk' /\ SnapshotIsRight' /\ RunningIsUnknown'
  BY <1>1 DEF StoppedIsEmpty, BookLeadsDisk, SnapshotIsRight, RunningIsUnknown
<1>3. Undelivered(book)' = {} /\ Undelivered(disk)' = Undelivered(disk)
  BY <1>1 DEF Undelivered
<1>4. OwesAtMostOne'
  BY <1>1, <1>3 DEF LoopInv, OwesAtMostOne
<1> QED
  BY <1>2, <1>4 DEF LoopInv

\* A step that leaves the agent's records alone keeps what LoopInv says of
\* them: what remains is where the loop goes and what it owes.
LEMMA SameRecords ==
    ASSUME LoopInv, UNCHANGED <<book, disk, unread, now>>, pc \notin Stopped, pc' \notin Stopped
    PROVE  /\ StoppedIsEmpty' /\ BookLeadsDisk'
           /\ Undelivered(book)' = Undelivered(book)
           /\ Undelivered(disk)' = Undelivered(disk)
<1>1. StoppedIsEmpty'
  BY DEF StoppedIsEmpty
<1>2. /\ Undelivered(book)' = Undelivered(book) /\ Undelivered(disk)' = Undelivered(disk)
      /\ Current(disk)' = Current(disk)
  BY DEF Undelivered, Current
<1>3. BookLeadsDisk'
  BY <1>2 DEF LoopInv, BookLeadsDisk
<1> QED
  BY <1>1, <1>2, <1>3

\* Dropping what expired, when it is written.
LEMMA DropRecords ==
    ASSUME AgentTypeOK, LoopInv, DropExpired, UNCHANGED <<unread, now>>, pc \notin Stopped, pc' \notin Stopped
    PROVE  /\ StoppedIsEmpty' /\ BookLeadsDisk'
           /\ Undelivered(book)' = Undelivered(Current(book))
           /\ Undelivered(book)' \subseteq Undelivered(book)
           /\ Undelivered(disk)' \ unread \subseteq Undelivered(book)
           /\ Undelivered(disk)' \subseteq Undelivered(book) \/ disk' = disk
<1>0. book \in [Task -> Entry \cup {NoEntry}] /\ disk \in [Task -> Entry \cup {NoEntry}]
  BY DEF AgentTypeOK
<1>1. StoppedIsEmpty'
  BY DEF StoppedIsEmpty
<1>2. Undelivered(book)' = Undelivered(Current(book))
  BY DEF DropExpired, Undelivered
<1>3. Undelivered(Current(book)) \subseteq Undelivered(book)
  BY <1>0 DEF Current, Undelivered
<1>4. CASE Current(book) # book
  <2>1. book' = Current(book) /\ disk' = Current(book)
    BY <1>4 DEF DropExpired
  <2>2. Undelivered(disk)' = Undelivered(book)'
    BY <2>1 DEF Undelivered
  <2>3. \A t \in Task : Current(disk)'[t] # NoEntry => book'[t] = disk'[t]
    BY <2>1
  <2> QED BY <1>1, <1>2, <1>3, <2>2, <2>3 DEF BookLeadsDisk
<1>5. CASE Current(book) = book
  BY <1>1, <1>2, <1>3, <1>5, SameRecords DEF DropExpired, LoopInv, BookLeadsDisk
<1> QED
  BY <1>4, <1>5

\* The inductive invariant is kept by every step, whatever the Controller does.
LEMMA LoopInvStep ==
    ASSUME AgentTypeOK, LoopInv, LoopStep, now \in Time, now' = now
    PROVE  LoopInv'
<1> USE DEF Answer, bookVars, historyVars
<1>0. /\ book \in [Task -> Entry \cup {NoEntry}] /\ disk \in [Task -> Entry \cup {NoEntry}]
      /\ delivery \in Task \cup {NoTask} /\ NoTask \notin Task
      /\ "down" \in Stopped /\ "halted" \in Stopped
  BY NoTaskAssumption DEF AgentTypeOK, Stopped
<1>s. ASSUME UNCHANGED <<book, disk, unread>>, pc \notin Stopped, pc' \notin Stopped,
             SnapshotIsRight', RunningIsUnknown',
             mem' = mem \/ Undelivered(book) = {} \/ mem' = NoReport,
             pc' \in {"beat", "poll", "exec", "running"} =>
                 mem' = NoReport /\ Undelivered(book) = {}
      PROVE  LoopInv'
  <2>1. OwesAtMostOne'
    BY <1>s, SameRecords DEF LoopInv, OwesAtMostOne
  <2> QED BY <1>s, <2>1, SameRecords DEF LoopInv
<1>1. CASE Start
  <2>1. book' = Current(disk) /\ disk' = Current(disk) /\ mem' = mem /\ pc' = "top" /\ mem = NoReport
    BY <1>1 DEF Start, LoopInv, StoppedIsEmpty
  <2>2. Undelivered(Current(disk)) \subseteq Undelivered(disk)
    BY <1>0 DEF Current, Undelivered
  <2>3. Undelivered(book)' = Undelivered(Current(disk)) /\ Undelivered(disk)' = Undelivered(Current(disk))
    BY <2>1 DEF Undelivered
  <2>4. OwesAtMostOne'
    BY <2>1, <2>2, <2>3 DEF LoopInv, OwesAtMostOne
  <2>5. StoppedIsEmpty' /\ BookLeadsDisk' /\ SnapshotIsRight' /\ RunningIsUnknown'
    BY <2>1, <2>3 DEF Stopped, StoppedIsEmpty, BookLeadsDisk, SnapshotIsRight, RunningIsUnknown
  <2> QED BY <2>4, <2>5 DEF LoopInv
<1>u. CASE StartUnread
  <2>1. /\ UNCHANGED <<book, disk, mem, delivery>> /\ pc' = "top" /\ mem = NoReport
        /\ unread' = OnDisk(disk) /\ \A t \in Task : book[t] = NoEntry
    BY <1>u DEF StartUnread, LoopInv, StoppedIsEmpty
  <2>2. /\ Undelivered(book)' = {} /\ Undelivered(disk)' = Undelivered(disk)
        /\ Undelivered(disk)' \ unread' = {}
    BY <2>1 DEF Undelivered, OnDisk
  <2>3. OwesAtMostOne'
    BY <2>1, <2>2 DEF LoopInv, OwesAtMostOne
  <2>4. \A t \in Task \ unread' : Current(disk)'[t] = NoEntry
    BY <2>1 DEF Current, OnDisk
  <2>5. StoppedIsEmpty' /\ BookLeadsDisk' /\ SnapshotIsRight' /\ RunningIsUnknown'
    BY <2>1, <2>2, <2>4 DEF Stopped, StoppedIsEmpty, BookLeadsDisk, SnapshotIsRight, RunningIsUnknown
  <2> QED BY <2>3, <2>5 DEF LoopInv
<1>2. CASE Crash
  BY <1>0, <1>2, DieInv DEF Crash
<1>3. CASE Refuse \/ Break
  <2>1. /\ pc \in {"exec", "running"} /\ pc' = "top" /\ UNCHANGED <<book, disk, unread>>
        /\ Undelivered(book) = {}
    BY <1>3 DEF Refuse, Break, LoopInv, OwesAtMostOne
  <2>2. SnapshotIsRight' /\ RunningIsUnknown'
    BY <2>1 DEF SnapshotIsRight, RunningIsUnknown
  <2> QED BY <1>s, <2>1, <2>2 DEF Stopped
<1>4. CASE Launch
  <2>1. /\ pc = "exec" /\ pc' = "running" /\ UNCHANGED <<book, disk, unread, job, mem>>
        /\ mem = NoReport /\ Undelivered(book) = {}
        /\ JobPersistent => book[job.task] = NoEntry
    BY <1>4 DEF Launch, LoopInv, OwesAtMostOne
  <2>2. SnapshotIsRight' /\ RunningIsUnknown'
    BY <2>1 DEF SnapshotIsRight, RunningIsUnknown, JobPersistent
  <2> QED BY <1>s, <2>1, <2>2 DEF Stopped
<1>5. ASSUME NEW j \in Job, PollTask(j) PROVE LoopInv'
  <2>1. /\ pc = "poll" /\ pc' = "exec" /\ UNCHANGED <<book, disk, unread, mem>>
        /\ mem = NoReport /\ Undelivered(book) = {}
    BY <1>5 DEF PollTask, LoopInv, OwesAtMostOne
  <2>2. SnapshotIsRight' /\ RunningIsUnknown'
    BY <2>1 DEF SnapshotIsRight, RunningIsUnknown
  <2> QED BY <1>s, <2>1, <2>2 DEF Stopped
<1>6. ASSUME NEW reply \in Answer, PostMem(reply) PROVE LoopInv'
  <2>0. pc = "postMem" /\ UNCHANGED <<disk, unread>>
    BY <1>6 DEF PostMem
  <2>1. CASE reply = "ok"
    <3>1. /\ pc' = AfterMem(delivery) /\ mem' = NoReport /\ UNCHANGED <<book, delivery>>
          /\ IF delivery = NoTask THEN Undelivered(book) = {} ELSE delivery \in Undelivered(book)
      BY <1>6, <2>0, <2>1 DEF PostMem, LoopInv, SnapshotIsRight
    <3>2. /\ pc' \in {"postKept", "beat", "poll"}
          /\ pc' = "postKept" => delivery # NoTask
          /\ pc' \in {"beat", "poll"} => Undelivered(book) = {}
      BY <3>1 DEF AfterMem, AfterPosts
    <3>3. Undelivered(book)' = Undelivered(book)
      BY <3>1 DEF Undelivered
    <3>4. SnapshotIsRight' /\ RunningIsUnknown'
      BY <3>1, <3>2, <3>3 DEF SnapshotIsRight, RunningIsUnknown
    <3> QED BY <1>s, <2>0, <3>1, <3>2, <3>4 DEF Stopped
  <2>2. CASE reply = "unavailable"
    <3>1. pc' = "top" /\ UNCHANGED <<book, mem>>
      BY <1>6, <2>2 DEF PostMem
    <3>2. SnapshotIsRight' /\ RunningIsUnknown'
      BY <3>1 DEF SnapshotIsRight, RunningIsUnknown
    <3> QED BY <1>s, <2>0, <3>1, <3>2 DEF Stopped
  <2>3. CASE reply = "refused"
    BY <1>0, <1>6, <2>3, DieInv DEF PostMem
  <2> QED BY <2>1, <2>2, <2>3
<1>7. ASSUME NEW reply \in Answer, Beat(reply) \/ PollEmpty(reply) PROVE LoopInv'
  <2>0. /\ pc \in {"beat", "poll"} /\ UNCHANGED <<disk, unread>>
        /\ mem = NoReport /\ Undelivered(book) = {}
    BY <1>7 DEF Beat, PollEmpty, LoopInv, OwesAtMostOne
  <2>1. CASE reply = "refused"
    BY <1>0, <1>7, <2>1, DieInv DEF Beat, PollEmpty
  <2>2. CASE reply # "refused"
    <3>1. pc' \in {"top", "poll"} /\ UNCHANGED <<book, mem>>
      BY <1>7, <2>2 DEF Beat, PollEmpty
    <3>2. SnapshotIsRight' /\ RunningIsUnknown'
      BY <3>1 DEF SnapshotIsRight, RunningIsUnknown
    <3> QED BY <1>s, <2>0, <3>1, <3>2 DEF Stopped
  <2> QED BY <2>1, <2>2
<1>8. ASSUME NEW reply \in Answer, NEW written \in BOOLEAN, PostKept(reply, written)
      PROVE  LoopInv'
  <2>0. pc = "postKept" /\ mem = NoReport /\ delivery \in Undelivered(book) /\ unread' = unread
    BY <1>8 DEF PostKept, LoopInv, SnapshotIsRight
  <2>1. CASE reply = "ok" /\ written
    <3> DEFINE ticked == [book EXCEPT ![delivery].delivered = TRUE]
    <3>1. /\ book' = Current(ticked) /\ disk' = Current(ticked)
          /\ mem' = NoReport /\ pc' = AfterPosts
      BY <1>8, <2>0, <2>1 DEF PostKept, Confirmed
    <3>2. delivery \in Task /\ book[delivery] \in Entry
      BY <1>0, <2>0 DEF Undelivered
    <3>3. \A t \in Undelivered(book) : t = delivery
      BY <2>0 DEF LoopInv, OwesAtMostOne
    <3>4. ticked \in [Task -> Entry \cup {NoEntry}] /\ ticked[delivery].delivered
      BY <1>0, <3>2 DEF Entry
    <3>5. Undelivered(ticked) = {}
      BY <1>0, <3>2, <3>3, <3>4 DEF Undelivered
    <3>6. Undelivered(Current(ticked)) = {}
      BY <3>4, <3>5 DEF Current, Undelivered
    <3>7. Undelivered(book)' = {} /\ Undelivered(disk)' = {}
      BY <3>1, <3>6 DEF Undelivered
    <3>8. pc' \in {"beat", "poll"}
      BY <3>1 DEF AfterPosts
    <3>9. StoppedIsEmpty' /\ BookLeadsDisk' /\ SnapshotIsRight' /\ RunningIsUnknown'
      BY <3>1, <3>7, <3>8
      DEF Stopped, StoppedIsEmpty, BookLeadsDisk, SnapshotIsRight, RunningIsUnknown
    <3>10. OwesAtMostOne'
      BY <3>1, <3>7 DEF OwesAtMostOne
    <3> QED BY <3>9, <3>10 DEF LoopInv
  <2>2. CASE reply = "ok" /\ ~written
    BY <1>0, <1>8, <2>2, DieInv DEF PostKept
  <2>3. CASE reply = "unavailable"
    <3>1. pc' = "top" /\ UNCHANGED <<book, disk, mem>>
      BY <1>8, <2>3 DEF PostKept
    <3>2. SnapshotIsRight' /\ RunningIsUnknown'
      BY <3>1 DEF SnapshotIsRight, RunningIsUnknown
    <3> QED BY <1>s, <2>0, <3>1, <3>2 DEF Stopped
  <2>4. CASE reply = "refused"
    BY <1>0, <1>8, <2>4, DieInv DEF PostKept
  <2> QED BY <2>1, <2>2, <2>3, <2>4
<1>9. ASSUME NEW written \in BOOLEAN, Top(written) PROVE LoopInv'
  <2>0. pc = "top" BY <1>9 DEF Top
  <2>1. CASE written
    <3>1. /\ DropExpired /\ UNCHANGED <<mem, unread>>
          /\ \/ delivery' \in Undelivered(Current(book))
             \/ Undelivered(Current(book)) = {} /\ delivery' = NoTask
          /\ pc' = IF mem # NoReport THEN "postMem" ELSE AfterMem(delivery')
      BY <1>9, <2>1 DEF Top
    <3>2. /\ pc' \in {"postMem", "postKept", "beat", "poll"}
          /\ pc' = "postMem" <=> mem # NoReport
          /\ pc' = "postKept" => delivery' # NoTask
          /\ pc' \in {"beat", "poll"} => delivery' = NoTask
      BY <3>1 DEF AfterMem, AfterPosts
    <3>3. /\ StoppedIsEmpty' /\ BookLeadsDisk'
          /\ Undelivered(book)' = Undelivered(Current(book))
          /\ Undelivered(book)' \subseteq Undelivered(book)
          /\ Undelivered(disk)' \ unread \subseteq Undelivered(book)
          /\ Undelivered(disk)' \subseteq Undelivered(book) \/ disk' = disk
      BY <2>0, <3>1, <3>2, DropRecords DEF Stopped
    <3>4. NoTask \notin Undelivered(book)'
      BY <1>0 DEF Undelivered
    <3>5. SnapshotIsRight'
      BY <3>1, <3>2, <3>3, <3>4 DEF SnapshotIsRight
    <3>6. RunningIsUnknown'
      BY <3>2 DEF RunningIsUnknown
    <3>7. \A t, u \in Undelivered(disk)' : t = u
      BY <3>3 DEF LoopInv, OwesAtMostOne, Undelivered
    <3>8. OwesAtMostOne'
      BY <3>1, <3>2, <3>3, <3>4, <3>7 DEF LoopInv, OwesAtMostOne
    <3> QED BY <3>3, <3>5, <3>6, <3>8 DEF LoopInv
  <2>2. CASE ~written
    BY <1>0, <1>9, <2>2, DieInv DEF Top, CannotDrop
  <2> QED BY <2>1, <2>2
<1>10. ASSUME NEW written \in BOOLEAN, Recall(written) PROVE LoopInv'
  <2>0. pc = "exec" /\ mem = NoReport /\ Undelivered(book) = {}
    BY <1>10 DEF Recall, LoopInv, OwesAtMostOne
  <2>1. CASE written
    <3>1. DropExpired /\ pc' = "top" /\ unread' = unread
      BY <1>10, <2>1 DEF Recall
    <3>2. /\ StoppedIsEmpty' /\ BookLeadsDisk'
          /\ Undelivered(book)' = {} /\ Undelivered(disk)' \ unread' = {}
          /\ \A t, u \in Undelivered(disk)' : t = u
      BY <2>0, <3>1, DropRecords DEF Stopped, LoopInv, OwesAtMostOne, Undelivered
    <3>3. SnapshotIsRight' /\ RunningIsUnknown' /\ OwesAtMostOne'
      BY <3>1, <3>2 DEF SnapshotIsRight, RunningIsUnknown, OwesAtMostOne
    <3> QED BY <3>2, <3>3 DEF LoopInv
  <2>2. CASE ~written
    BY <1>0, <1>10, <2>2, DieInv DEF Recall, CannotDrop
  <2> QED BY <2>1, <2>2
<1>11. ASSUME NEW state \in Ending, FinishObservation(state) PROVE LoopInv'
  <2>1. /\ pc = "running" /\ pc' = "top" /\ UNCHANGED <<book, disk, unread>>
        /\ Undelivered(book) = {}
    BY <1>11 DEF FinishObservation, LoopInv, OwesAtMostOne
  <2>2. SnapshotIsRight' /\ RunningIsUnknown'
    BY <2>1 DEF SnapshotIsRight, RunningIsUnknown
  <2> QED BY <1>s, <2>1, <2>2 DEF Stopped
<1>12. ASSUME NEW state \in Ending, NEW written \in BOOLEAN, FinishExecution(state, written)
       PROVE  LoopInv'
  <2>e. PICK entry \in NewEntries(state) : book' = Current([book EXCEPT ![job.task] = entry])
    BY <1>12 DEF FinishExecution
  <2> DEFINE noted == [book EXCEPT ![job.task] = entry]
  <2>1. /\ pc = "running" /\ pc' = "top" /\ JobPersistent /\ unread' = unread
        /\ mem = NoReport /\ Undelivered(book) = {} /\ Undelivered(disk) \ unread = {}
        /\ book' = Current(noted)
        /\ IF written THEN disk' = book' /\ mem' = mem
           ELSE mem' = JobReport("FAILED", "none") /\ disk' = disk
    BY <1>12, <2>e DEF FinishExecution, LoopInv, OwesAtMostOne, BookLeadsDisk, Stopped
  <2>2. job.task \in Task
    BY <2>1 DEF AgentTypeOK, Job
  <2>3. book[job.task] = NoEntry
    BY <2>1 DEF LoopInv, RunningIsUnknown
  <2>4. noted[job.task] = entry /\ entry \in Entry
    BY <1>0, <2>2, NewEntryFacts
  <2>5. Undelivered(noted) \subseteq {job.task}
    BY <1>0, <2>1, <2>2 DEF Undelivered
  <2>6. Undelivered(Current(noted)) \subseteq Undelivered(noted)
    BY DEF Current, Undelivered
  <2>7. /\ Undelivered(book)' \subseteq {job.task}
        /\ Undelivered(disk)' \ unread' \subseteq Undelivered(book)'
        /\ Undelivered(disk)' \subseteq Undelivered(book)' \/ Undelivered(disk)' = Undelivered(disk)
    BY <2>1, <2>5, <2>6 DEF Undelivered
  <2>8. BookLeadsDisk'
    <3>1. CASE written
      BY <2>1, <2>7, <3>1 DEF BookLeadsDisk
    <3>2. ASSUME ~written, NEW t \in Task \ unread', Current(disk)'[t] # NoEntry
          PROVE  book'[t] = disk'[t]
      <4>1. disk' = disk /\ Current(disk)[t] # NoEntry /\ disk[t] # NoEntry /\ disk[t].expires > now
        BY <2>1, <3>2 DEF Current
      <4>2. book[t] = disk[t]
        BY <2>1, <4>1 DEF LoopInv, BookLeadsDisk, Stopped
      <4>3. t # job.task
        BY <2>3, <4>1, <4>2
      <4>4. noted[t] = book[t]
        BY <1>0, <4>3
      <4> QED BY <2>1, <4>1, <4>2, <4>4 DEF Current
    <3> QED BY <2>7, <3>1, <3>2 DEF BookLeadsDisk
  <2>9. StoppedIsEmpty' /\ SnapshotIsRight' /\ RunningIsUnknown'
    BY <2>1 DEF Stopped, StoppedIsEmpty, SnapshotIsRight, RunningIsUnknown
  <2>10. mem' # NoReport => mem'.task = job.task
    BY <2>1 DEF JobReport
  <2>11. \A t, u \in Undelivered(disk)' : t = u
    BY <2>7 DEF LoopInv, OwesAtMostOne
  <2>12. OwesAtMostOne'
    BY <2>1, <2>7, <2>10, <2>11 DEF OwesAtMostOne
  <2> QED BY <2>8, <2>9, <2>12 DEF LoopInv
<1>13. CASE UNCHANGED agentVars
  <2>1. Current(disk)' = Current(disk)
    BY <1>13 DEF agentVars, Current
  <2> QED
    BY <1>13, <2>1 DEF agentVars, LoopInv, StoppedIsEmpty, BookLeadsDisk, SnapshotIsRight,
       RunningIsUnknown, OwesAtMostOne, Undelivered, JobPersistent
<1> QED
  BY <1>1, <1>u, <1>2, <1>3, <1>4, <1>5, <1>6, <1>7, <1>8, <1>9, <1>10, <1>11, <1>12, <1>13
  DEF LoopStep

\* Time only lets records expire.
LEMMA LoopInvTick ==
    ASSUME LoopInv, AgentTypeOK, now \in Time, Tick, UNCHANGED agentVars
    PROVE  AgentTypeOK' /\ LoopInv'
<1>1. AgentTypeOK'
  BY DEF agentVars, AgentTypeOK
<1>2. Undelivered(book)' = Undelivered(book) /\ Undelivered(disk)' = Undelivered(disk)
  BY DEF agentVars, Undelivered
<1>3. \A t \in Task : Current(disk)'[t] # NoEntry => Current(disk)[t] # NoEntry
  <2> SUFFICES ASSUME NEW t \in Task, Current(disk)'[t] # NoEntry
               PROVE  Current(disk)[t] # NoEntry
    OBVIOUS
  <2>1. disk[t] # NoEntry /\ disk[t].expires > now' /\ now' = now + 1
    BY DEF Current, agentVars, Tick
  <2>2. disk[t].expires > now
    <3>1. disk[t].expires \in Nat /\ now \in Nat
      BY <2>1, MaxTimeAssumption DEF AgentTypeOK, Entry, Time
    <3> QED BY <2>1, <3>1
  <2> QED BY <2>1, <2>2 DEF Current
<1>4. LoopInv'
  BY <1>2, <1>3 DEF agentVars, LoopInv, StoppedIsEmpty, BookLeadsDisk, SnapshotIsRight,
     RunningIsUnknown, OwesAtMostOne, JobPersistent
<1> QED
  BY <1>1, <1>4

-----------------------------------------------------------------------------
(* Where jobs, starts and records come from                                *)

\* A job only comes from a poll; work is only started by Launch.
LEMMA JobSource ==
    ASSUME LoopStep
    PROVE  /\ job' = job \/ job' = NoJob \/ \E j \in Job : PollTask(j)
           /\ starts' = starts \/ Launch
<1> USE DEF historyVars
<1>1. CASE Start \/ StartUnread \/ Crash \/ Refuse \/ Launch \/ Break
  BY <1>1 DEF Start, StartUnread, Crash, Refuse, Launch, Break, Die
<1>2. CASE \E j \in Job : PollTask(j)
  BY <1>2 DEF PollTask
<1>3. CASE \E reply \in Answer : PostMem(reply) \/ Beat(reply) \/ PollEmpty(reply)
  BY <1>3 DEF PostMem, Beat, PollEmpty, Die
<1>4. CASE \E reply \in Answer, written \in BOOLEAN : PostKept(reply, written)
  BY <1>4 DEF PostKept, Die
<1>5. CASE \E written \in BOOLEAN : Top(written) \/ Recall(written)
  BY <1>5 DEF Top, Recall, CannotDrop, Die
<1>6. CASE \E state \in Ending : FinishObservation(state)
  BY <1>6 DEF FinishObservation
<1>7. CASE \E state \in Ending, written \in BOOLEAN : FinishExecution(state, written)
  BY <1>7 DEF FinishExecution
<1>8. CASE UNCHANGED agentVars
  BY <1>8 DEF agentVars
<1> QED
  BY <1>1, <1>2, <1>3, <1>4, <1>5, <1>6, <1>7, <1>8 DEF LoopStep

\* What a step does to the records.
LEMMA BookStep ==
    ASSUME LoopStep
    PROVE  \/ UNCHANGED <<book, disk>>
           \/ disk' = disk /\ \A t \in Task : book'[t] = NoEntry
           \/ DropExpired \/ Start
           \/ /\ pc = "postKept" /\ delivery \in Undelivered(book)
              /\ book' = Confirmed(delivery) /\ disk' = Confirmed(delivery)
           \/ \E state \in Ending, written \in BOOLEAN : FinishExecution(state, written)
<1> USE DEF bookVars
<1>1. CASE StartUnread \/ Crash \/ Refuse \/ Launch \/ Break
  BY <1>1 DEF StartUnread, Crash, Refuse, Launch, Break, Die
<1>2. CASE \E j \in Job : PollTask(j)
  BY <1>2 DEF PollTask
<1>3. CASE \E reply \in Answer : PostMem(reply) \/ Beat(reply) \/ PollEmpty(reply)
  BY <1>3 DEF PostMem, Beat, PollEmpty, Die
<1>4. CASE \E reply \in Answer, written \in BOOLEAN : PostKept(reply, written)
  BY <1>4 DEF PostKept, Die
<1>5. CASE \E written \in BOOLEAN : Top(written) \/ Recall(written)
  BY <1>5 DEF Top, Recall, CannotDrop, Die
<1>6. CASE \E state \in Ending : FinishObservation(state)
  BY <1>6 DEF FinishObservation
<1>7. CASE UNCHANGED agentVars
  BY <1>7 DEF agentVars
<1> QED
  BY <1>1, <1>2, <1>3, <1>4, <1>5, <1>6, <1>7 DEF LoopStep

\* A stopped process does nothing but start.
LEMMA StoppedOnlyStarts ==
    ASSUME LoopStep, pc \in Stopped
    PROVE  Start \/ StartUnread \/ UNCHANGED agentVars
<1> USE DEF Stopped
<1>1. ~(Crash \/ Refuse \/ Launch \/ Break)
  BY DEF Crash, Refuse, Launch, Break
<1>2. \A j \in Job : ~PollTask(j)
  BY DEF PollTask
<1>3. \A reply \in Answer : ~(PostMem(reply) \/ Beat(reply) \/ PollEmpty(reply))
  BY DEF PostMem, Beat, PollEmpty
<1>4. \A reply \in Answer, written \in BOOLEAN : ~PostKept(reply, written)
  BY DEF PostKept
<1>5. \A written \in BOOLEAN : ~(Top(written) \/ Recall(written))
  BY DEF Top, Recall
<1>6. \A state \in Ending : ~FinishObservation(state)
  BY DEF FinishObservation
<1>7. \A state \in Ending, written \in BOOLEAN : ~FinishExecution(state, written)
  BY DEF FinishExecution
<1> QED
  BY <1>1, <1>2, <1>3, <1>4, <1>5, <1>6, <1>7 DEF LoopStep

\* A record is only made when an execution ends.
LEMMA RecordSource ==
    ASSUME AgentTypeOK, LoopStep, NEW t \in Task,
           book'[t] # NoEntry \/ disk'[t] # NoEntry
    PROVE  \/ book[t] # NoEntry \/ disk[t] # NoEntry
           \/ pc = "running" /\ JobPersistent /\ job.task = t /\ outcome'[t] # "none"
<1>0. /\ book \in [Task -> Entry \cup {NoEntry}] /\ disk \in [Task -> Entry \cup {NoEntry}]
  BY DEF AgentTypeOK
<1>1. CASE UNCHANGED <<book, disk>>
  BY <1>1
<1>2. CASE disk' = disk /\ \A u \in Task : book'[u] = NoEntry
  BY <1>2
<1>3. CASE DropExpired
  BY <1>0, <1>3, CurrentType DEF DropExpired
<1>4. CASE Start
  BY <1>0, <1>4, CurrentType DEF Start
<1>5. ASSUME delivery \in Undelivered(book), book' = Confirmed(delivery), disk' = Confirmed(delivery)
      PROVE  book[t] # NoEntry
  BY <1>0, <1>5 DEF Confirmed, Current, Undelivered
<1>6. ASSUME NEW state \in Ending, NEW written \in BOOLEAN, FinishExecution(state, written)
      PROVE  \/ book[t] # NoEntry \/ disk[t] # NoEntry
             \/ pc = "running" /\ JobPersistent /\ job.task = t /\ outcome'[t] # "none"
  <2>1. CASE t = job.task
    BY <1>6, <2>1 DEF FinishExecution, AgentTypeOK, Ending
  <2>2. CASE t # job.task
    <3>e. PICK entry \in NewEntries(state) : book' = Current([book EXCEPT ![job.task] = entry])
      BY <1>6 DEF FinishExecution
    <3> DEFINE noted == [book EXCEPT ![job.task] = entry]
    <3>1. noted[t] = book[t]
      BY <1>0, <2>2
    <3>2. Current(noted)[t] # NoEntry => book[t] # NoEntry
      BY <3>1 DEF Current
    <3>3. book' = Current(noted) /\ (disk' = book' \/ disk' = disk)
      BY <1>6, <3>e DEF FinishExecution
    <3> HIDE DEF noted
    <3> QED BY <3>2, <3>3
  <2> QED BY <2>1, <2>2
<1>7. \/ UNCHANGED <<book, disk>>
      \/ disk' = disk /\ \A u \in Task : book'[u] = NoEntry
      \/ DropExpired \/ Start
      \/ /\ delivery \in Undelivered(book)
         /\ book' = Confirmed(delivery) /\ disk' = Confirmed(delivery)
      \/ \E state \in Ending, written \in BOOLEAN : FinishExecution(state, written)
  BY BookStep
<1> QED
  BY <1>1, <1>2, <1>3, <1>4, <1>5, <1>6, <1>7

\* What a step makes of a record on disk that has not expired.
LEMMA RecordStep ==
    ASSUME AgentTypeOK, LoopInv, LoopStep, NEW t \in Task \ unread,
           disk[t] # NoEntry, disk[t].expires > now
    PROVE  \/ disk'[t] = NoEntry
           \/ /\ disk'[t].state = disk[t].state /\ disk'[t].large = disk[t].large
              /\ disk[t].delivered => disk'[t].delivered
<1>0. /\ book \in [Task -> Entry \cup {NoEntry}] /\ disk \in [Task -> Entry \cup {NoEntry}]
  BY DEF AgentTypeOK
<1>1. CASE UNCHANGED disk
  BY <1>1
<1>2. CASE DropExpired /\ pc \notin Stopped
  <2>1. book[t] = disk[t]
    BY <1>2 DEF LoopInv, BookLeadsDisk, Current
  <2>2. disk'[t] = NoEntry \/ disk'[t] = book[t] \/ disk'[t] = disk[t]
    BY <1>0, <1>2, CurrentType DEF DropExpired
  <2> QED BY <2>1, <2>2
<1>3. CASE Start
  BY <1>0, <1>3, CurrentType DEF Start
<1>4. CASE pc = "postKept" /\ book' = Confirmed(delivery) /\ disk' = Confirmed(delivery)
  <2>1. book[t] = disk[t] /\ book[t] \in Entry
    BY <1>0, <1>4 DEF LoopInv, BookLeadsDisk, Current, Stopped
  <2> DEFINE ticked == [book EXCEPT ![delivery].delivered = TRUE]
  <2>2. /\ ticked[t].state = book[t].state /\ ticked[t].large = book[t].large
        /\ book[t].delivered => ticked[t].delivered
    BY <1>0, <2>1 DEF Entry
  <2>3. disk'[t] = NoEntry \/ disk'[t] = ticked[t]
    BY <1>4 DEF Confirmed, Current
  <2> HIDE DEF ticked
  <2> QED BY <2>1, <2>2, <2>3
<1>5. ASSUME NEW state \in Ending, NEW written \in BOOLEAN, FinishExecution(state, written)
      PROVE  disk'[t] = NoEntry \/ disk'[t] = disk[t]
  <2>1. pc = "running" /\ JobPersistent
    BY <1>5 DEF FinishExecution
  <2>2. book[t] = disk[t] /\ book[job.task] = NoEntry
    BY <2>1 DEF LoopInv, BookLeadsDisk, RunningIsUnknown, Current, Stopped
  <2>3. t # job.task
    BY <2>2
  <2>e. PICK entry \in NewEntries(state) : book' = Current([book EXCEPT ![job.task] = entry])
    BY <1>5 DEF FinishExecution
  <2> DEFINE noted == [book EXCEPT ![job.task] = entry]
  <2>4. noted[t] = book[t]
    BY <1>0, <2>3
  <2>5. disk' = Current(noted) \/ disk' = disk
    BY <1>5, <2>e DEF FinishExecution
  <2> HIDE DEF noted
  <2> QED BY <2>2, <2>4, <2>5 DEF Current
<1>6. pc \in Stopped => UNCHANGED disk \/ Start
  BY StoppedOnlyStarts DEF agentVars, bookVars, StartUnread
<1> QED
  BY <1>1, <1>2, <1>3, <1>4, <1>5, <1>6, BookStep

\* The loop comes to an execution by a poll and to its running by a launch.
LEMMA ExecSource ==
    ASSUME LoopStep, pc' \in {"exec", "running"}
    PROVE  UNCHANGED agentVars \/ Launch \/ \E j \in Job : PollTask(j)
<1>1. ~(Start \/ StartUnread \/ Crash \/ Refuse \/ Break)
  BY DEF Start, StartUnread, Crash, Refuse, Break, Die
<1>2. \A reply \in Answer : ~(PostMem(reply) \/ Beat(reply) \/ PollEmpty(reply))
  BY DEF PostMem, Beat, PollEmpty, Die, AfterMem, AfterPosts
<1>3. \A reply \in Answer, written \in BOOLEAN : ~PostKept(reply, written)
  BY DEF PostKept, Die, AfterPosts
<1>4. \A written \in BOOLEAN : ~(Top(written) \/ Recall(written))
  BY DEF Top, Recall, CannotDrop, Die, AfterMem, AfterPosts
<1>5. \A state \in Ending : ~FinishObservation(state)
  BY DEF FinishObservation
<1>6. \A state \in Ending, written \in BOOLEAN : ~FinishExecution(state, written)
  BY DEF FinishExecution
<1> QED
  BY <1>1, <1>2, <1>3, <1>4, <1>5, <1>6 DEF LoopStep

\* How work ended is noted when it ends, for the job that was running.
LEMMA OutcomeSource ==
    ASSUME LoopStep
    PROVE  \/ outcome' = outcome
           \/ pc = "running" /\ \E state \in Ending : outcome' = [outcome EXCEPT ![job.task] = state]
<1> USE DEF historyVars
<1>1. CASE Start \/ StartUnread \/ Crash \/ Refuse \/ Launch \/ Break
  BY <1>1 DEF Start, StartUnread, Crash, Refuse, Launch, Break, Ending
<1>2. CASE \E j \in Job : PollTask(j)
  BY <1>2 DEF PollTask
<1>3. CASE \E reply \in Answer : PostMem(reply) \/ Beat(reply) \/ PollEmpty(reply)
  BY <1>3 DEF PostMem, Beat, PollEmpty
<1>4. CASE \E reply \in Answer, written \in BOOLEAN : PostKept(reply, written)
  BY <1>4 DEF PostKept
<1>5. CASE \E written \in BOOLEAN : Top(written) \/ Recall(written)
  BY <1>5 DEF Top, Recall
<1>6. CASE \E state \in Ending : FinishObservation(state)
  BY <1>6 DEF FinishObservation
<1>7. CASE \E state \in Ending, written \in BOOLEAN : FinishExecution(state, written)
  BY <1>7 DEF FinishExecution
<1>8. CASE UNCHANGED agentVars
  BY <1>8 DEF agentVars
<1> QED
  BY <1>1, <1>2, <1>3, <1>4, <1>5, <1>6, <1>7, <1>8 DEF LoopStep

\* A report comes from the job that ends, and calls a success only what the
\* book remembers as one or what has just succeeded.
ReportOfJob ==
    /\ pc \in {"exec", "running"} /\ job # NoJob /\ mem'.task = job.task
    /\ mem'.result = "plain" => ~JobPersistent
    /\ mem'.verdict = "SUCCEEDED" =>
          \/ book[job.task] # NoEntry /\ book[job.task].state = "succeeded" /\ outcome' = outcome
          \/ pc = "running" /\ outcome' = [outcome EXCEPT ![job.task] = "succeeded"]

\* A report held in memory comes from the job the agent was handed.
LEMMA ReportSource ==
    ASSUME AgentTypeOK, LoopStep
    PROVE  mem' = mem \/ mem' = NoReport \/ ReportOfJob
<1> USE DEF ReportOfJob, JobReport, Tagged
<1>0. pc \in {"exec", "running"} => job # NoJob
  BY DEF AgentTypeOK
<1>1. CASE Refuse \/ Break
  BY <1>0, <1>1 DEF Refuse, Break
<1>2. CASE Start \/ StartUnread \/ Crash \/ Launch
  BY <1>2 DEF Start, StartUnread, Crash, Launch, Die
<1>3. CASE \E j \in Job : PollTask(j)
  BY <1>3 DEF PollTask
<1>4. CASE \E reply \in Answer : PostMem(reply) \/ Beat(reply) \/ PollEmpty(reply)
  BY <1>4 DEF PostMem, Beat, PollEmpty, Die
<1>5. CASE \E reply \in Answer, written \in BOOLEAN : PostKept(reply, written)
  BY <1>5 DEF PostKept, Die
<1>6. CASE \E written \in BOOLEAN : Top(written)
  BY <1>6 DEF Top, CannotDrop, Die
<1>7. ASSUME NEW written \in BOOLEAN, Recall(written)
      PROVE  mem' = mem \/ mem' = NoReport \/ ReportOfJob
  <2>1. pc = "exec" /\ book[job.task] # NoEntry /\ outcome' = outcome
    BY <1>7 DEF Recall, historyVars
  <2>2. VerdictOf(book[job.task].state) = "SUCCEEDED" => book[job.task].state = "succeeded"
    BY DEF VerdictOf
  <2> QED BY <1>0, <1>7, <2>1, <2>2 DEF Recall, CannotDrop, Die, KeptReport, PayloadOf, Carried
<1>8. ASSUME NEW state \in Ending, FinishObservation(state) PROVE ReportOfJob
  <2>1. PICK result \in {"none", "plain", "large"} : mem' = JobReport(VerdictOf(state), result)
    BY <1>8 DEF FinishObservation
  <2>2. /\ pc = "running" /\ ~JobPersistent
        /\ outcome' = [outcome EXCEPT ![job.task] = state]
    BY <1>8 DEF FinishObservation
  <2>3. VerdictOf(state) = "SUCCEEDED" => state = "succeeded"
    BY DEF VerdictOf
  <2> QED BY <1>0, <2>1, <2>2, <2>3
<1>9. ASSUME NEW state \in Ending, NEW written \in BOOLEAN, FinishExecution(state, written)
      PROVE  mem' = mem \/ ReportOfJob
  BY <1>0, <1>9 DEF FinishExecution
<1>10. CASE UNCHANGED agentVars
  BY <1>10 DEF agentVars
<1> QED
  BY <1>1, <1>2, <1>3, <1>4, <1>5, <1>6, <1>7, <1>8, <1>9, <1>10 DEF LoopStep

\* A record says how the execution ended, then and for ever.
LEMMA RecordedState ==
    ASSUME AgentTypeOK, LoopStep, NEW t \in Task,
           NEW e, e # NoEntry, e = book'[t] \/ e = disk'[t]
    PROVE  \/ book[t] # NoEntry /\ e.state = book[t].state
           \/ disk[t] # NoEntry /\ e.state = disk[t].state
           \/ /\ pc = "running" /\ JobPersistent /\ job.task = t
              /\ outcome' = [outcome EXCEPT ![t] = e.state]
<1>0. /\ book \in [Task -> Entry \cup {NoEntry}] /\ disk \in [Task -> Entry \cup {NoEntry}]
  BY DEF AgentTypeOK
<1>1. CASE UNCHANGED <<book, disk>>
  BY <1>1
<1>2. CASE disk' = disk /\ \A u \in Task : book'[u] = NoEntry
  BY <1>2
<1>3. CASE DropExpired
  <2>1. e = Current(book)[t] \/ e = disk[t]
    BY <1>3 DEF DropExpired
  <2> QED BY <2>1, <1>0, CurrentFacts
<1>4. CASE Start
  <2>1. e = Current(disk)[t]
    BY <1>4 DEF Start
  <2> QED BY <2>1, <1>0, CurrentFacts
<1>5. ASSUME delivery \in Undelivered(book), book' = Confirmed(delivery), disk' = Confirmed(delivery)
      PROVE  book[t] # NoEntry /\ e.state = book[t].state
  <2> DEFINE ticked == [book EXCEPT ![delivery].delivered = TRUE]
  <2>1. delivery \in Task /\ book[delivery] # NoEntry
    BY <1>5 DEF Undelivered
  <2>2. ticked[t] # NoEntry => book[t] # NoEntry /\ ticked[t].state = book[t].state
    BY <1>0, <2>1 DEF Entry
  <2>3. e = ticked[t]
    BY <1>5 DEF Confirmed, Current
  <2> HIDE DEF ticked
  <2> QED BY <2>2, <2>3
<1>6. ASSUME NEW state \in Ending, NEW written \in BOOLEAN, FinishExecution(state, written)
      PROVE  \/ book[t] # NoEntry /\ e.state = book[t].state
             \/ disk[t] # NoEntry /\ e.state = disk[t].state
             \/ /\ pc = "running" /\ JobPersistent /\ job.task = t
                /\ outcome' = [outcome EXCEPT ![t] = e.state]
  <2>e. PICK entry \in NewEntries(state) : book' = Current([book EXCEPT ![job.task] = entry])
    BY <1>6 DEF FinishExecution
  <2> DEFINE noted == [book EXCEPT ![job.task] = entry]
  <2>1. /\ pc = "running" /\ JobPersistent /\ outcome' = [outcome EXCEPT ![job.task] = state]
        /\ book' = Current(noted) /\ (disk' = book' \/ disk' = disk)
    BY <1>6, <2>e DEF FinishExecution
  <2>2. noted[t] = IF t = job.task THEN entry ELSE book[t]
    BY <1>0
  <2>3. entry.state = state
    BY DEF NewEntries
  <2> HIDE DEF noted
  <2>4. e = noted[t] \/ e = disk[t]
    BY <2>1 DEF Current
  <2>5. CASE e = noted[t] /\ t = job.task
    <3>1. e.state = state
      BY <2>2, <2>3, <2>5
    <3> QED BY <2>1, <2>5, <3>1
  <2>6. CASE e = noted[t] /\ t # job.task
    BY <2>2, <2>6
  <2>7. CASE e = disk[t]
    BY <2>7
  <2> QED BY <2>4, <2>5, <2>6, <2>7
<1> QED
  BY <1>1, <1>2, <1>3, <1>4, <1>5, <1>6, BookStep

\* The agent holds a task by executing it or by owing a report of it.
LEMMA HeldSource ==
    ASSUME AgentTypeOK, LoopInv, LoopStep, NEW t \in Task
    PROVE  /\ t \in Undelivered(book)' =>
                \/ t \in Undelivered(book) \cup Undelivered(disk)
                \/ job # NoJob /\ job.task = t
           /\ t \in Undelivered(disk)' =>
                \/ t \in Undelivered(book) \cup Undelivered(disk)
                \/ job # NoJob /\ job.task = t
<1>0. /\ book \in [Task -> Entry \cup {NoEntry}] /\ disk \in [Task -> Entry \cup {NoEntry}]
      /\ Undelivered(book)' = {u \in Task : book'[u] # NoEntry /\ ~book'[u].delivered}
      /\ Undelivered(disk)' = {u \in Task : disk'[u] # NoEntry /\ ~disk'[u].delivered}
  BY DEF AgentTypeOK, Undelivered
<1>1. CASE UNCHANGED <<book, disk>>
  BY <1>0, <1>1 DEF Undelivered
<1>2. CASE disk' = disk /\ \A u \in Task : book'[u] = NoEntry
  BY <1>0, <1>2 DEF Undelivered
<1>3. CASE DropExpired
  BY <1>0, <1>3 DEF DropExpired, Undelivered, Current
<1>4. CASE Start
  BY <1>0, <1>4 DEF Start, Undelivered, Current
<1>5. ASSUME delivery \in Undelivered(book), book' = Confirmed(delivery), disk' = Confirmed(delivery),
             t \in Undelivered(book)' \/ t \in Undelivered(disk)'
      PROVE  t \in Undelivered(book)
  <2> DEFINE ticked == [book EXCEPT ![delivery].delivered = TRUE]
  <2>1. delivery \in Task /\ book[delivery] \in Entry
    BY <1>0, <1>5 DEF Undelivered
  <2>2. ticked[t] # NoEntry /\ ~ticked[t].delivered => book[t] # NoEntry /\ ~book[t].delivered
    BY <1>0, <2>1 DEF Entry
  <2>3. ticked[t] # NoEntry /\ ~ticked[t].delivered
    BY <1>0, <1>5 DEF Confirmed, Current
  <2> QED BY <2>2, <2>3 DEF Undelivered
<1>6. ASSUME NEW state \in Ending, NEW written \in BOOLEAN, FinishExecution(state, written),
             t \in Undelivered(book)' \/ t \in Undelivered(disk)'
      PROVE  t \in Undelivered(book) \cup Undelivered(disk) \/ (job # NoJob /\ job.task = t)
  <2>e. PICK entry \in NewEntries(state) : book' = Current([book EXCEPT ![job.task] = entry])
    BY <1>6 DEF FinishExecution
  <2> DEFINE noted == [book EXCEPT ![job.task] = entry]
  <2>1. /\ job # NoJob
        /\ book' = Current(noted) /\ (disk' = book' \/ disk' = disk)
    BY <1>6, <2>e DEF FinishExecution, AgentTypeOK
  <2>2. t # job.task => noted[t] = book[t]
    BY <1>0
  <2> HIDE DEF noted
  <2>3. \/ noted[t] # NoEntry /\ ~noted[t].delivered
        \/ disk[t] # NoEntry /\ ~disk[t].delivered
    BY <1>0, <1>6, <2>1 DEF Current
  <2> QED BY <2>1, <2>2, <2>3 DEF Undelivered
<1> QED
  BY <1>1, <1>2, <1>3, <1>4, <1>5, <1>6, BookStep

=============================================================================
