----------------------- MODULE MasterHeartBeat_proofs -----------------------
(***************************************************************************)
(* Theorems about the master, for every number of machines, tasks, blocks, *)
(* sessions and every limit of the record.                                 *)
(***************************************************************************)
EXTENDS MasterHeartBeat, TaskRecord_proofs

-----------------------------------------------------------------------------
(* The shape of the state that the arguments need.                         *)

Working == {"poll", "polled", "notify", "call", "forget", "announce", "send"}
Handler == [at : {"none", "scan"} \cup Working, todo : SUBSET Task,
            task : Task \cup {NoTask}, seen : SUBSET Znode]
Watcher == [at : {"armed", "fired", "removing", "releasing", "relisten"},
            children : SUBSET Znode, node : Znode \cup {<<>>}, todo : SUBSET Task]

HandlersFormed ==
  /\ handler \in [Machine -> Handler]
  /\ \A m \in Machine : handler[m].at \in Working => handler[m].task \in Task

WatcherFormed ==
  /\ watcher \in Watcher
  /\ watcher.at = "releasing" => watcher.node \in Znode
  /\ znodes \subseteq Znode /\ cache \subseteq Znode
  /\ session \in [Machine -> 0 .. MaxSession]

ClientsFormed ==
  /\ progress \subseteq Task /\ taskListeners \subseteq Task
  /\ client \in [Task -> {"new", "refused", "submitted", "listening", "late"}]
  /\ notified \in [Task -> Nat]

Formed == HandlersFormed /\ WatcherFormed /\ ClientsFormed

LEMMA HandlersFormedStep == Formed /\ [Next]_vars => HandlersFormed'
<1> SUFFICES ASSUME Formed, [Next]_vars PROVE HandlersFormed'
  OBVIOUS
<1> USE DEF Formed, HandlersFormed
<1>0. Idle \in Handler
  BY DEF Idle, Handler, Working
<1>1. ASSUME NEW m \in Machine, NEW h \in Handler, h.at \in Working => h.task \in Task,
             handler' = [handler EXCEPT ![m] = h]
      PROVE  HandlersFormed'
  BY <1>1
<1>2. ASSUME NEW m \in Machine, NEW t \in Task, NEW at \in {"scan"} \cup Working,
             handler' = Goto(m, at, t)
      PROVE  HandlersFormed'
  <2>1. handler' = [handler EXCEPT ![m] = [handler[m] EXCEPT !.at = at, !.task = t]]
    BY <1>2 DEF Goto
  <2>2. [handler[m] EXCEPT !.at = at, !.task = t] \in Handler
    BY DEF Handler
  <2>3. [handler[m] EXCEPT !.at = at, !.task = t].task = t
    BY DEF Handler
  <2> QED
    BY <2>1, <2>2, <2>3, <1>1
<1>3. ASSUME NEW m \in Machine, NEW t \in Task, handler' = Passed(m, t)
      PROVE  HandlersFormed'
  <2>1. /\ [Idle EXCEPT !.at = "scan", !.todo = handler[m].todo \ {t}] \in Handler
        /\ [Idle EXCEPT !.at = "scan", !.todo = handler[m].todo \ {t}].at \notin Working
    BY DEF Idle, Handler, Working
  <2> QED
    BY <2>1, <1>1, <1>3 DEF Passed
<1>4. ASSUME NEW m \in Machine, handler' = [handler EXCEPT ![m] = Idle]
      PROVE  HandlersFormed'
  <2>1. Idle.at \notin Working
    BY DEF Idle, Working
  <2> QED
    BY <2>1, <1>0, <1>1, <1>4
<1>5. ASSUME UNCHANGED handler
      PROVE  HandlersFormed'
  BY <1>5
<1>6. ASSUME NEW m \in Machine, ReceiveHeartBeat(m)
      PROVE  HandlersFormed'
  <2>1. /\ [Idle EXCEPT !.at = "scan", !.todo = progress] \in Handler
        /\ [Idle EXCEPT !.at = "scan", !.todo = progress].at \notin Working
    BY DEF Idle, Handler, Working, ClientsFormed
  <2> QED
    BY <2>1, <1>1, <1>6 DEF ReceiveHeartBeat
<1>7. ASSUME NEW m \in Machine, HandlerStep(m)
      PROVE  HandlersFormed'
  <2>1. ASSUME NEW t \in Task, PassRecord(m, t) PROVE HandlersFormed'
    BY <2>1, <1>3 DEF PassRecord
  <2>2. ASSUME NEW t \in Task, FindNearlyIdle(m, t) PROVE HandlersFormed'
    BY <2>2, <1>2 DEF FindNearlyIdle, Working
  <2>3. ASSUME NEW t \in Task, SpiderRemoved(m, t) PROVE HandlersFormed'
    BY <2>3, <1>4 DEF SpiderRemoved
  <2>4. CASE HandlerPoll(m)
    BY <2>4, <1>2 DEF HandlerPoll, Working
  <2>5. CASE CheckOver(m)
    BY <2>5, <1>2, <1>3 DEF CheckOver, Working
  <2>6. CASE NotifyTest(m)
    BY <2>6, <1>2 DEF NotifyTest, Working
  <2>7. CASE NotifyCall(m)
    BY <2>7, <1>2, <1>4 DEF NotifyCall, Working
  <2>8. CASE NotifyForget(m)
    BY <2>8, <1>2 DEF NotifyForget, Working
  <2>9. CASE StartAnnounce(m)
    <3>1. handler' = [handler EXCEPT ![m] = [handler[m] EXCEPT !.at = "send", !.seen = cache]]
      BY <2>9 DEF StartAnnounce
    <3>2. [handler[m] EXCEPT !.at = "send", !.seen = cache] \in Handler
      BY DEF Handler, Working, WatcherFormed
    <3>3. [handler[m] EXCEPT !.at = "send", !.seen = cache].task \in Task
      BY <2>9 DEF StartAnnounce, Handler, Working
    <3> QED
      BY <3>1, <3>2, <3>3, <1>1
  <2>10. CASE AnnounceFinish(m)
    BY <2>10, <1>3 DEF AnnounceFinish, Working
  <2>11. CASE AnnounceFails(m)
    BY <2>11, <1>4 DEF AnnounceFails
  <2>12. CASE Answer(m)
    BY <2>12, <1>4 DEF Answer
  <2> QED
    BY <1>7, <2>1, <2>2, <2>3, <2>4, <2>5, <2>6, <2>7, <2>8, <2>9, <2>10, <2>11, <2>12 DEF HandlerStep
<1>8. ASSUME \/ \E t \in Task : SubmitTask(t) \/ AddTaskListener(t)
             \/ \E m \in Machine : Register(m) \/ Crash(m)
             \/ \E z \in Znode : ExpireSession(z)
             \/ WatcherStep
             \/ UNCHANGED vars
      PROVE  HandlersFormed'
  BY <1>5, <1>8 DEF SubmitTask, AddTaskListener, Register, Crash, ExpireSession, WatcherStep,
                    GetChildren, StartRelease, ReleaseFails, ReleaseTask, EndRelease, AddChildren, Relisten, vars
<1> QED
  BY <1>6, <1>7, <1>8 DEF Next

LEMMA WatcherFormedStep == Formed /\ [Next]_vars => WatcherFormed'
<1> SUFFICES ASSUME Formed, [Next]_vars PROVE WatcherFormed'
  OBVIOUS
<1> USE DEF Formed, WatcherFormed
<1>1. ASSUME NEW t \in Task, SubmitTask(t) PROVE WatcherFormed'
  BY <1>1 DEF SubmitTask, machineVars, Watcher
<1>2. ASSUME NEW m \in Machine, Register(m) PROVE WatcherFormed'
  <2>1. session[m] + 1 \in 1 .. MaxSession
    BY <1>2, MasterAssumption DEF Register
  <2>2. <<m, session[m] + 1>> \in Znode /\ session' \in [Machine -> 0 .. MaxSession]
    BY <1>2, <2>1 DEF Znode, Register
  <2>3. znodes' \subseteq Znode /\ cache' \subseteq Znode
    BY <1>2, <2>2 DEF Register
  <2>4. watcher' \in Watcher /\ (watcher'.at = "releasing" => watcher'.node \in Znode)
    BY <1>2 DEF Register, Touch, Watcher
  <2> QED
    BY <2>2, <2>3, <2>4
<1>3. ASSUME NEW z \in Znode, ExpireSession(z) PROVE WatcherFormed'
  BY <1>3 DEF ExpireSession, Touch, Watcher
<1>4. CASE GetChildren
  BY <1>4 DEF GetChildren, machineVars, Watcher
<1>5. ASSUME NEW z \in Znode, StartRelease(z) PROVE WatcherFormed'
  BY <1>5 DEF StartRelease, machineVars, Watcher, ClientsFormed
<1>12. ASSUME NEW z \in Znode, ReleaseFails(z) PROVE WatcherFormed'
  BY <1>12 DEF ReleaseFails, machineVars, Watcher
<1>6. ASSUME NEW t \in Task, ReleaseTask(t) PROVE WatcherFormed'
  BY <1>6 DEF ReleaseTask, machineVars, Watcher
<1>7. CASE EndRelease
  BY <1>7 DEF EndRelease, machineVars, Watcher
<1>8. CASE AddChildren
  BY <1>8 DEF AddChildren, machineVars, Watcher
<1>9. CASE Relisten
  BY <1>9 DEF Relisten, machineVars, Watcher, Armed
<1>10. ASSUME UNCHANGED <<znodes, session, watchVars>>
       PROVE  WatcherFormed'
  BY <1>10 DEF watchVars
<1>11. ASSUME \/ \E t \in Task : AddTaskListener(t)
              \/ \E m \in Machine : ReceiveHeartBeat(m) \/ HandlerStep(m) \/ Crash(m)
              \/ UNCHANGED vars
       PROVE  WatcherFormed'
  BY <1>10, <1>11 DEF AddTaskListener, ReceiveHeartBeat, HandlerStep, Crash, vars, machineVars,
       PassRecord, FindNearlyIdle, SpiderRemoved, HandlerPoll, CheckOver, NotifyTest, NotifyCall,
       NotifyForget, StartAnnounce, AnnounceFinish, AnnounceFails, Answer
<1> QED
  BY <1>1, <1>2, <1>3, <1>4, <1>5, <1>6, <1>7, <1>8, <1>9, <1>11, <1>12 DEF Next, WatcherStep
LEMMA ClientsFormedStep == Formed /\ [Next]_vars => ClientsFormed'
<1> SUFFICES ASSUME Formed, [Next]_vars PROVE ClientsFormed'
  OBVIOUS
<1> USE DEF Formed, ClientsFormed
<1>1. ASSUME NEW t \in Task, SubmitTask(t) PROVE ClientsFormed'
  BY <1>1 DEF SubmitTask
<1>2. ASSUME NEW t \in Task, AddTaskListener(t) PROVE ClientsFormed'
  BY <1>2 DEF AddTaskListener, taskVars
<1>3. ASSUME NEW m \in Machine, NotifyCall(m) PROVE ClientsFormed'
  BY <1>3 DEF NotifyCall, taskVars
<1>4. ASSUME NEW m \in Machine, NotifyForget(m) PROVE ClientsFormed'
  BY <1>4 DEF NotifyForget, taskVars
<1>5. ASSUME UNCHANGED <<progress, taskListeners, client, notified>> PROVE ClientsFormed'
  BY <1>5
<1>6. ASSUME \/ \E m \in Machine :
                  \/ ReceiveHeartBeat(m) \/ Crash(m) \/ Register(m)
                  \/ \E t \in Task : PassRecord(m, t) \/ FindNearlyIdle(m, t) \/ SpiderRemoved(m, t)
                  \/ HandlerPoll(m) \/ CheckOver(m) \/ NotifyTest(m) \/ StartAnnounce(m)
                  \/ AnnounceFinish(m) \/ AnnounceFails(m) \/ Answer(m)
             \/ \E z \in Znode : ExpireSession(z)
             \/ WatcherStep
             \/ UNCHANGED vars
      PROVE  UNCHANGED <<progress, taskListeners, client, notified>>
  BY <1>6 DEF ReceiveHeartBeat, Crash, Register, PassRecord, FindNearlyIdle, SpiderRemoved,
       HandlerPoll, CheckOver, NotifyTest, StartAnnounce, AnnounceFinish, AnnounceFails, Answer,
       ExpireSession, WatcherStep, GetChildren, StartRelease, ReleaseFails, ReleaseTask, EndRelease, AddChildren,
       Relisten, vars, taskVars, finishVars
<1> QED
  BY <1>1, <1>2, <1>3, <1>4, <1>5, <1>6 DEF Next, HandlerStep

LEMMA FormedInit == Init => Formed
<1> SUFFICES ASSUME Init PROVE Formed
  OBVIOUS
<1>1. HandlersFormed
  BY DEF Init, HandlersFormed, Handler, Idle, Working
<1>2. WatcherFormed
  BY MasterAssumption DEF Init, WatcherFormed, Watcher, Armed, Znode
<1>3. ClientsFormed
  BY DEF Init, ClientsFormed
<1> QED
  BY <1>1, <1>2, <1>3 DEF Formed

LEMMA FormedStep == Formed /\ [Next]_vars => Formed'
BY HandlersFormedStep, WatcherFormedStep, ClientsFormedStep DEF Formed

-----------------------------------------------------------------------------
(* The tasks.                                                              *)

\* A step leaves the tasks alone, or is one call of checkAndPoll or of
\* returnCrawlTask on one of them.
LEMMA TaskSteps ==
  ASSUME Formed, [Next]_vars
  PROVE  \/ UNCHANGED tasks
         \/ \E m \in Machine : /\ HandlerPoll(m) /\ handler[m].task \in Task
                               /\ tasks' = [tasks EXCEPT ![handler[m].task] =
                                              CheckAndPoll(tasks[handler[m].task], m)]
         \/ \E t \in Task, m \in Machine : tasks' = [tasks EXCEPT ![t] = ReturnCrawlTask(tasks[t], m)]
<1>1. ASSUME NEW m \in Machine, HandlerPoll(m)
      PROVE  /\ handler[m].task \in Task
             /\ tasks' = [tasks EXCEPT ![handler[m].task] = CheckAndPoll(tasks[handler[m].task], m)]
  BY <1>1 DEF HandlerPoll, Formed, HandlersFormed, Working
<1>2. ASSUME NEW t \in Task, ReleaseTask(t)
      PROVE  \E m \in Machine : tasks' = [tasks EXCEPT ![t] = ReturnCrawlTask(tasks[t], m)]
  <2>1. watcher.node[1] \in Machine
    BY <1>2 DEF ReleaseTask, Formed, WatcherFormed, Znode
  <2> QED
    BY <1>2, <2>1 DEF ReleaseTask
<1>3. ASSUME \/ \E m \in Machine :
                  \/ ReceiveHeartBeat(m) \/ Crash(m) \/ Register(m)
                  \/ \E t \in Task : PassRecord(m, t) \/ FindNearlyIdle(m, t) \/ SpiderRemoved(m, t)
                  \/ CheckOver(m) \/ NotifyTest(m) \/ NotifyCall(m) \/ NotifyForget(m)
                  \/ StartAnnounce(m) \/ AnnounceFinish(m) \/ AnnounceFails(m) \/ Answer(m)
             \/ \E t \in Task : SubmitTask(t) \/ AddTaskListener(t)
             \/ \E z \in Znode : ExpireSession(z) \/ StartRelease(z) \/ ReleaseFails(z)
             \/ GetChildren \/ EndRelease \/ AddChildren \/ Relisten
             \/ UNCHANGED vars
      PROVE  UNCHANGED tasks
  BY <1>3 DEF ReceiveHeartBeat, Crash, Register, PassRecord, FindNearlyIdle, SpiderRemoved,
       CheckOver, NotifyTest, NotifyCall, NotifyForget, StartAnnounce, AnnounceFinish, AnnounceFails,
       Answer, SubmitTask, AddTaskListener, ExpireSession, GetChildren, StartRelease, ReleaseFails, EndRelease,
       AddChildren, Relisten, vars, taskVars
<1> QED
  BY <1>1, <1>2, <1>3 DEF Next, HandlerStep, WatcherStep

AllConsistent == tasks \in [Task -> TaskType] /\ TasksConsistent

LEMMA AllConsistentStep == Formed /\ AllConsistent /\ [Next]_vars => AllConsistent'
<1> SUFFICES ASSUME Formed, AllConsistent, [Next]_vars PROVE AllConsistent'
  OBVIOUS
<1> USE DEF AllConsistent, TasksConsistent
<1>1. ASSUME NEW t \in Task, NEW tk, Consistent(tk), tasks' = [tasks EXCEPT ![t] = tk]
      PROVE  AllConsistent'
  BY <1>1 DEF Consistent
<1>2. ASSUME NEW t \in Task, NEW m \in Machine
      PROVE  Consistent(CheckAndPoll(tasks[t], m)) /\ Consistent(ReturnCrawlTask(tasks[t], m))
  BY PollConsistent, ReturnConsistent
<1> QED
  BY <1>1, <1>2, TaskSteps

LEMMA AllConsistentInit == Init => AllConsistent
<1>1. Consistent(NewTask) /\ NewTask \in TaskType
  BY NewTaskConsistent DEF Consistent
<1> QED
  BY <1>1 DEF Init, AllConsistent, TasksConsistent

\* No interleaving of heartbeats, submissions, deaths, expiries and releases
\* loses a block of a task, gives one to two machines or miscounts it.
THEOREM TasksStayConsistent == Spec => []TasksConsistent
<1>1. Init => Formed /\ AllConsistent
  BY FormedInit, AllConsistentInit
<1>2. Formed /\ AllConsistent /\ [Next]_vars => (Formed /\ AllConsistent)'
  BY FormedStep, AllConsistentStep
<1>3. AllConsistent => TasksConsistent
  BY DEF AllConsistent
<1> QED
  BY <1>1, <1>2, <1>3, PTL DEF Spec

LEMMA OverStays ==
  ASSUME Formed, AllConsistent, [Next]_vars, NEW t \in Task
  PROVE  /\ tasks[t].over => tasks'[t].over
         /\ tasks'[t].over /\ ~tasks[t].over =>
              \E m \in Machine : HandlerPoll(m) /\ handler[m].task = t
<1>1. tasks \in [Task -> TaskType]
  BY DEF AllConsistent
<1>2. ASSUME NEW s \in Task, NEW m \in Machine
      PROVE  /\ tasks[s].over => CheckAndPoll(tasks[s], m).over
             /\ ReturnCrawlTask(tasks[s], m).over = tasks[s].over
  BY <1>1 DEF CheckAndPoll, ReturnCrawlTask, GiveBack, TaskType
<1>3. CASE UNCHANGED tasks
  BY <1>3
<1>4. ASSUME NEW m \in Machine, HandlerPoll(m), handler[m].task \in Task,
             tasks' = [tasks EXCEPT ![handler[m].task] = CheckAndPoll(tasks[handler[m].task], m)]
      PROVE  /\ tasks[t].over => tasks'[t].over
             /\ tasks'[t].over /\ ~tasks[t].over => handler[m].task = t
  BY <1>1, <1>2, <1>4
<1>5. ASSUME NEW s \in Task, NEW m \in Machine,
             tasks' = [tasks EXCEPT ![s] = ReturnCrawlTask(tasks[s], m)]
      PROVE  tasks'[t].over = tasks[t].over
  BY <1>1, <1>2, <1>5
<1> QED
  BY <1>3, <1>4, <1>5, TaskSteps

-----------------------------------------------------------------------------
(* Each task of the master implements the ledger.                          *)

LedgerOf(t) == INSTANCE BlockLedger WITH place <- PlaceOf(tasks[t]), finished <- tasks[t].over

LEMMA LedgerStep ==
  ASSUME NEW t \in Task, Formed, AllConsistent, [Next]_vars
  PROVE  [LedgerOf(t)!Next]_(LedgerOf(t)!vars)
<1>0. tasks \in [Task -> TaskType] /\ Consistent(tasks[t])
  BY DEF AllConsistent, TasksConsistent
<1>1. ASSUME tasks'[t] = tasks[t]
      PROVE  UNCHANGED LedgerOf(t)!vars
  BY <1>1 DEF LedgerOf!vars
<1>2. ASSUME NEW m \in Machine, tasks'[t] = CheckAndPoll(tasks[t], m)
      PROVE  LedgerOf(t)!Next
  <2>1. LedgerOf(t)!TurnIn(m) \/ \E b \in Block : LedgerOf(t)!Exchange(m, b)
    BY <1>0, <1>2, PollPlaces DEF LedgerOf!TurnIn, LedgerOf!Exchange, TurnedIn, Exchanged, AllCredited
  <2> QED
    BY <2>1 DEF LedgerOf!Next
<1>3. ASSUME NEW m \in Machine, tasks'[t] = ReturnCrawlTask(tasks[t], m)
      PROVE  LedgerOf(t)!Next
  <2>1. LedgerOf(t)!GiveBack(m)
    BY <1>0, <1>3, ReturnPlaces DEF LedgerOf!GiveBack
  <2> QED
    BY <2>1 DEF LedgerOf!Next
<1>4. \/ tasks'[t] = tasks[t]
      \/ \E m \in Machine : tasks'[t] \in {CheckAndPoll(tasks[t], m), ReturnCrawlTask(tasks[t], m)}
  BY <1>0, TaskSteps
<1> QED
  BY <1>1, <1>2, <1>3, <1>4

\* To each task the master's heartbeats, deaths, releases and refusals are turn-ins,
\* exchanges and give-backs of its own ledger, and nothing else reaches it.
THEOREM TasksImplementLedgers == Spec => \A t \in Task : LedgerOf(t)!Spec
<1> SUFFICES ASSUME NEW t \in Task PROVE Spec => LedgerOf(t)!Spec
  OBVIOUS
<1>1. Init => LedgerOf(t)!Init
  BY NewTaskPlaces DEF Init, LedgerOf!Init
<1>2. Init => Formed /\ AllConsistent
  BY FormedInit, AllConsistentInit
<1>3. Formed /\ AllConsistent /\ [Next]_vars => (Formed /\ AllConsistent)'
  BY FormedStep, AllConsistentStep
<1>4. Formed /\ AllConsistent /\ [Next]_vars => [LedgerOf(t)!Next]_(LedgerOf(t)!vars)
  BY LedgerStep
<1> QED
  BY <1>1, <1>2, <1>3, <1>4, PTL DEF Spec, LedgerOf!Spec

-----------------------------------------------------------------------------
(* The record keeps what is not finished.                                  *)

RecordKeeps == \A t \in Task : client[t] # "new" /\ t \notin progress => tasks[t].over

LEMMA RecordKeepsStep ==
  Formed /\ AllConsistent /\ RecordKeeps /\ [Next]_vars => RecordKeeps'
<1> SUFFICES ASSUME Formed, AllConsistent, RecordKeeps, [Next]_vars, NEW t \in Task,
                    client'[t] # "new", t \notin progress'
             PROVE  tasks'[t].over
  BY DEF RecordKeeps
<1>1. ASSUME NEW s \in Task, SubmitTask(s)
      PROVE  tasks'[t].over
  <2>1. /\ t \in Dropped \/ t \notin progress
        /\ t # s /\ client'[t] = client[t] /\ tasks' = tasks
    BY <1>1 DEF SubmitTask, Formed, ClientsFormed
  <2> QED
    BY <2>1 DEF RecordKeeps, Dropped
<1>2. ASSUME NEW s \in Task, AddTaskListener(s)
      PROVE  tasks'[t].over
  <2>1. client[t] # "new" /\ tasks' = tasks /\ progress' = progress
    BY <1>2 DEF AddTaskListener, taskVars, Formed, ClientsFormed
  <2> QED
    BY <2>1 DEF RecordKeeps
<1>3. ASSUME \/ \E m \in Machine : ReceiveHeartBeat(m) \/ HandlerStep(m) \/ Register(m) \/ Crash(m)
             \/ \E z \in Znode : ExpireSession(z)
             \/ WatcherStep
             \/ UNCHANGED vars
      PROVE  tasks'[t].over
  <2>1. UNCHANGED <<client, progress>>
    BY <1>3 DEF ReceiveHeartBeat, HandlerStep, Register, Crash, ExpireSession, WatcherStep,
         PassRecord, FindNearlyIdle, SpiderRemoved, HandlerPoll, CheckOver, NotifyTest, NotifyCall,
         NotifyForget, StartAnnounce, AnnounceFinish, AnnounceFails, Answer, GetChildren,
         StartRelease, ReleaseFails, ReleaseTask, EndRelease, AddChildren, Relisten, vars, taskVars, finishVars
  <2> QED
    BY <2>1, OverStays DEF RecordKeeps
<1> QED
  BY <1>1, <1>2, <1>3 DEF Next

\* Whatever is submitted and dropped, an unfinished task is always where the
\* heartbeats and the releases look for it (MasterNode.java:411-421).
THEOREM UnfinishedStay == Spec => []UnfinishedTasksStay
<1>1. Init => Formed /\ AllConsistent /\ RecordKeeps
  BY FormedInit, AllConsistentInit DEF Init, RecordKeeps
<1>2. Formed /\ AllConsistent /\ RecordKeeps /\ [Next]_vars
      => (Formed /\ AllConsistent /\ RecordKeeps)'
  BY FormedStep, AllConsistentStep, RecordKeepsStep
<1>3. AllConsistent /\ RecordKeeps => UnfinishedTasksStay
  <2> SUFFICES ASSUME AllConsistent, RecordKeeps, NEW t \in Task, client[t] # "new", t \notin progress
               PROVE  tasks[t].over /\ Waiting(tasks[t]) = {} /\ Held(tasks[t]) = {}
    BY DEF UnfinishedTasksStay
  <2>1. tasks[t].over /\ Consistent(tasks[t])
    BY DEF RecordKeeps, AllConsistent, TasksConsistent
  <2> QED
    BY <2>1 DEF Consistent, Finished, Partitioned
<1> QED
  BY <1>1, <1>2, <1>3, PTL DEF Spec

-----------------------------------------------------------------------------
(* The client that registers in time is told.                              *)

Announcing == {"notify", "call", "forget", "announce", "send"}

Heard(t) ==
  /\ client[t] = "listening" => t \in taskListeners \/ notified[t] >= 1
  /\ \A m \in Machine : handler[m].task = t =>
       /\ handler[m].at \in Announcing => tasks[t].over
       /\ handler[m].at = "forget" => notified[t] >= 1
       /\ handler[m].at \in {"announce", "send"} /\ client[t] = "listening" => notified[t] >= 1
  /\ client[t] = "listening" /\ tasks[t].over /\ ~Finishing(t) => notified[t] >= 1

\* A step that moves no handler and no client.
LEMMA HeardUntouched ==
  ASSUME NEW t \in Task, Heard(t), tasks'[t].over = tasks[t].over,
         UNCHANGED <<handler, client, taskListeners, notified>>
  PROVE  Heard(t)'
BY DEF Heard, Finishing

\* A step that moves handler m and nothing the client sees.
LEMMA HeardMoved ==
  ASSUME Formed, NEW t \in Task, Heard(t), NEW m \in Machine, NEW h \in Handler,
         handler' = [handler EXCEPT ![m] = h],
         tasks[t].over => tasks'[t].over,
         UNCHANGED <<client, taskListeners, notified>>,
         h.task = t => /\ h.at \in Announcing => tasks'[t].over
                       /\ h.at = "forget" => notified[t] >= 1
                       /\ h.at \in {"announce", "send"} /\ client[t] = "listening" => notified[t] >= 1,
         client[t] = "listening" /\ tasks'[t].over =>
            \/ notified[t] >= 1
            \/ h.task = t /\ h.at \in Announcing \cup {"polled"}
            \/ tasks[t].over /\ ~(handler[m].task = t /\ handler[m].at \in Announcing \cup {"polled"})
  PROVE  Heard(t)'
<1>1. /\ handler'[m] = h
      /\ \A n \in Machine \ {m} : handler'[n] = handler[n]
  BY DEF Formed, HandlersFormed
<1>2. Finishing(t)' <=> \E n \in Machine : handler'[n].task = t /\ handler'[n].at \in Announcing \cup {"polled"}
  BY DEF Finishing, Announcing
<1>3. Finishing(t) <=> \E n \in Machine : handler[n].task = t /\ handler[n].at \in Announcing \cup {"polled"}
  BY DEF Finishing, Announcing
<1>4. \A n \in Machine : handler'[n].task = t =>
       /\ handler'[n].at \in Announcing => tasks'[t].over
       /\ handler'[n].at = "forget" => notified'[t] >= 1
       /\ handler'[n].at \in {"announce", "send"} /\ client'[t] = "listening" => notified'[t] >= 1
  BY <1>1 DEF Heard
<1>5. client'[t] = "listening" /\ tasks'[t].over /\ ~Finishing(t)' => notified'[t] >= 1
  BY <1>1, <1>2, <1>3 DEF Heard
<1> QED
  BY <1>4, <1>5 DEF Heard
LEMMA HeardStep ==
  ASSUME Formed, AllConsistent, [Next]_vars, NEW t \in Task, Heard(t)
  PROVE  Heard(t)'
<1>0. /\ tasks[t].over => tasks'[t].over
      /\ \A m \in Machine : handler[m] \in Handler
      /\ notified[t] \in Nat
  BY OverStays DEF Formed, HandlersFormed, ClientsFormed
<1>1. ASSUME NEW s \in Task, SubmitTask(s) PROVE Heard(t)'
  <2>1. UNCHANGED <<tasks, handler, taskListeners, notified>> /\ (client'[t] = "listening" => client[t] = "listening")
    BY <1>1 DEF SubmitTask, Formed, ClientsFormed
  <2> QED
    BY <2>1 DEF Heard, Finishing
<1>2. ASSUME NEW s \in Task, AddTaskListener(s) PROVE Heard(t)'
  <2>1. UNCHANGED <<tasks, handler, notified>> /\ taskListeners' = taskListeners \cup {s}
    BY <1>2 DEF AddTaskListener, taskVars
  <2>2. CASE s # t
    <3>1. client'[t] = client[t]
      BY <1>2, <2>2 DEF AddTaskListener, Formed, ClientsFormed
    <3> QED
      BY <2>1, <3>1 DEF Heard, Finishing
  <2>3. CASE s = t
    <3>1. client'[t] = "listening" => ~tasks[t].over
      BY <1>2, <2>3 DEF AddTaskListener, Formed, ClientsFormed
    <3> QED
      BY <2>1, <2>3, <3>1 DEF Heard, Finishing, Announcing
  <2> QED
    BY <2>2, <2>3
<1>3. ASSUME \/ \E m \in Machine : Register(m) \/ Crash(m)
             \/ \E z \in Znode : ExpireSession(z)
             \/ WatcherStep
             \/ UNCHANGED vars
      PROVE  Heard(t)'
  <2>1. UNCHANGED <<handler, client, taskListeners, notified>>
    BY <1>3 DEF Register, Crash, ExpireSession, WatcherStep, GetChildren, StartRelease, ReleaseFails,
       ReleaseTask,
         EndRelease, AddChildren, Relisten, vars, finishVars
  <2>2. ~\E m \in Machine : HandlerPoll(m)
    <3>1. \A m \in Machine : HandlerPoll(m) => handler' # handler
      BY DEF HandlerPoll, Goto, Formed, HandlersFormed, Handler
    <3> QED
      BY <2>1, <3>1
  <2>3. tasks'[t].over <=> tasks[t].over
    BY <2>2, OverStays
  <2> QED
    BY <2>1, <2>3 DEF Heard, Finishing
<1>4. ASSUME NEW m \in Machine, NEW s \in Task, NEW at \in {"scan"} \cup Working,
             handler' = Goto(m, at, s)
      PROVE  \E h \in Handler : h.at = at /\ h.task = s /\ handler' = [handler EXCEPT ![m] = h]
  <2> DEFINE h == [handler[m] EXCEPT !.at = at, !.task = s]
  <2>1. h \in Handler /\ h.at = at /\ h.task = s /\ handler' = [handler EXCEPT ![m] = h]
    BY <1>0, <1>4 DEF Handler, Goto
  <2> HIDE DEF h
  <2> QED
    BY <2>1
<1>5. ASSUME NEW m \in Machine, NEW s
      PROVE  \E h \in Handler : h.at = "scan" /\ Passed(m, s) = [handler EXCEPT ![m] = h]
  <2> DEFINE h == [Idle EXCEPT !.at = "scan", !.todo = handler[m].todo \ {s}]
  <2>1. h \in Handler /\ h.at = "scan" /\ Passed(m, s) = [handler EXCEPT ![m] = h]
    BY <1>0 DEF Handler, Passed, Idle
  <2> HIDE DEF h
  <2> QED
    BY <2>1
<1>6. Idle \in Handler /\ Idle.at = "none"
  BY DEF Idle, Handler
<1>7. ASSUME NEW m \in Machine, ReceiveHeartBeat(m) PROVE Heard(t)'
  <2> DEFINE h == [Idle EXCEPT !.at = "scan", !.todo = progress]
  <2>1. h \in Handler /\ h.at = "scan" /\ handler' = [handler EXCEPT ![m] = h]
    BY <1>7 DEF ReceiveHeartBeat, Handler, Idle, Formed, ClientsFormed
  <2>2. UNCHANGED <<tasks, client, taskListeners, notified>> /\ handler[m].at = "none"
    BY <1>7, <1>6 DEF ReceiveHeartBeat, taskVars, finishVars
  <2> HIDE DEF h
  <2> QED
    BY <2>1, <2>2, HeardMoved DEF Announcing
<1>8. ASSUME NEW m \in Machine, HandlerStep(m) PROVE Heard(t)'
  <2>1. ASSUME NEW s \in Task, PassRecord(m, s) PROVE Heard(t)'
    <3>1. UNCHANGED <<tasks, client, taskListeners, notified>> /\ handler[m].at = "scan" /\ handler' = Passed(m, s)
      BY <2>1 DEF PassRecord, taskVars, finishVars
    <3>2. PICK h \in Handler : h.at = "scan" /\ handler' = [handler EXCEPT ![m] = h]
      BY <3>1, <1>5
    <3> QED
      BY <3>1, <3>2, HeardMoved DEF Announcing
  <2>2. ASSUME NEW s \in Task, FindNearlyIdle(m, s) PROVE Heard(t)'
    <3>1. UNCHANGED <<tasks, client, taskListeners, notified>> /\ handler[m].at = "scan" /\ handler' = Goto(m, "poll", s)
      BY <2>2 DEF FindNearlyIdle, taskVars, finishVars
    <3>2. PICK h \in Handler : h.at = "poll" /\ handler' = [handler EXCEPT ![m] = h]
      BY <3>1, <1>4 DEF Working
    <3> QED
      BY <3>1, <3>2, HeardMoved DEF Announcing
  <2>3. ASSUME NEW s \in Task, SpiderRemoved(m, s) PROVE Heard(t)'
    <3>1. UNCHANGED <<tasks, client, taskListeners, notified>> /\ handler[m].at = "scan" /\ handler' = [handler EXCEPT ![m] = Idle]
      BY <2>3 DEF SpiderRemoved, taskVars, finishVars
    <3> QED
      BY <3>1, <1>6, HeardMoved DEF Announcing
  <2>4. CASE HandlerPoll(m)
    <3>1. PICK s \in Task :
          /\ UNCHANGED <<client, taskListeners, notified>> /\ handler[m].at = "poll"
          /\ s = handler[m].task /\ handler' = Goto(m, "polled", s)
      BY <2>4 DEF HandlerPoll, finishVars, Formed, HandlersFormed, Working
    <3>2. PICK h \in Handler : h.at = "polled" /\ h.task = s /\ handler' = [handler EXCEPT ![m] = h]
      <4>1. handler' = Goto(m, "polled", s) /\ "polled" \in {"scan"} \cup Working
        BY <3>1 DEF Working
      <4> QED
        BY ONLY <4>1, <1>4, s \in Task, m \in Machine
    <3>3. tasks'[t].over /\ ~tasks[t].over => s = t
      <4>1. ASSUME NEW n \in Machine, HandlerPoll(n) PROVE n = m
        <5>1. handler'[n].at = "polled" /\ handler[n].at = "poll"
          BY <4>1, <1>0 DEF HandlerPoll, Goto, Formed, HandlersFormed, Handler
        <5>2. n # m => handler'[n] = handler[n]
          BY <3>2 DEF Formed, HandlersFormed
        <5> QED
          BY <5>1, <5>2
      <4> QED
        BY <3>1, <4>1, OverStays
    <3> QED
      BY <1>0, <3>1, <3>2, <3>3, HeardMoved DEF Announcing
  <2>5. CASE CheckOver(m)
    <3>1. PICK s \in Task :
          /\ UNCHANGED <<tasks, client, taskListeners, notified>> /\ handler[m].at = "polled"
          /\ s = handler[m].task /\ handler' = IF tasks[s].over THEN Goto(m, "notify", s) ELSE Passed(m, s)
      BY <2>5 DEF CheckOver, taskVars, finishVars, Formed, HandlersFormed, Working
    <3>2. CASE tasks[s].over
      <4>1. PICK h \in Handler : h.at = "notify" /\ h.task = s /\ handler' = [handler EXCEPT ![m] = h]
        <5>1. handler' = Goto(m, "notify", s) /\ "notify" \in {"scan"} \cup Working
          BY <3>1, <3>2 DEF Working
        <5> QED
          BY ONLY <5>1, <1>4, s \in Task, m \in Machine
      <4> QED
        BY <3>1, <3>2, <4>1, HeardMoved DEF Announcing
    <3>3. CASE ~tasks[s].over
      <4>1. PICK h \in Handler : h.at = "scan" /\ handler' = [handler EXCEPT ![m] = h]
        BY <3>1, <3>3, <1>5
      <4> QED
        BY <3>1, <3>3, <4>1, HeardMoved DEF Announcing
    <3> QED
      BY <3>2, <3>3
  <2>6. CASE NotifyTest(m)
    <3>1. PICK s \in Task, at \in {"call", "announce"} :
          /\ UNCHANGED <<tasks, client, taskListeners, notified>> /\ handler[m].at = "notify"
          /\ s = handler[m].task /\ handler' = Goto(m, at, s)
          /\ at = "announce" => s \notin taskListeners
      <4>1. handler[m].task \in Task
        BY <2>6 DEF NotifyTest, Formed, HandlersFormed, Working
      <4> QED
        BY <2>6, <4>1 DEF NotifyTest, taskVars, finishVars
    <3>2. PICK h \in Handler : h.at = at /\ h.task = s /\ handler' = [handler EXCEPT ![m] = h]
      <4>1. handler' = Goto(m, at, s) /\ at \in {"scan"} \cup Working
        BY <3>1 DEF Working
      <4> QED
        BY ONLY <4>1, <1>4, s \in Task, m \in Machine
    <3>3. s = t => tasks[t].over /\ (at = "announce" /\ client[t] = "listening" => notified[t] >= 1)
      BY <3>1 DEF Heard, Announcing
    <3> QED
      BY <3>1, <3>2, <3>3, HeardMoved DEF Announcing
  <2>7. CASE NotifyCall(m)
    <3>1. PICK s \in Task :
          UNCHANGED <<tasks, client, taskListeners>> /\ handler[m].at = "call" /\ s = handler[m].task
      BY <2>7 DEF NotifyCall, taskVars, Formed, HandlersFormed, Working
    <3>2. CASE s \in taskListeners
      <4>1. notified' = [notified EXCEPT ![s] = @ + 1] /\ handler' = Goto(m, "forget", s)
        BY <2>7, <3>1, <3>2 DEF NotifyCall
      <4>2. PICK h \in Handler : h.at = "forget" /\ h.task = s /\ handler' = [handler EXCEPT ![m] = h]
        <5>1. handler' = Goto(m, "forget", s) /\ "forget" \in {"scan"} \cup Working
          BY <3>1, <4>1 DEF Working
        <5> QED
          BY ONLY <5>1, <1>4, s \in Task, m \in Machine
      <4>3. /\ handler'[m] = h /\ \A n \in Machine \ {m} : handler'[n] = handler[n]
            /\ notified'[t] = IF s = t THEN notified[t] + 1 ELSE notified[t]
        BY <4>1, <4>2 DEF Formed, HandlersFormed, ClientsFormed
      <4>4. notified'[t] >= notified[t] /\ (s = t => notified'[t] >= 1)
        BY <1>0, <4>3
      <4>5. Finishing(t) => Finishing(t)'
        BY <3>1, <4>2, <4>3 DEF Finishing
      <4>6. notified'[t] \in Nat
        BY <1>0, <4>3
      <4>7. notified[t] >= 1 => notified'[t] >= 1
        BY <1>0, <4>4, <4>6
      <4>8. s = t => tasks[t].over
        BY <3>1 DEF Heard, Announcing
      <4> QED
        BY <3>1, <4>2, <4>3, <4>4, <4>5, <4>7, <4>8 DEF Heard
    <3>3. CASE s \notin taskListeners
      <4>1. UNCHANGED notified /\ handler' = [handler EXCEPT ![m] = Idle]
        BY <2>7, <3>1, <3>3 DEF NotifyCall
      <4>2. s = t /\ client[t] = "listening" => notified[t] >= 1
        BY <3>1, <3>3 DEF Heard
      <4> QED
        BY <3>1, <4>1, <4>2, <1>6, HeardMoved DEF Announcing
    <3> QED
      BY <3>2, <3>3
  <2>8. CASE NotifyForget(m)
    <3>1. PICK s \in Task :
          /\ UNCHANGED <<tasks, client, notified>> /\ handler[m].at = "forget" /\ s = handler[m].task
          /\ taskListeners' = taskListeners \ {s} /\ handler' = Goto(m, "announce", s)
      BY <2>8 DEF NotifyForget, taskVars, Formed, HandlersFormed, Working
    <3>2. PICK h \in Handler : h.at = "announce" /\ h.task = s /\ handler' = [handler EXCEPT ![m] = h]
      <4>1. handler' = Goto(m, "announce", s) /\ "announce" \in {"scan"} \cup Working
        BY <3>1 DEF Working
      <4> QED
        BY ONLY <4>1, <1>4, s \in Task, m \in Machine
    <3>3. /\ handler'[m] = h /\ \A n \in Machine \ {m} : handler'[n] = handler[n]
      BY <3>2 DEF Formed, HandlersFormed
    <3>4. s = t => notified[t] >= 1 /\ tasks[t].over
      BY <3>1 DEF Heard, Announcing
    <3>5. Finishing(t)' <=> Finishing(t)
      BY <3>1, <3>2, <3>3 DEF Finishing
    <3> QED
      BY <3>1, <3>2, <3>3, <3>4, <3>5 DEF Heard
  <2>9. CASE StartAnnounce(m)
    <3> DEFINE h == [handler[m] EXCEPT !.at = "send", !.seen = cache]
    <3>1. /\ UNCHANGED <<tasks, client, taskListeners, notified>> /\ handler[m].at = "announce"
          /\ handler' = [handler EXCEPT ![m] = h]
      BY <2>9 DEF StartAnnounce, taskVars, finishVars
    <3>2. h \in Handler /\ h.at = "send" /\ h.task = handler[m].task
      BY <1>0 DEF Handler, Working, Formed, WatcherFormed
    <3>3. h.task = t => tasks[t].over /\ (client[t] = "listening" => notified[t] >= 1)
      BY <3>1, <3>2 DEF Heard, Announcing
    <3> HIDE DEF h
    <3> QED
      BY <3>1, <3>2, <3>3, HeardMoved DEF Announcing
  <2>10. CASE AnnounceFinish(m)
    <3>1. /\ UNCHANGED <<tasks, client, taskListeners, notified>> /\ handler[m].at = "send"
          /\ handler' = Passed(m, handler[m].task)
      BY <2>10 DEF AnnounceFinish, taskVars
    <3>2. PICK h \in Handler : h.at = "scan" /\ handler' = [handler EXCEPT ![m] = h]
      BY <3>1, <1>5
    <3>3. handler[m].task = t /\ client[t] = "listening" => notified[t] >= 1
      BY <3>1 DEF Heard
    <3> QED
      BY <3>1, <3>2, <3>3, HeardMoved DEF Announcing
  <2>11. CASE AnnounceFails(m)
    <3>1. /\ UNCHANGED <<tasks, client, taskListeners, notified>> /\ handler[m].at = "send"
          /\ handler' = [handler EXCEPT ![m] = Idle]
      BY <2>11 DEF AnnounceFails, taskVars
    <3>2. handler[m].task = t /\ client[t] = "listening" => notified[t] >= 1
      BY <3>1 DEF Heard
    <3> QED
      BY <3>1, <3>2, <1>6, HeardMoved DEF Announcing
  <2>12. CASE Answer(m)
    <3>1. /\ UNCHANGED <<tasks, client, taskListeners, notified>> /\ handler[m].at = "scan"
          /\ handler' = [handler EXCEPT ![m] = Idle]
      BY <2>12 DEF Answer, taskVars
    <3> QED
      BY <3>1, <1>6, HeardMoved DEF Announcing
  <2> QED
    BY <1>8, <2>1, <2>2, <2>3, <2>4, <2>5, <2>6, <2>7, <2>8, <2>9, <2>10, <2>11, <2>12 DEF HandlerStep
<1> QED
  BY <1>1, <1>2, <1>3, <1>7, <1>8 DEF Next

\* A client whose listener is registered before its task is over has been told
\* by the time the last handler that saw the end is through
\* (HeartBeatProtocolImpl.java:53-54, MasterNode.java:1014-1021).
THEOREM EarlyListenersHear == Spec => []EarlyListenerHears
<1> DEFINE Inv == Formed /\ AllConsistent /\ \A t \in Task : Heard(t)
<1>1. Init => Inv
  <2> SUFFICES ASSUME Init, NEW t \in Task PROVE Heard(t)
    BY FormedInit, AllConsistentInit
  <2> QED
    BY DEF Init, Heard, Idle, Announcing
<1>2. Inv /\ [Next]_vars => Inv'
  BY FormedStep, AllConsistentStep, HeardStep
<1>3. Inv => EarlyListenerHears
  BY DEF Heard, EarlyListenerHears
<1> QED
  BY <1>1, <1>2, <1>3, PTL DEF Spec

-----------------------------------------------------------------------------
(* Nothing is announced before it is over.                                 *)

Contents(q) == {q[i] : i \in 1 .. Len(q)}

\* The sessions of one machine are finitely many, so that the messages for it
\* are a sequence.
LEMMA SessionsFinite ==
  ASSUME NEW nodes \in SUBSET Znode, NEW n \in Machine
  PROVE  Cardinality({z \in nodes : z[1] = n}) \in Nat
<1> DEFINE S == {z \in nodes : z[1] = n}
           f == [z \in S |-> z[2]]
<1>1. f \in Injection(S, 1 .. MaxSession)
  <2>1. f \in [S -> 1 .. MaxSession]
    BY DEF Znode
  <2>2. \A y, z \in S : f[y] = f[z] => y = z
    BY DEF Znode
  <2> QED
    BY <2>1, <2>2 DEF Injection, IsInjective
<1>2. IsFiniteSet(1 .. MaxSession)
  BY FS_Interval, MasterAssumption
<1>3. IsFiniteSet(S)
  BY <1>1, <1>2, FS_Injection
<1> QED
  BY <1>3, FS_CardinalityType

LEMMA Concatenated ==
  ASSUME NEW s \in Seq(Task), NEW u \in Seq(Task)
  PROVE  s \o u \in Seq(Task) /\ Contents(s \o u) = Contents(s) \cup Contents(u)
<1>1. s \o u \in Seq(Task) /\ Len(s \o u) = Len(s) + Len(u)
  OBVIOUS
<1>2. \A i \in 1 .. Len(s) : (s \o u)[i] = s[i]
  OBVIOUS
<1>3. \A i \in 1 .. Len(u) : Len(s) + i \in 1 .. Len(s \o u) /\ (s \o u)[Len(s) + i] = u[i]
  OBVIOUS
<1>4. \A i \in 1 .. Len(s \o u) :
        i \in 1 .. Len(s) \/ (i - Len(s) \in 1 .. Len(u) /\ (s \o u)[i] = u[i - Len(s)])
  BY <1>1
<1>5. \A i \in 1 .. Len(s) : i \in 1 .. Len(s \o u)
  BY <1>1
<1>6. Contents(s) \cup Contents(u) \subseteq Contents(s \o u)
  BY <1>2, <1>3, <1>5 DEF Contents
<1>7. Contents(s \o u) \subseteq Contents(s) \cup Contents(u)
  BY <1>2, <1>4 DEF Contents
<1> QED
  BY <1>1, <1>6, <1>7

\* What the messages of a handler add to the queues is its own task.
LEMMA SentContents ==
  ASSUME NEW m \in Machine, NEW nodes \in SUBSET Znode, handler[m].task \in Task,
         singleSlaveCmd \in [Machine -> Seq(Task)],
         NEW queues \in Sent(m, nodes)
  PROVE  /\ queues \in [Machine -> Seq(Task)]
         /\ \A n \in Machine : Contents(queues[n]) \subseteq Contents(singleSlaveCmd[n]) \cup {handler[m].task}
<1> DEFINE copies(n) == [i \in 1 .. Cardinality({z \in nodes : z[1] = n}) |-> handler[m].task]
<1>1. \A n \in Machine : copies(n) \in Seq(Task) /\ Contents(copies(n)) \subseteq {handler[m].task}
  <2> SUFFICES ASSUME NEW n \in Machine
               PROVE  copies(n) \in Seq(Task) /\ Contents(copies(n)) \subseteq {handler[m].task}
    OBVIOUS
  <2> DEFINE c == Cardinality({z \in nodes : z[1] = n})
  <2>1. c \in Nat
    BY SessionsFinite
  <2> HIDE DEF c
  <2>2. [i \in 1 .. c |-> handler[m].task] \in Seq(Task) /\ Len([i \in 1 .. c |-> handler[m].task]) = c
    BY <2>1
  <2>3. Contents([i \in 1 .. c |-> handler[m].task]) \subseteq {handler[m].task}
    BY <2>2 DEF Contents
  <2> QED
    BY <2>2, <2>3 DEF c
<1>2. PICK lost \in SUBSET Machine :
        queues = [n \in Machine |-> singleSlaveCmd[n] \o IF n \in lost THEN <<>> ELSE copies(n)]
  BY DEF Sent
<1> HIDE DEF copies
<1>3. ASSUME NEW n \in Machine
      PROVE  /\ queues[n] \in Seq(Task)
             /\ Contents(queues[n]) \subseteq Contents(singleSlaveCmd[n]) \cup {handler[m].task}
  <2>1. PICK u \in Seq(Task) : queues[n] = singleSlaveCmd[n] \o u /\ Contents(u) \subseteq {handler[m].task}
    <3>1. <<>> \in Seq(Task) /\ Contents(<<>>) = {}
      BY DEF Contents
    <3> QED
      BY <1>1, <1>2, <3>1
  <2> QED
    BY <2>1, Concatenated
<1> QED
  BY <1>2, <1>3

\* The state that only the announcements read.
FinishFormed ==
  /\ finishedTask \in [Task -> Nat] /\ singleSlaveCmd \in [Machine -> Seq(Task)]
  /\ up \subseteq Machine /\ broken \subseteq Znode

AnnouncedIsOver ==
  \A t \in Task :
    notified[t] > 0 \/ finishedTask[t] > 0 \/ (\E m \in Machine : t \in Contents(singleSlaveCmd[m]))
      => tasks[t].over

AnnounceInv == Formed /\ AllConsistent /\ (\A t \in Task : Heard(t)) /\ FinishFormed /\ AnnouncedIsOver

LEMMA FinishFormedStep == AnnounceInv /\ [Next]_vars => FinishFormed' /\ AnnouncedIsOver'
<1> SUFFICES ASSUME AnnounceInv, [Next]_vars PROVE FinishFormed' /\ AnnouncedIsOver'
  OBVIOUS
<1> USE DEF AnnounceInv
<1>0. \A t \in Task : tasks[t].over => tasks'[t].over
  BY OverStays
<1>1. ASSUME \/ \E m \in Machine :
                  \/ ReceiveHeartBeat(m) \/ Crash(m) \/ Register(m)
                  \/ \E t \in Task : PassRecord(m, t) \/ FindNearlyIdle(m, t) \/ SpiderRemoved(m, t)
                  \/ HandlerPoll(m) \/ CheckOver(m) \/ NotifyTest(m) \/ NotifyForget(m) \/ StartAnnounce(m)
             \/ \E t \in Task : SubmitTask(t) \/ AddTaskListener(t)
             \/ \E z \in Znode : ExpireSession(z) \/ StartRelease(z) \/ ReleaseFails(z)
             \/ \E t \in Task : ReleaseTask(t)
             \/ GetChildren \/ AddChildren \/ Relisten
             \/ UNCHANGED vars
      PROVE  FinishFormed' /\ AnnouncedIsOver'
  <2>1. UNCHANGED <<notified, finishedTask, singleSlaveCmd>>
    BY <1>1 DEF ReceiveHeartBeat, Crash, Register, PassRecord, FindNearlyIdle, SpiderRemoved, HandlerPoll,
         CheckOver, NotifyTest, NotifyForget, StartAnnounce, SubmitTask, AddTaskListener, ExpireSession,
         StartRelease, ReleaseFails, ReleaseTask, GetChildren, AddChildren, Relisten, vars, finishVars
  <2>2. up' \subseteq Machine /\ broken' \subseteq Znode
    BY <1>1 DEF FinishFormed, ReceiveHeartBeat, Crash, Register, PassRecord, FindNearlyIdle, SpiderRemoved,
         HandlerPoll, CheckOver, NotifyTest, NotifyForget, StartAnnounce, SubmitTask, AddTaskListener,
         ExpireSession, StartRelease, ReleaseFails, ReleaseTask, GetChildren, AddChildren, Relisten, vars,
         machineVars, watchVars
  <2>3. FinishFormed'
    BY <2>1, <2>2 DEF FinishFormed
  <2>4. AnnouncedIsOver'
    BY <1>0, <2>1 DEF AnnouncedIsOver
  <2> QED
    BY <2>3, <2>4
<1>2. ASSUME NEW m \in Machine, NotifyCall(m) PROVE FinishFormed' /\ AnnouncedIsOver'
  <2>1. /\ UNCHANGED <<finishedTask, singleSlaveCmd, up, broken>>
        /\ \A t \in Task : notified'[t] = notified[t] \/ (t = handler[m].task /\ handler[m].at = "call")
    BY <1>2 DEF NotifyCall, machineVars, watchVars, Formed, ClientsFormed
  <2>2. \A t \in Task : t = handler[m].task /\ handler[m].at = "call" => tasks[t].over
    BY DEF Heard, Announcing
  <2>3. FinishFormed'
    BY <2>1 DEF FinishFormed
  <2>4. AnnouncedIsOver'
    BY <1>0, <2>1, <2>2 DEF AnnouncedIsOver
  <2> QED
    BY <2>3, <2>4
<1>3. ASSUME NEW m \in Machine, handler[m].at = "send",
             NEW nodes \in SUBSET handler[m].seen, singleSlaveCmd' \in Sent(m, nodes),
             finishedTask' \in {finishedTask, [finishedTask EXCEPT ![handler[m].task] = @ + 1]},
             UNCHANGED <<notified, up, broken>>
      PROVE  FinishFormed' /\ AnnouncedIsOver'
  <2>1. handler[m].task \in Task /\ nodes \in SUBSET Znode
    BY <1>3 DEF Formed, HandlersFormed, Working, Handler
  <2>2. /\ singleSlaveCmd' \in [Machine -> Seq(Task)]
        /\ \A n \in Machine :
             Contents(singleSlaveCmd'[n]) \subseteq Contents(singleSlaveCmd[n]) \cup {handler[m].task}
    BY <1>3, <2>1, SentContents DEF FinishFormed
  <2>3. /\ finishedTask' \in [Task -> Nat]
        /\ \A t \in Task : finishedTask'[t] = finishedTask[t] \/ t = handler[m].task
    BY <1>3, <2>1 DEF FinishFormed
  <2>4. tasks[handler[m].task].over
    BY <1>3, <2>1 DEF Heard, Announcing
  <2>5. FinishFormed'
    BY <1>3, <2>2, <2>3 DEF FinishFormed
  <2>6. AnnouncedIsOver'
    BY <1>0, <1>3, <2>2, <2>3, <2>4 DEF AnnouncedIsOver
  <2> QED
    BY <2>5, <2>6
<1>4. ASSUME NEW m \in Machine, AnnounceFinish(m) PROVE FinishFormed' /\ AnnouncedIsOver'
  <2>1. /\ handler[m].at = "send" /\ singleSlaveCmd' \in Sent(m, handler[m].seen)
        /\ finishedTask' = [finishedTask EXCEPT ![handler[m].task] = @ + 1]
        /\ UNCHANGED <<notified, up, broken>>
    BY <1>4 DEF AnnounceFinish, machineVars, watchVars
  <2> QED
    BY <2>1, <1>3
<1>5. ASSUME NEW m \in Machine, AnnounceFails(m) PROVE FinishFormed' /\ AnnouncedIsOver'
  <2>1. PICK nodes \in SUBSET handler[m].seen : singleSlaveCmd' \in Sent(m, nodes)
    BY <1>5 DEF AnnounceFails
  <2>2. handler[m].at = "send" /\ UNCHANGED <<finishedTask, notified, up, broken>>
    BY <1>5 DEF AnnounceFails, machineVars, watchVars
  <2> QED
    BY <2>1, <2>2, <1>3
<1>6. ASSUME NEW n \in Machine, NEW q \in Seq(Task), Contents(q) \subseteq Contents(singleSlaveCmd[n]),
             singleSlaveCmd' = [singleSlaveCmd EXCEPT ![n] = q],
             UNCHANGED <<notified, finishedTask, up, broken>>
      PROVE  FinishFormed' /\ AnnouncedIsOver'
  <2>1. FinishFormed'
    BY <1>6 DEF FinishFormed
  <2>2. \A k \in Machine : Contents(singleSlaveCmd'[k]) \subseteq Contents(singleSlaveCmd[k])
    BY <1>6 DEF FinishFormed
  <2>3. AnnouncedIsOver'
    BY <1>0, <1>6, <2>2 DEF AnnouncedIsOver
  <2> QED
    BY <2>1, <2>3
<1>7. ASSUME NEW m \in Machine, Answer(m) PROVE FinishFormed' /\ AnnouncedIsOver'
  <2> DEFINE q == singleSlaveCmd[m]
             rest == IF q = <<>> THEN q ELSE Tail(q)
  <2>1. q \in Seq(Task)
    BY DEF FinishFormed
  <2>2. rest \in Seq(Task) /\ Contents(rest) \subseteq Contents(q)
    BY <2>1 DEF Contents
  <2>3. /\ singleSlaveCmd' = [singleSlaveCmd EXCEPT ![m] = rest]
        /\ UNCHANGED <<notified, finishedTask, up, broken>>
    BY <1>7 DEF Answer, machineVars, watchVars
  <2> QED
    BY <2>2, <2>3, <1>6
<1>8. ASSUME EndRelease PROVE FinishFormed' /\ AnnouncedIsOver'
  <2>1. watcher.node[1] \in Machine
    BY <1>8 DEF EndRelease, Formed, WatcherFormed, Znode
  <2>2. /\ singleSlaveCmd' = [singleSlaveCmd EXCEPT ![watcher.node[1]] = <<>>]
        /\ UNCHANGED <<notified, finishedTask, up, broken>>
    BY <1>8 DEF EndRelease, machineVars
  <2>3. <<>> \in Seq(Task) /\ Contents(<<>>) = {}
    BY DEF Contents
  <2> QED
    BY <2>1, <2>2, <2>3, <1>6
<1> QED
  BY <1>1, <1>2, <1>4, <1>5, <1>7, <1>8 DEF Next, HandlerStep, WatcherStep

LEMMA AnnounceInvHolds == Spec => []AnnounceInv
<1>1. Init => AnnounceInv
  <2> SUFFICES ASSUME Init PROVE AnnounceInv
    OBVIOUS
  <2>1. \A t \in Task : Heard(t)
    BY DEF Init, Heard, Idle, Announcing
  <2>2. FinishFormed
    BY MasterAssumption DEF Init, FinishFormed
  <2>3. AnnouncedIsOver
    BY DEF Init, AnnouncedIsOver, Contents
  <2> QED
    BY <2>1, <2>2, <2>3, FormedInit, AllConsistentInit DEF AnnounceInv
<1>2. AnnounceInv /\ [Next]_vars => AnnounceInv'
  BY FormedStep, AllConsistentStep, HeardStep, FinishFormedStep DEF AnnounceInv
<1> QED
  BY <1>1, <1>2, PTL DEF Spec

\* Type correctness of the master, its handlers and its event thread.
THEOREM MasterTypeCorrect == Spec => []TypeOK
<1>1. AnnounceInv => TypeOK
  BY DEF AnnounceInv, Formed, HandlersFormed, Handler, Working, WatcherFormed, Watcher, ClientsFormed,
         AllConsistent, FinishFormed, TypeOK
<1> QED
  BY <1>1, AnnounceInvHolds, PTL

\* Only a task that is over is announced to its client, to the followers and in
\* finishedTask (HeartBeatProtocolImpl.java:53-58).
THEOREM FinishMeansOver == Spec => []NoFinishBeforeOver
<1>1. AnnounceInv => NoFinishBeforeOver
  BY DEF AnnounceInv, Heard, Announcing, AnnouncedIsOver, Contents, NoFinishBeforeOver
<1> QED
  BY <1>1, AnnounceInvHolds, PTL
=============================================================================
