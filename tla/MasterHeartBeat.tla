-------------------------- MODULE MasterHeartBeat ---------------------------
(***************************************************************************)
(* The master's side of task distribution: the heartbeat handlers, one per *)
(* follower and all running at once on the web server's threads; the file  *)
(* server thread that submits a task and then registers its listener; and  *)
(* the ZooKeeper event thread that compares the slaves' znodes with a      *)
(* cache and takes the blocks of vanished machines back.                   *)
(*                                                                         *)
(* A handler is cut at each call into shared state, in the order of the    *)
(* code.  What a follower reports (its spider missing, busy, or at most a  *)
(* tenth of a block from idle) is arbitrary here.  A Bad... definition is  *)
(* a faulty variant of the one that follows it.                            *)
(***************************************************************************)
EXTENDS TaskRecord

CONSTANTS
  Task,           \* task ids
  InitialSlaves,  \* machines whose znode exists before the master starts to listen
  MaxSession,     \* bound: ZooKeeper sessions of one machine
  RecordLimit     \* MasterNode.java:411, 50 in the code

ASSUME MasterAssumption ==
  /\ InitialSlaves \subseteq Machine
  /\ MaxSession \in Nat \ {0}
  /\ RecordLimit \in Nat \ {0}

VARIABLES
  tasks,         \* the Task objects
  progress,      \* taskProgressRecord: the tasks the handlers look at
  client,        \* what the uploading thread has done for each task
  taskListeners, \* the tasks with an entry in the map
  notified,      \* finishNotify calls per task
  finishedTask,  \* occurrences of each task in the list
  singleSlaveCmd,\* TaskFinishedMsg queue per machine
  handler,       \* the running heartbeat handler of each machine
  up,            \* the machines whose process runs
  session,       \* the number of each machine's latest ZooKeeper session
  znodes,        \* the slaves' ephemeral znodes, as machine and session
  cache,         \* slaveZkNodesDataCache
  broken,        \* history: cached znodes whose release has failed
  watcher        \* the one-shot children watch and the thread that serves it

taskVars    == <<tasks, progress>>
finishVars  == <<client, taskListeners, notified, finishedTask, singleSlaveCmd>>
machineVars == <<up, session, znodes>>
watchVars   == <<cache, broken, watcher>>
vars == <<taskVars, finishVars, handler, machineVars, watchVars>>

-----------------------------------------------------------------------------
NoTask == "none"
Znode == Machine \X (1 .. MaxSession)
Idle == [at |-> "none", todo |-> {}, task |-> NoTask, seen |-> {}]
Armed == [at |-> "armed", children |-> {}, node |-> <<>>, todo |-> {}]

\* A vanishing or new child fires the watch if it is armed, and is missed
\* by a watch that is being served.
Touch(w) == IF w.at = "armed" THEN [w EXCEPT !.at = "fired"] ELSE w

Init ==
  /\ tasks = [t \in Task |-> NewTask]
  /\ progress = {}
  /\ client = [t \in Task |-> "new"]
  /\ taskListeners = {}
  /\ notified = [t \in Task |-> 0]
  /\ finishedTask = [t \in Task |-> 0]
  /\ singleSlaveCmd = [m \in Machine |-> <<>>]
  /\ handler = [m \in Machine |-> Idle]
  /\ up = InitialSlaves
  /\ session = [m \in Machine |-> IF m \in InitialSlaves THEN 1 ELSE 0]
  /\ znodes = InitialSlaves \X {1}
  /\ cache = {}
  /\ broken = {}
  /\ watcher = Armed

-----------------------------------------------------------------------------
(* Submission: FileServer's upload thread.                                 *)

BadDroppedAny == IF Cardinality(progress) >= RecordLimit THEN progress ELSE {}
Dropped == {s \in progress : Cardinality(progress) >= RecordLimit /\ tasks[s].over}

\* MasterNode.submitTask: a full record drops its finished tasks, then the
\* new one is put.  A checkpoint that is already running makes it throw after
\* the put, and then the client is told that the submission failed.  A
\* release that walks the record may or may not come across the new entry.
SubmitTask(t) ==
  /\ client[t] = "new"
  /\ progress' = (progress \ Dropped) \cup {t}
  /\ \E outcome \in {"submitted", "refused"} : client' = [client EXCEPT ![t] = outcome]
  /\ watcher' \in {watcher, [watcher EXCEPT !.todo = IF watcher.at = "releasing" THEN @ \cup {t} ELSE @]}
  /\ UNCHANGED <<tasks, taskListeners, notified, finishedTask, singleSlaveCmd,
                 handler, machineVars, cache, broken>>

\* MasterNode.addTaskListener, after submitTask has returned the task's id.
\* "late" records that the task was over by then.
AddTaskListener(t) ==
  /\ client[t] = "submitted"
  /\ client' = [client EXCEPT ![t] = IF tasks[t].over THEN "late" ELSE "listening"]
  /\ taskListeners' = taskListeners \cup {t}
  /\ UNCHANGED <<taskVars, notified, finishedTask, singleSlaveCmd,
                 handler, machineVars, watchVars>>

-----------------------------------------------------------------------------
(* HeartBeatProtocolImpl.handleHeartBeat for machine m.                    *)

Goto(m, place, t) == [handler EXCEPT ![m].at = place, ![m].task = t]
Passed(m, t)      == [handler EXCEPT ![m] = [Idle EXCEPT !.at = "scan", !.todo = handler[m].todo \ {t}]]

\* The handler takes a snapshot of the record.  (A paused master answers with
\* nothing, which changes nothing here: the heartbeat is as good as not sent.)
ReceiveHeartBeat(m) ==
  /\ m \in up /\ handler[m] = Idle
  /\ handler' = [handler EXCEPT ![m] = [Idle EXCEPT !.at = "scan", !.todo = progress]]
  /\ UNCHANGED <<taskVars, finishVars, machineVars, watchVars>>

\* The record is over, or the follower has too many pages left, or its spider
\* is not loaded and the answer carries a load command.
PassRecord(m, t) ==
  /\ handler[m].at = "scan" /\ t \in handler[m].todo
  /\ handler' = Passed(m, t)
  /\ UNCHANGED <<taskVars, finishVars, machineVars, watchVars>>

\* The follower's spider has left at most a tenth of a block.
FindNearlyIdle(m, t) ==
  /\ handler[m].at = "scan" /\ t \in handler[m].todo
  /\ ~tasks[t].over
  /\ handler' = Goto(m, "poll", t)
  /\ UNCHANGED <<taskVars, finishVars, machineVars, watchVars>>

\* getSpiderBizInOperation returns null for a removed spider and the handler
\* fails: nothing it has collected is sent.
SpiderRemoved(m, t) ==
  /\ handler[m].at = "scan" /\ t \in handler[m].todo
  /\ ~tasks[t].over
  /\ handler' = [handler EXCEPT ![m] = Idle]
  /\ UNCHANGED <<taskVars, finishVars, machineVars, watchVars>>

HandlerPoll(m) ==
  LET t == handler[m].task
  IN /\ handler[m].at = "poll"
     /\ tasks' = [tasks EXCEPT ![t] = CheckAndPoll(@, m)]
     /\ handler' = Goto(m, "polled", t)
     /\ UNCHANGED <<progress, finishVars, machineVars, watchVars>>

BadCheckOverMissing(m) ==
  /\ handler[m].at = "polled"
  /\ handler' = Goto(m, "notify", handler[m].task)
  /\ UNCHANGED <<taskVars, finishVars, machineVars, watchVars>>

\* The second isOver: true for every handler that polled an over task, not
\* only for the one whose poll ended it.
CheckOver(m) ==
  LET t == handler[m].task
  IN /\ handler[m].at = "polled"
     /\ handler' = IF tasks[t].over THEN Goto(m, "notify", t) ELSE Passed(m, t)
     /\ UNCHANGED <<taskVars, finishVars, machineVars, watchVars>>

BadNotifyForgetsFirst(m) ==
  LET t == handler[m].task
  IN /\ handler[m].at = "notify"
     /\ handler' = Goto(m, IF t \in taskListeners THEN "call" ELSE "announce", t)
     /\ taskListeners' = taskListeners \ {t}
     /\ UNCHANGED <<taskVars, client, notified, finishedTask, singleSlaveCmd,
                    machineVars, watchVars>>

\* notifyTaskListener: the test, the loop, the removal.  The map is a plain
\* HashMap, and an entry removed after the test makes the loop fail.
NotifyTest(m) ==
  LET t == handler[m].task
  IN /\ handler[m].at = "notify"
     /\ handler' = Goto(m, IF t \in taskListeners THEN "call" ELSE "announce", t)
     /\ UNCHANGED <<taskVars, finishVars, machineVars, watchVars>>

NotifyCall(m) ==
  LET t == handler[m].task
  IN /\ handler[m].at = "call"
     /\ IF t \in taskListeners
        THEN /\ notified' = [notified EXCEPT ![t] = @ + 1]
             /\ handler' = Goto(m, "forget", t)
        ELSE /\ handler' = [handler EXCEPT ![m] = Idle]
             /\ UNCHANGED notified
     /\ UNCHANGED <<taskVars, client, taskListeners, finishedTask, singleSlaveCmd,
                    machineVars, watchVars>>

NotifyForget(m) ==
  LET t == handler[m].task
  IN /\ handler[m].at = "forget"
     /\ taskListeners' = taskListeners \ {t}
     /\ handler' = Goto(m, "announce", t)
     /\ UNCHANGED <<taskVars, client, notified, finishedTask, singleSlaveCmd,
                    machineVars, watchVars>>

\* addMyCmd(TaskFinishedMsg) starts to iterate over the cache, a plain HashMap.
StartAnnounce(m) ==
  /\ handler[m].at = "announce"
  /\ handler' = [handler EXCEPT ![m].at = "send", ![m].seen = cache]
  /\ UNCHANGED <<taskVars, finishVars, machineVars, watchVars>>

\* A message for each cached znode.  Of two handlers that both find no queue
\* for a machine the second replaces the first one's queue.
Sent(m, nodes) ==
  LET copies(n) == [i \in 1 .. Cardinality({z \in nodes : z[1] = n}) |-> handler[m].task]
      lossy == {n \in Machine : singleSlaveCmd[n] = <<>>
                               /\ \E o \in Machine \ {m} : handler[o].at = "send"}
  IN {[n \in Machine |-> singleSlaveCmd[n] \o IF n \in lost THEN <<>> ELSE copies(n)] :
        lost \in SUBSET lossy}

\* The loop ends; taskProgressRecord.remove(record) is given a Task where the
\* keys are task ids and removes nothing; the task is added to finishedTask.
AnnounceFinish(m) ==
  LET t == handler[m].task
  IN /\ handler[m].at = "send"
     /\ singleSlaveCmd' \in Sent(m, handler[m].seen)
     /\ finishedTask' = [finishedTask EXCEPT ![t] = @ + 1]
     /\ handler' = Passed(m, t)
     /\ UNCHANGED <<taskVars, client, taskListeners, notified, machineVars, watchVars>>

\* The event thread has changed the cache under the iterator: the handler fails
\* after some of the messages, and the task is not added to finishedTask.
AnnounceFails(m) ==
  /\ handler[m].at = "send" /\ cache # handler[m].seen
  /\ \E nodes \in SUBSET handler[m].seen : singleSlaveCmd' \in Sent(m, nodes)
  /\ handler' = [handler EXCEPT ![m] = Idle]
  /\ UNCHANGED <<taskVars, client, taskListeners, notified, finishedTask,
                 machineVars, watchVars>>

\* getMyCmd: one waiting command goes with the answer.
Answer(m) ==
  /\ handler[m].at = "scan" /\ handler[m].todo = {}
  /\ singleSlaveCmd' = [singleSlaveCmd EXCEPT ![m] = IF @ = <<>> THEN @ ELSE Tail(@)]
  /\ handler' = [handler EXCEPT ![m] = Idle]
  /\ UNCHANGED <<taskVars, client, taskListeners, notified, finishedTask,
                 machineVars, watchVars>>

HandlerStep(m) ==
  \/ \E t \in Task : PassRecord(m, t) \/ FindNearlyIdle(m, t) \/ SpiderRemoved(m, t)
  \/ HandlerPoll(m) \/ CheckOver(m)
  \/ NotifyTest(m) \/ NotifyCall(m) \/ NotifyForget(m)
  \/ StartAnnounce(m) \/ AnnounceFinish(m) \/ AnnounceFails(m) \/ Answer(m)

-----------------------------------------------------------------------------
(* Machines and their znodes: SpiderProcess.                               *)

\* The process starts, or its expired session is replaced, and it registers
\* under a new sequential znode.
Register(m) ==
  /\ session[m] < MaxSession
  /\ m \in up => <<m, session[m]>> \notin znodes
  /\ up' = up \cup {m}
  /\ session' = [session EXCEPT ![m] = @ + 1]
  /\ znodes' = znodes \cup {<<m, session[m] + 1>>}
  /\ watcher' = Touch(watcher)
  /\ UNCHANGED <<taskVars, finishVars, handler, cache, broken>>

Crash(m) ==
  /\ m \in up
  /\ up' = up \ {m}
  /\ UNCHANGED <<taskVars, finishVars, handler, session, znodes, watchVars>>

\* ZooKeeper drops the znode of a session it has not heard of for 30 seconds,
\* whether the machine is dead or only cut off.
ExpireSession(z) ==
  /\ z \in znodes
  /\ znodes' = znodes \ {z}
  /\ watcher' = Touch(watcher)
  /\ UNCHANGED <<taskVars, finishVars, handler, up, session, cache, broken>>

-----------------------------------------------------------------------------
(* MasterNode.listenSlaveNodesStatus: the callback of the children watch.  *)

GetChildren ==
  /\ watcher.at = "fired"
  /\ watcher' = [watcher EXCEPT !.at = "removing", !.children = znodes]
  /\ UNCHANGED <<taskVars, finishVars, handler, machineVars, cache, broken>>

BadStartReleaseNoTasks(z) ==
  /\ watcher.at = "removing" /\ z \in cache \ watcher.children
  /\ watcher' = [watcher EXCEPT !.at = "releasing", !.node = z]
  /\ UNCHANGED <<taskVars, finishVars, handler, machineVars, cache, broken>>

\* releaseResource for a cached znode that is gone: it walks the tasks of the
\* record.  (The proxy addresses and accounts are in ResourceDistribution.)
StartRelease(z) ==
  /\ watcher.at = "removing" /\ z \in cache \ watcher.children
  /\ watcher' = [watcher EXCEPT !.at = "releasing", !.node = z, !.todo = progress]
  /\ UNCHANGED <<taskVars, finishVars, handler, machineVars, cache, broken>>

\* The walk over the addresses and accounts, which comes first, fails when
\* another thread changes one of their maps or lists under its iterator (see
\* ResourceDistribution): the callback goes straight to the next watch.
ReleaseFails(z) ==
  /\ watcher.at = "removing" /\ z \in cache \ watcher.children
  /\ broken' = broken \cup {z}
  /\ watcher' = [watcher EXCEPT !.at = "relisten", !.children = {}]
  /\ UNCHANGED <<taskVars, finishVars, handler, machineVars, cache>>

ReleaseTask(t) ==
  /\ watcher.at = "releasing" /\ t \in watcher.todo
  /\ tasks' = [tasks EXCEPT ![t] = ReturnCrawlTask(@, watcher.node[1])]
  /\ watcher' = [watcher EXCEPT !.todo = @ \ {t}]
  /\ UNCHANGED <<progress, finishVars, handler, machineVars, cache, broken>>

EndRelease ==
  /\ watcher.at = "releasing" /\ watcher.todo = {}
  /\ singleSlaveCmd' = [singleSlaveCmd EXCEPT ![watcher.node[1]] = <<>>]
  /\ cache' = cache \ {watcher.node}
  /\ watcher' = [watcher EXCEPT !.at = "removing", !.node = <<>>]
  /\ UNCHANGED <<taskVars, client, taskListeners, notified, finishedTask,
                 handler, machineVars, broken>>

\* The new children are read and cached; one that is gone by now ends the loop
\* with the others not added.
AddChildren ==
  /\ watcher.at = "removing" /\ cache \subseteq watcher.children
  /\ LET new == watcher.children \ cache
     IN \E added \in SUBSET (new \cap znodes) :
          /\ new \subseteq znodes => added = new
          /\ cache' = cache \cup added
  /\ watcher' = [watcher EXCEPT !.at = "relisten", !.children = {}]
  /\ UNCHANGED <<taskVars, finishVars, handler, machineVars, broken>>

\* The recursive call sets the next watch, and does not look at the children
\* that the same request returns.
Relisten ==
  /\ watcher.at = "relisten"
  /\ watcher' = Armed
  /\ UNCHANGED <<taskVars, finishVars, handler, machineVars, cache, broken>>

WatcherStep ==
  \/ GetChildren \/ EndRelease \/ AddChildren \/ Relisten
  \/ \E z \in Znode : StartRelease(z) \/ ReleaseFails(z)
  \/ \E t \in Task : ReleaseTask(t)

-----------------------------------------------------------------------------
Next ==
  \/ \E t \in Task : SubmitTask(t) \/ AddTaskListener(t)
  \/ \E m \in Machine : ReceiveHeartBeat(m) \/ HandlerStep(m)
  \/ \E m \in Machine : Register(m) \/ Crash(m)
  \/ \E z \in Znode : ExpireSession(z)
  \/ WatcherStep

Spec == Init /\ [][Next]_vars

\* The threads of the master are scheduled: a handler that has begun goes on,
\* and so does the ZooKeeper event thread.
Fairness == WF_vars(WatcherStep) /\ \A m \in Machine : WF_vars(HandlerStep(m))

FairSpec == Spec /\ Fairness
-----------------------------------------------------------------------------
(* Properties.                                                             *)

\* Type correctness of the master's and the threads' state.
TypeOK ==
  /\ tasks \in [Task -> TaskType]
  /\ progress \subseteq Task
  /\ client \in [Task -> {"new", "refused", "submitted", "listening", "late"}]
  /\ taskListeners \subseteq Task
  /\ notified \in [Task -> Nat] /\ finishedTask \in [Task -> Nat]
  /\ singleSlaveCmd \in [Machine -> Seq(Task)]
  /\ handler \in [Machine -> [at : {"none", "scan", "poll", "polled", "notify", "call",
                                   "forget", "announce", "send"},
                              todo : SUBSET Task, task : Task \cup {NoTask},
                              seen : SUBSET Znode]]
  /\ up \subseteq Machine
  /\ session \in [Machine -> 0 .. MaxSession]
  /\ znodes \subseteq Znode /\ cache \subseteq Znode /\ broken \subseteq Znode
  /\ watcher.at \in {"armed", "fired", "removing", "releasing", "relisten"}
  /\ watcher.children \subseteq Znode /\ watcher.todo \subseteq Task

\* Whatever the handlers, the submissions, the deaths and the releases do to
\* the tasks, and in whatever order, each keeps its blocks and its counts
\* (HeartBeatProtocolImpl.java:45-58, MasterNode.java:636-638).
TasksConsistent == \A t \in Task : Consistent(tasks[t])

\* A handler has still to see, or to tell, that the task is over.
Finishing(t) == \E m \in Machine :
  handler[m].task = t /\ handler[m].at \in {"polled", "notify", "call", "forget", "announce", "send"}

\* Only a task that is over is announced: to its client, to the followers,
\* which flush their pipelines on the message, and in finishedTask
\* (HeartBeatProtocolImpl.java:53-58).
NoFinishBeforeOver ==
  \A t \in Task :
    (\/ notified[t] > 0 \/ finishedTask[t] > 0
     \/ \E m \in Machine : \/ handler[m].task = t /\ handler[m].at \in {"notify", "call", "forget",
                                                                        "announce", "send"}
                           \/ \E i \in 1 .. Len(singleSlaveCmd[m]) : singleSlaveCmd[m][i] = t)
    => tasks[t].over

\* A client whose listener is registered before the task is over is told, once
\* the handlers that saw the end have passed (MasterNode.java:1014-1021).
EarlyListenerHears ==
  \A t \in Task : client[t] = "listening" /\ tasks[t].over /\ ~Finishing(t) => notified[t] >= 1

\* A submitted task stays in the record, where heartbeats and releases look for
\* it, until it is over; what a full record drops has no block waiting or held
\* (MasterNode.java:411-421).
UnfinishedTasksStay ==
  \A t \in Task : client[t] # "new" /\ t \notin progress =>
     tasks[t].over /\ Waiting(tasks[t]) = {} /\ Held(tasks[t]) = {}

\* When the children watch fires, every block of a machine that is dead, out of
\* ZooKeeper and known to the cache becomes available again, if no heartbeat of
\* that machine is still being handled and its release does not fail
\* (MasterNode.java:655-668).
Gone(m) == m \notin up /\ \A z \in znodes : z[1] # m

BlocksOfTheDeadReturn ==
  \A m \in Machine, t \in Task :
    (/\ watcher.at = "fired" /\ Gone(m) /\ handler[m] = Idle
     /\ \E z \in cache : z[1] = m
     /\ tasks[t].distributeLog[m] # NoBlock)
    ~> (tasks[t].distributeLog[m] = NoBlock \/ m \in up \/ \E z \in broken : z[1] = m)

-----------------------------------------------------------------------------
(* Statements of the repository's comments that the code does not keep.    *)

Quiet == watcher.at = "armed" /\ \A m \in Machine : handler[m] = Idle

\* MasterNode.java:614: releaseResource frees the resources of a dead node.  A
\* node that was there before the master listened is in no cache, and so is
\* not released when it dies.
DeadNodeHoldsNothing ==
  \A m \in Machine, t \in Task :
    Quiet /\ Gone(m) => tasks[t].distributeLog[m] = NoBlock

=============================================================================
