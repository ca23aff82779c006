-------------------- MODULE MasterCheckpoint_proofs -------------------------
(***************************************************************************)
(* Theorems about the checkpoints of the master and its restarts, for any  *)
(* machines, tasks, limits and numbers of starts and checkpoints.          *)
(***************************************************************************)
EXTENDS MasterCheckpoint, TaskRecord_proofs

-----------------------------------------------------------------------------
(* Types.                                                                  *)

Reading == thread.at \in {"log", "queue"}
Saving  == thread.at \notin {"none", "started"}

\* What the arguments need beyond the types: the thread is at a task when it
\* reads one, at a directory until it has stamped it, and what is being
\* submitted is seen.
Placed ==
  /\ Reading => thread.task \in Task
  /\ thread.at \notin {"none", "stamped"} => next \in Index
  /\ submitting \in Task => submitting \in filter

Typed == TypeOK /\ Placed

LEMMA CountTyped == TotalRow \in Nat /\ MaxIndex \in Nat /\ MaxCheckpoint \in Nat /\ MaxBoot \in Nat
BY RowAssumption, CheckpointAssumption

LEMMA NewTyped == NewTask \in TaskType /\ ~NewTask.over
BY NewTaskConsistent DEF Consistent, NewTask

LEMMA RowsTyped == \A b \in Block \cup {NoBlock} : RowsOrZero(b) \in Int
BY SizePositive DEF RowsOrZero

\* The two methods keep the type, also of a task that is not consistent.
LEMMA PollTyped ==
  ASSUME NEW tk \in TaskType, NEW m \in Machine
  PROVE  CheckAndPoll(tk, m) \in TaskType /\ (tk.over => CheckAndPoll(tk, m).over)
<1>1. /\ tk.taskQueue \in Seq(Block) /\ tk.distributeLog \in [Machine -> Block \cup {NoBlock}]
      /\ tk.distributedRows \in Int /\ tk.finishedRows \in Int
      /\ tk.over \in BOOLEAN /\ tk.credited \subseteq Block
  BY DEF TaskType
<1>2. RestQueue(tk) \in Seq(Block) /\ NextBlock(tk) \in Block \cup {NoBlock}
  BY <1>1 DEF RestQueue, NextBlock
<1>3. LogAfter(tk, m) \in [Machine -> Block \cup {NoBlock}]
  BY <1>1, <1>2 DEF LogAfter
<1>4. tk.distributedRows + RowsOrZero(NextBlock(tk)) \in Int
  BY <1>1, <1>2, RowsTyped
<1>5. tk.finishedRows + RowsOrZero(tk.distributeLog[m]) \in Int
  BY <1>1, RowsTyped
<1>6. (tk.over \/ EndsTask(tk, m)) \in BOOLEAN
  OBVIOUS
<1>7. tk.credited \cup ({tk.distributeLog[m]} \ {NoBlock}) \subseteq Block
  BY <1>1
<1>8. CheckAndPoll(tk, m) \in TaskType
  BY <1>2, <1>3, <1>4, <1>5, <1>6, <1>7 DEF CheckAndPoll, TaskType
<1>9. tk.over => CheckAndPoll(tk, m).over
  BY DEF CheckAndPoll
<1> QED
  BY <1>8, <1>9

LEMMA ReturnTyped ==
  ASSUME NEW tk \in TaskType, NEW m \in Machine
  PROVE  ReturnCrawlTask(tk, m) \in TaskType /\ ReturnCrawlTask(tk, m).over = tk.over
<1>1. CASE tk.distributeLog[m] = NoBlock
  BY <1>1 DEF ReturnCrawlTask
<1>2. CASE tk.distributeLog[m] # NoBlock
  <2> DEFINE b == tk.distributeLog[m]
  <2>1. b \in Block
    BY <1>2 DEF TaskType
  <2>2. Append(tk.taskQueue, b) \in Seq(Block)
    BY <2>1 DEF TaskType
  <2>3. tk.distributedRows - Size(b) \in Int
    BY <2>1, SizePositive DEF TaskType
  <2>4. [tk.distributeLog EXCEPT ![m] = NoBlock] \in [Machine -> Block \cup {NoBlock}]
    BY DEF TaskType
  <2>5. GiveBack(tk, m, b) \in TaskType /\ GiveBack(tk, m, b).over = tk.over
    BY <2>2, <2>3, <2>4 DEF GiveBack, TaskType
  <2> QED
    BY <1>2, <2>5 DEF ReturnCrawlTask
<1> QED
  BY <1>1, <1>2

\* The records of the thread and of a directory, field by field.
ThreadOf(at, todo, task, names, copies, thrTorn, spared, late) ==
  [at |-> at, todo |-> todo, task |-> task, names |-> names, copies |-> copies,
   torn |-> thrTorn, spared |-> spared, late |-> late]

DirectoryOf(exists, seen, whole, names, copies, stamped, dirTorn, spared, mixed) ==
  [exists |-> exists, seen |-> seen, whole |-> whole, names |-> names, copies |-> copies,
   stamped |-> stamped, torn |-> dirTorn, spared |-> spared, mixed |-> mixed]

LEMMA ThreadFields ==
  ASSUME TypeOK
  PROVE  /\ thread = ThreadOf(thread.at, thread.todo, thread.task, thread.names, thread.copies,
                              thread.torn, thread.spared, thread.late)
         /\ thread.at \in {"none", "started", "paused", "directory", "logs", "copying", "log", "queue",
                           "saved", "failed", "stamped"}
         /\ thread.todo \subseteq Task /\ thread.task \in Task \cup {NoTask} /\ thread.names \subseteq Task
         /\ thread.copies \in [Task -> TaskType] /\ thread.torn \subseteq Task
         /\ thread.spared \subseteq Task /\ thread.late \subseteq Machine
BY DEF TypeOK, ThreadType, ThreadOf

LEMMA ThreadTyped ==
  ASSUME NEW at \in {"none", "started", "paused", "directory", "logs", "copying", "log", "queue",
                     "saved", "failed", "stamped"},
         NEW todo \in SUBSET Task, NEW task \in Task \cup {NoTask}, NEW names \in SUBSET Task,
         NEW copies \in [Task -> TaskType], NEW thrTorn \in SUBSET Task, NEW spared \in SUBSET Task,
         NEW late \in SUBSET Machine
  PROVE  ThreadOf(at, todo, task, names, copies, thrTorn, spared, late) \in ThreadType
BY DEF ThreadOf, ThreadType

LEMMA DirectoryFields ==
  ASSUME TypeOK, NEW i \in Index
  PROVE  /\ disk[i] = DirectoryOf(disk[i].exists, disk[i].seen, disk[i].whole, disk[i].names, disk[i].copies,
                                  disk[i].stamped, disk[i].torn, disk[i].spared, disk[i].mixed)
         /\ disk[i].exists \in BOOLEAN /\ disk[i].seen \subseteq Task /\ disk[i].whole \in BOOLEAN
         /\ disk[i].names \subseteq Task /\ disk[i].copies \in [Task -> TaskType]
         /\ disk[i].stamped \in BOOLEAN /\ disk[i].torn \subseteq Task
         /\ disk[i].spared \subseteq Task /\ disk[i].mixed \in BOOLEAN
BY DEF TypeOK, DirectoryType, DirectoryOf

LEMMA DirectoryTyped ==
  ASSUME NEW exists \in BOOLEAN, NEW seen \in SUBSET Task, NEW whole \in BOOLEAN, NEW names \in SUBSET Task,
         NEW copies \in [Task -> TaskType], NEW stamped \in BOOLEAN, NEW dirTorn \in SUBSET Task,
         NEW spared \in SUBSET Task, NEW mixed \in BOOLEAN
  PROVE  DirectoryOf(exists, seen, whole, names, copies, stamped, dirTorn, spared, mixed) \in DirectoryType
BY DEF DirectoryOf, DirectoryType

LEMMA NoThreadTyped ==
  /\ NoThread = ThreadOf("none", {}, NoTask, {}, NoTasks, {}, {}, {})
  /\ NoTasks \in [Task -> TaskType]
  /\ EmptyDirectory = DirectoryOf(FALSE, {}, FALSE, {}, NoTasks, FALSE, {}, {}, FALSE)
BY NewTyped DEF NoThread, NoTasks, EmptyDirectory, ThreadOf, DirectoryOf

-----------------------------------------------------------------------------
(* What the steps do to the two records.                                   *)

\* A copy into which one field of a task was read.
WithLog(copies, t, log)     == [copies EXCEPT ![t] = [copies[t] EXCEPT !.distributeLog = log]]
WithQueue(copies, t, queue) == [copies EXCEPT ![t] = [copies[t] EXCEPT !.taskQueue = queue]]
Counters(t) ==
  [taskQueue       |-> NewTask.taskQueue,
   distributeLog   |-> NewTask.distributeLog,
   distributedRows |-> tasks[t].distributedRows,
   finishedRows    |-> tasks[t].finishedRows,
   over            |-> tasks[t].over,
   credited        |-> tasks[t].credited]

LEMMA WithLogTyped ==
  ASSUME NEW c \in [Task -> TaskType], NEW t \in Task, NEW log \in [Machine -> Block \cup {NoBlock}]
  PROVE  /\ WithLog(c, t, log) \in [Task -> TaskType]
         /\ WithLog(c, t, log)[t] = [c[t] EXCEPT !.distributeLog = log]
         /\ \A s \in Task \ {t} : WithLog(c, t, log)[s] = c[s]
<1>1. [c[t] EXCEPT !.distributeLog = log] \in TaskType
  BY DEF TaskType
<1> QED
  BY <1>1 DEF WithLog

LEMMA WithQueueTyped ==
  ASSUME NEW c \in [Task -> TaskType], NEW t \in Task, NEW queue \in Seq(Block)
  PROVE  /\ WithQueue(c, t, queue) \in [Task -> TaskType]
         /\ WithQueue(c, t, queue)[t] = [c[t] EXCEPT !.taskQueue = queue]
         /\ \A s \in Task \ {t} : WithQueue(c, t, queue)[s] = c[s]
<1>1. [c[t] EXCEPT !.taskQueue = queue] \in TaskType
  BY DEF TaskType
<1> QED
  BY <1>1 DEF WithQueue

LEMMA ReadsOldEffect ==
  ASSUME TypeOK
  PROVE  ReadsOld =
    IF Reading /\ thread.task = submitting
    THEN ThreadOf("copying", thread.todo, NoTask, thread.names \cup {submitting},
                  WithQueue(WithLog(thread.copies, submitting, tasks[submitting].distributeLog),
                            submitting, tasks[submitting].taskQueue),
                  thread.torn, thread.spared, thread.late)
    ELSE thread
<1>1. CASE Reading /\ thread.task = submitting
  <2> DEFINE new == [thread EXCEPT !.at = "copying", !.task = NoTask, !.names = @ \cup {submitting}]
             logged == [new EXCEPT !.copies[submitting].distributeLog = tasks[submitting].distributeLog]
  <2>1. ReadsOld = [logged EXCEPT !.copies[submitting].taskQueue = tasks[submitting].taskQueue]
    BY <1>1 DEF ReadsOld, Reading
  <2>2. logged = [new EXCEPT !.copies = WithLog(new.copies, submitting, tasks[submitting].distributeLog)]
    BY DEF WithLog
  <2>3. new = [thread EXCEPT !.at = "copying", !.task = NoTask, !.names = @ \cup {submitting}]
    OBVIOUS
  <2> HIDE DEF logged, new
  <2>4. new = ThreadOf("copying", thread.todo, NoTask, thread.names \cup {submitting}, thread.copies,
                       thread.torn, thread.spared, thread.late)
    BY <2>3, ThreadFields DEF ThreadOf
  <2>5. logged = ThreadOf("copying", thread.todo, NoTask, thread.names \cup {submitting},
                          WithLog(thread.copies, submitting, tasks[submitting].distributeLog),
                          thread.torn, thread.spared, thread.late)
    BY <2>2, <2>4 DEF ThreadOf
  <2>6. ReadsOld = [logged EXCEPT !.copies = WithQueue(logged.copies, submitting, tasks[submitting].taskQueue)]
    BY <2>1 DEF WithQueue
  <2> QED
    BY <1>1, <2>5, <2>6 DEF ThreadOf
<1>2. CASE ~(Reading /\ thread.task = submitting)
  BY <1>2 DEF ReadsOld, Reading
<1> QED
  BY <1>1, <1>2

\* A submission starts the thread, leaves it alone, ends its reading of a task
\* that is replaced, or puts itself before it.
LEMMA PutEffect ==
  ASSUME TypeOK, PutTask
  PROVE  \/ /\ thread.at = "none" /\ next \in Index
            /\ thread' = ThreadOf("started", {}, NoTask, {}, NoTasks, {}, {}, {})
         \/ thread' = ReadsOld
         \/ /\ thread.at \in {"copying", "log", "queue"}
            /\ thread' = ThreadOf(ReadsOld.at, ReadsOld.todo \cup {submitting}, ReadsOld.task, ReadsOld.names,
                                  ReadsOld.copies, ReadsOld.torn, ReadsOld.spared, ReadsOld.late)
<1>1. CASE StartsCheckpoint
  <2>1. thread' = [NoThread EXCEPT !.at = "started"] /\ thread.at = "none" /\ next \in Index
    BY <1>1, CountTyped DEF PutTask, StartsCheckpoint, TypeOK, Index
  <2> QED
    BY <2>1, NoThreadTyped DEF ThreadOf
<1>2. CASE ~StartsCheckpoint
  <2>1. CASE thread' = ReadsOld
    BY <2>1
  <2>2. CASE /\ thread.at \in {"copying", "log", "queue"}
             /\ thread' = [ReadsOld EXCEPT !.todo = @ \cup {submitting}]
    <3>1. ReadsOld = ThreadOf(ReadsOld.at, ReadsOld.todo, ReadsOld.task, ReadsOld.names,
                              ReadsOld.copies, ReadsOld.torn, ReadsOld.spared, ReadsOld.late)
      BY ReadsOldEffect, ThreadFields DEF ThreadOf
    <3> QED
      BY <2>2, <3>1 DEF ThreadOf
  <2> QED
    BY <1>2, <2>1, <2>2 DEF PutTask
<1> QED
  BY <1>1, <1>2

LEMMA TornEffect ==
  ASSUME TypeOK, NEW S, thread' = [thread EXCEPT !.torn = S]
  PROVE  thread' = ThreadOf(thread.at, thread.todo, thread.task, thread.names, thread.copies,
                            S, thread.spared, thread.late)
BY ThreadFields DEF ThreadOf

LEMMA AnswerEffect ==
  ASSUME TypeOK, NEW m \in Machine, Answer(m)
  PROVE  thread' = ThreadOf(thread.at, thread.todo, thread.task, thread.names, thread.copies,
                            thread.torn, thread.spared, thread.late \ {m})
BY ThreadFields DEF Answer, ThreadOf

LEMMA PauseEffect ==
  ASSUME TypeOK, Pause
  PROVE  thread' = ThreadOf("paused", thread.todo, thread.task, thread.names, thread.copies,
                            thread.torn, thread.spared, handlers)
BY ThreadFields DEF Pause, ThreadOf

LEMMA GotoEffect ==
  ASSUME TypeOK, NEW place, thread' = Goto(place)
  PROVE  thread' = ThreadOf(place, thread.todo, thread.task, thread.names, thread.copies,
                            thread.torn, thread.spared, thread.late)
BY ThreadFields DEF Goto, ThreadOf

LEMMA OpenEffect ==
  ASSUME TypeOK, OpenRecord
  PROVE  thread' = ThreadOf("copying", progress, thread.task, thread.names, thread.copies, thread.torn,
                            orphans \cup {t \in Task : tasks[t].over} \cup ({submitting} \ {NoTask}),
                            thread.late)
BY ThreadFields DEF OpenRecord, ThreadOf

LEMMA SkipEffect ==
  ASSUME TypeOK, NEW t \in Task, SkipDropped(t)
  PROVE  thread' = ThreadOf(thread.at, thread.todo \ {t}, thread.task, thread.names, thread.copies,
                            thread.torn, thread.spared \cup {t}, thread.late)
BY ThreadFields DEF SkipDropped, ThreadOf

LEMMA CountersEffect ==
  ASSUME TypeOK, NEW t \in Task, CopyCounters(t)
  PROVE  thread' = ThreadOf("log", thread.todo \ {t}, t, thread.names,
                            [thread.copies EXCEPT ![t] = Counters(t)],
                            thread.torn \cup (torn \cap {t}), thread.spared, thread.late)
<1> DEFINE counted == [NewTask EXCEPT !.distributedRows = tasks[t].distributedRows,
                                     !.finishedRows    = tasks[t].finishedRows,
                                     !.over            = tasks[t].over,
                                     !.credited        = tasks[t].credited]
<1>1. NewTask = [taskQueue |-> NewTask.taskQueue, distributeLog |-> NewTask.distributeLog,
                 distributedRows |-> NewTask.distributedRows, finishedRows |-> NewTask.finishedRows,
                 over |-> NewTask.over, credited |-> NewTask.credited]
  BY DEF NewTask
<1>2. counted = [NewTask EXCEPT !.distributedRows = tasks[t].distributedRows,
                               !.finishedRows    = tasks[t].finishedRows,
                               !.over            = tasks[t].over,
                               !.credited        = tasks[t].credited]
  OBVIOUS
<1>3. thread' = [thread EXCEPT !.at = "log", !.task = t, !.todo = @ \ {t},
                   !.torn = @ \cup (torn \cap {t}), !.copies[t] = counted]
  BY DEF CopyCounters
<1> HIDE DEF counted
<1>4. counted = Counters(t)
  BY <1>1, <1>2 DEF Counters
<1>5. thread' = ThreadOf("log", thread.todo \ {t}, t, thread.names, [thread.copies EXCEPT ![t] = counted],
                         thread.torn \cup (torn \cap {t}), thread.spared, thread.late)
  BY <1>3, ThreadFields DEF ThreadOf
<1> QED
  BY <1>4, <1>5

LEMMA LogEffect ==
  ASSUME TypeOK, CopyLog
  PROVE  thread' = ThreadOf("queue", thread.todo, thread.task, thread.names,
                            WithLog(thread.copies, thread.task, tasks[thread.task].distributeLog),
                            thread.torn, thread.spared, thread.late)
BY ThreadFields DEF CopyLog, WithLog, ThreadOf

LEMMA QueueEffect ==
  ASSUME TypeOK, CopyQueue
  PROVE  thread' = ThreadOf("copying", thread.todo, NoTask, thread.names \cup {thread.task},
                            WithQueue(thread.copies, thread.task, tasks[thread.task].taskQueue),
                            thread.torn, thread.spared, thread.late)
BY ThreadFields DEF CopyQueue, WithQueue, ThreadOf

\* The steps that write into the directory of the running checkpoint.
Write(d) == disk' = [disk EXCEPT ![next] = d]

LEMMA SaveLogsWrites ==
  ASSUME TypeOK, next \in Index, SaveLogs
  PROVE  Write(DirectoryOf(disk[next].exists, filter, disk[next].whole, disk[next].names, disk[next].copies,
           disk[next].stamped, disk[next].torn, disk[next].spared, disk[next].whole))
<1> DEFINE old == disk[next]
           d   == [disk[next] EXCEPT !.seen = filter, !.mixed = disk[next].whole]
<1>1. d = [old EXCEPT !.seen = filter, !.mixed = old.whole]
  OBVIOUS
<1>2. disk' = [disk EXCEPT ![next] = d]
  BY DEF SaveLogs, TypeOK
<1>3. old = DirectoryOf(old.exists, old.seen, old.whole, old.names, old.copies,
                        old.stamped, old.torn, old.spared, old.mixed)
  BY DirectoryFields
<1> HIDE DEF d, old
<1>4. d = DirectoryOf(old.exists, filter, old.whole, old.names, old.copies,
           old.stamped, old.torn, old.spared, old.whole)
  BY <1>1, <1>3 DEF DirectoryOf
<1> QED
  BY <1>2, <1>4 DEF Write, old

LEMMA OpenWrites ==
  ASSUME TypeOK, next \in Index, OpenRecord
  PROVE  Write(DirectoryOf(disk[next].exists, disk[next].seen, FALSE, disk[next].names, disk[next].copies,
           disk[next].stamped, disk[next].torn, disk[next].spared, FALSE))
<1> DEFINE old == disk[next]
           d   == [disk[next] EXCEPT !.whole = FALSE, !.mixed = FALSE]
<1>1. d = [old EXCEPT !.whole = FALSE, !.mixed = FALSE]
  OBVIOUS
<1>2. disk' = [disk EXCEPT ![next] = d]
  BY DEF OpenRecord, TypeOK
<1>3. old = DirectoryOf(old.exists, old.seen, old.whole, old.names, old.copies,
                        old.stamped, old.torn, old.spared, old.mixed)
  BY DirectoryFields
<1> HIDE DEF d, old
<1>4. d = DirectoryOf(old.exists, old.seen, FALSE, old.names, old.copies,
           old.stamped, old.torn, old.spared, FALSE)
  BY <1>1, <1>3 DEF DirectoryOf
<1> QED
  BY <1>2, <1>4 DEF Write, old

LEMMA CloseWrites ==
  ASSUME TypeOK, next \in Index, CloseRecord
  PROVE  Write(DirectoryOf(disk[next].exists, disk[next].seen, TRUE, thread.names, thread.copies,
           disk[next].stamped, thread.torn, thread.spared, disk[next].mixed))
<1> DEFINE old == disk[next]
           d   == [disk[next] EXCEPT !.whole = TRUE, !.names = thread.names, !.copies = thread.copies,
                           !.torn = thread.torn, !.spared = thread.spared]
<1>1. d = [old EXCEPT !.whole = TRUE, !.names = thread.names, !.copies = thread.copies,
                           !.torn = thread.torn, !.spared = thread.spared]
  OBVIOUS
<1>2. disk' = [disk EXCEPT ![next] = d]
  BY DEF CloseRecord, TypeOK
<1>3. old = DirectoryOf(old.exists, old.seen, old.whole, old.names, old.copies,
                        old.stamped, old.torn, old.spared, old.mixed)
  BY DirectoryFields
<1> HIDE DEF d, old
<1>4. d = DirectoryOf(old.exists, old.seen, TRUE, thread.names, thread.copies,
           old.stamped, thread.torn, thread.spared, old.mixed)
  BY <1>1, <1>3 DEF DirectoryOf
<1> QED
  BY <1>2, <1>4 DEF Write, old

LEMMA StampWrites ==
  ASSUME TypeOK, next \in Index, Stamp
  PROVE  Write(DirectoryOf(disk[next].exists, disk[next].seen, disk[next].whole, disk[next].names,
           disk[next].copies, disk[next].stamped \/ thread.at = "saved", disk[next].torn,
           disk[next].spared, disk[next].mixed))
<1> DEFINE old == disk[next]
           d   == [disk[next] EXCEPT !.stamped = @ \/ thread.at = "saved"]
<1>1. d = [old EXCEPT !.stamped = @ \/ thread.at = "saved"]
  OBVIOUS
<1>2. disk' = [disk EXCEPT ![next] = d]
  BY DEF Stamp, TypeOK
<1>3. old = DirectoryOf(old.exists, old.seen, old.whole, old.names, old.copies,
                        old.stamped, old.torn, old.spared, old.mixed)
  BY DirectoryFields
<1> HIDE DEF d, old
<1>4. d = DirectoryOf(old.exists, old.seen, old.whole, old.names,
           old.copies, old.stamped \/ thread.at = "saved", old.torn,
           old.spared, old.mixed)
  BY <1>1, <1>3 DEF DirectoryOf
<1> QED
  BY <1>2, <1>4 DEF Write, old

LEMMA MakeEffect ==
  ASSUME TypeOK, next \in Index, MakeDirectory
  PROVE  /\ disk' \in [Index -> DirectoryType]
         /\ \A i \in Index :
              /\ i \notin SmallestDeleted =>
                   disk'[i] = DirectoryOf(disk[i].exists \/ i = next, disk[i].seen, disk[i].whole, disk[i].names,
                                          disk[i].copies, disk[i].stamped, disk[i].torn, disk[i].spared,
                                          disk[i].mixed)
              /\ i \in SmallestDeleted =>
                   disk'[i] = DirectoryOf(i = next, {}, FALSE, {}, NoTasks, FALSE, {}, {}, FALSE)
<1> DEFINE left(i) == IF i \in SmallestDeleted THEN EmptyDirectory ELSE disk[i]
<1>1. disk' = [i \in Index |-> IF i = next THEN [left(i) EXCEPT !.exists = TRUE] ELSE left(i)]
  BY DEF MakeDirectory
<1>2. ASSUME NEW i \in Index, i \notin SmallestDeleted
      PROVE  /\ disk'[i] = DirectoryOf(disk[i].exists \/ i = next, disk[i].seen, disk[i].whole, disk[i].names,
                                       disk[i].copies, disk[i].stamped, disk[i].torn, disk[i].spared,
                                       disk[i].mixed)
             /\ disk'[i] \in DirectoryType
  <2> DEFINE old == disk[i]
             d   == disk'[i]
  <2>1. d = IF i = next THEN [old EXCEPT !.exists = TRUE] ELSE old
    BY <1>1, <1>2
  <2>2. old = DirectoryOf(old.exists, old.seen, old.whole, old.names, old.copies,
                          old.stamped, old.torn, old.spared, old.mixed)
        /\ old.exists \in BOOLEAN
    BY DirectoryFields
  <2> HIDE DEF d, old
  <2>3. d = DirectoryOf(old.exists \/ i = next, old.seen, old.whole, old.names, old.copies,
                        old.stamped, old.torn, old.spared, old.mixed)
    BY <2>1, <2>2 DEF DirectoryOf
  <2>4. DirectoryOf(disk[i].exists \/ i = next, disk[i].seen, disk[i].whole, disk[i].names, disk[i].copies,
                    disk[i].stamped, disk[i].torn, disk[i].spared, disk[i].mixed) \in DirectoryType
    BY DirectoryFields, DirectoryTyped
  <2> QED
    BY <2>3, <2>4 DEF d, old
<1>3. ASSUME NEW i \in Index, i \in SmallestDeleted
      PROVE  /\ disk'[i] = DirectoryOf(i = next, {}, FALSE, {}, NoTasks, FALSE, {}, {}, FALSE)
             /\ disk'[i] \in DirectoryType
  <2> DEFINE old == EmptyDirectory
             d   == disk'[i]
  <2>1. d = IF i = next THEN [old EXCEPT !.exists = TRUE] ELSE old
    BY <1>1, <1>3
  <2>2. old = DirectoryOf(FALSE, {}, FALSE, {}, NoTasks, FALSE, {}, {}, FALSE)
    BY NoThreadTyped
  <2> HIDE DEF d, old
  <2>3. d = DirectoryOf(i = next, {}, FALSE, {}, NoTasks, FALSE, {}, {}, FALSE)
    BY <2>1, <2>2 DEF DirectoryOf
  <2>4. DirectoryOf(i = next, {}, FALSE, {}, NoTasks, FALSE, {}, {}, FALSE) \in DirectoryType
    BY NoThreadTyped, DirectoryTyped
  <2> QED
    BY <2>3, <2>4 DEF d
<1>4. \A i \in Index : disk'[i] \in DirectoryType
  BY <1>2, <1>3
<1>5. disk' = [i \in Index |-> disk'[i]]
  BY <1>1
<1>6. disk' \in [Index -> DirectoryType]
  BY <1>4, <1>5
<1> QED
  BY <1>2, <1>3, <1>6

-----------------------------------------------------------------------------
(* Type correctness.                                                       *)

LEMMA WriteTyped ==
  ASSUME TypeOK, next \in Index, NEW d \in DirectoryType, Write(d)
  PROVE  disk' \in [Index -> DirectoryType] /\ disk'[next] = d
         /\ \A i \in Index \ {next} : disk'[i] = disk[i]
BY DEF TypeOK, Write

LEMMA ReadsOldTyped ==
  ASSUME Typed, submitting \in Task
  PROVE  /\ ReadsOld = ThreadOf(ReadsOld.at, ReadsOld.todo, ReadsOld.task, ReadsOld.names, ReadsOld.copies,
                                ReadsOld.torn, ReadsOld.spared, ReadsOld.late)
         /\ ReadsOld \in ThreadType
         /\ ReadsOld.at \in {"log", "queue"} => ReadsOld.task \in Task /\ ReadsOld = thread
         /\ ReadsOld.at = thread.at \/ (ReadsOld.at = "copying" /\ Reading)
         /\ ReadsOld.todo = thread.todo
<1>1. TypeOK /\ thread \in ThreadType /\ tasks[submitting] \in TaskType
  BY DEF Typed, TypeOK
<1>2. CASE Reading /\ thread.task = submitting
  <2> DEFINE logged == WithLog(thread.copies, submitting, tasks[submitting].distributeLog)
             copied == WithQueue(logged, submitting, tasks[submitting].taskQueue)
  <2>1. ReadsOld = ThreadOf("copying", thread.todo, NoTask, thread.names \cup {submitting}, copied,
                            thread.torn, thread.spared, thread.late)
    BY <1>1, <1>2, ReadsOldEffect
  <2>2. /\ tasks[submitting].distributeLog \in [Machine -> Block \cup {NoBlock}]
        /\ tasks[submitting].taskQueue \in Seq(Block)
    BY <1>1 DEF TaskType
  <2>3. logged \in [Task -> TaskType]
    BY <1>1, <2>2, WithLogTyped, ThreadFields
  <2>4. copied \in [Task -> TaskType]
    BY <2>2, <2>3, WithQueueTyped
  <2>5. thread.names \cup {submitting} \in SUBSET Task
    BY <1>1, ThreadFields
  <2> HIDE DEF logged, copied
  <2>6. ReadsOld \in ThreadType
    BY <1>1, <2>1, <2>4, <2>5, ThreadFields, ThreadTyped
  <2> QED
    BY <1>2, <2>1, <2>6 DEF ThreadOf
<1>3. CASE ~(Reading /\ thread.task = submitting)
  <2>1. ReadsOld = thread
    BY <1>1, <1>3, ReadsOldEffect
  <2> QED
    BY <1>1, <2>1, ThreadFields DEF Typed, Placed, Reading
<1> QED
  BY <1>2, <1>3

LEMMA TypedInit == Init => Typed
<1> SUFFICES ASSUME Init PROVE Typed
  OBVIOUS
<1>1. thread \in ThreadType
  BY NoThreadTyped, ThreadTyped DEF Init
<1>2. EmptyDirectory \in DirectoryType
  BY NoThreadTyped, DirectoryTyped
<1>3. disk \in [Index -> DirectoryType]
  BY <1>2 DEF Init
<1>4. next \in 1 .. MaxIndex + 1 /\ boots \in 1 .. MaxBoot
  BY CheckpointAssumption DEF Init
<1>5. TypeOK
  BY <1>1, <1>3, <1>4, NoThreadTyped DEF Init, TypeOK
<1>6. Placed
  BY CheckpointAssumption DEF Init, Placed, Reading, NoThread
<1> QED
  BY <1>5, <1>6 DEF Typed

\* What a submission does to the thread, for the arguments about the rest.
LEMMA PutTyped ==
  ASSUME Typed, PutTask
  PROVE  /\ submitting \in Task
         /\ thread' \in ThreadType
         /\ thread'.at \in {"log", "queue"} => thread'.task \in Task
         /\ thread'.at \notin {"none", "stamped"} => next \in Index
<1>1. TypeOK /\ submitting \in Task
  BY DEF Typed, TypeOK, PutTask
<1>2. CASE /\ thread.at = "none" /\ next \in Index
           /\ thread' = ThreadOf("started", {}, NoTask, {}, NoTasks, {}, {}, {})
  <2>1. thread' \in ThreadType
    BY <1>2, NoThreadTyped, ThreadTyped
  <2> QED
    BY <1>1, <1>2, <2>1 DEF ThreadOf
<1>3. CASE thread' = ReadsOld
  BY <1>1, <1>3, ReadsOldTyped DEF Typed, Placed, Reading
<1>4. CASE /\ thread.at \in {"copying", "log", "queue"}
           /\ thread' = ThreadOf(ReadsOld.at, ReadsOld.todo \cup {submitting}, ReadsOld.task, ReadsOld.names,
                                 ReadsOld.copies, ReadsOld.torn, ReadsOld.spared, ReadsOld.late)
  <2>1. ReadsOld \in ThreadType
    BY <1>1, ReadsOldTyped
  <2>2. thread' \in ThreadType
    <3> DEFINE old == ReadsOld
    <3>1. old \in ThreadType
      BY <2>1
    <3> HIDE DEF old
    <3>2. /\ old.at \in {"none", "started", "paused", "directory", "logs", "copying", "log", "queue",
                         "saved", "failed", "stamped"}
          /\ old.todo \cup {submitting} \in SUBSET Task /\ old.task \in Task \cup {NoTask}
          /\ old.names \in SUBSET Task /\ old.copies \in [Task -> TaskType] /\ old.torn \in SUBSET Task
          /\ old.spared \in SUBSET Task /\ old.late \in SUBSET Machine
      BY <1>1, <3>1 DEF ThreadType
    <3>3. ThreadOf(old.at, old.todo \cup {submitting}, old.task, old.names, old.copies, old.torn,
                   old.spared, old.late) \in ThreadType
      BY <3>2, ThreadTyped
    <3> QED
      BY <1>4, <3>3 DEF old
  <2> QED
    BY <1>1, <1>4, <2>2, ReadsOldTyped DEF ThreadOf, Typed, Placed, Reading
<1> QED
  BY <1>1, <1>2, <1>3, <1>4, PutEffect

LEMMA TypedStep ==
  ASSUME Typed, Next
  PROVE  Typed'
<1> USE DEF recordVars, urlVars, submitVars, saveVars
<1>0. /\ TypeOK /\ Placed
      /\ thread.at \in {"directory", "logs", "copying", "log", "queue", "saved", "failed"} => next \in Index
      /\ next \in 1 .. MaxIndex + 1
  BY DEF Typed, Placed, TypeOK
<1>1. ASSUME NEW t \in Task, Parse(t) PROVE Typed'
  BY <1>0, <1>1 DEF Parse, Typed, TypeOK, Placed, Reading
<1>2. CASE ParseFails
  <2>1. submitting \in Task /\ submitting \in filter
    BY <1>0, <1>2 DEF ParseFails, TypeOK, Placed
  <2>2. TypeOK'
    BY <1>0, <1>2, <2>1 DEF ParseFails, TypeOK
  <2>3. Placed'
    BY <1>0, <1>2, CheckpointAssumption DEF ParseFails, Placed, Reading
  <2> QED
    BY <2>2, <2>3 DEF Typed
<1>3. CASE PutTask
  <2>1. /\ submitting \in Task /\ thread' \in ThreadType
        /\ thread'.at \in {"log", "queue"} => thread'.task \in Task
        /\ thread'.at \notin {"none", "stamped"} => next \in Index
    BY <1>3, PutTyped
  <2>2. count' \in Nat
    BY <1>0, <1>3, CountTyped DEF PutTask, TypeOK
  <2>3. tasks' \in [Task -> TaskType]
    BY <1>0, <1>3, NewTyped DEF PutTask, TypeOK
  <2>4. progress' \subseteq Task /\ torn' \subseteq Task
    BY <1>0, <1>3, <2>1 DEF PutTask, TypeOK
  <2>5. TypeOK'
    BY <1>0, <1>3, <2>1, <2>2, <2>3, <2>4 DEF PutTask, TypeOK
  <2>6. Placed'
    BY <1>3, <2>1, CheckpointAssumption DEF PutTask, Placed, Reading
  <2> QED
    BY <2>5, <2>6 DEF Typed
<1>4. ASSUME NEW m \in Machine, ReceiveHeartBeat(m) PROVE Typed'
  BY <1>0, <1>4 DEF ReceiveHeartBeat, Typed, TypeOK, Placed, Reading
<1>5. ASSUME NEW m \in Machine, Answer(m) PROVE Typed'
  <2>1. thread' \in ThreadType
    <3>1. thread' = ThreadOf(thread.at, thread.todo, thread.task, thread.names, thread.copies,
                             thread.torn, thread.spared, thread.late \ {m})
      BY <1>0, <1>5, AnswerEffect
    <3>2. thread.late \ {m} \in SUBSET Machine
      BY <1>0, ThreadFields
    <3> QED
      BY <1>0, <3>1, <3>2, ThreadFields, ThreadTyped
  <2>2. thread'.at = thread.at /\ thread'.task = thread.task
    BY <1>0, <1>5, AnswerEffect DEF ThreadOf
  <2> QED
    BY <1>0, <1>5, <2>1, <2>2 DEF Answer, Typed, TypeOK, Placed, Reading
<1>6. ASSUME NEW m \in Machine, NEW t \in Task, HandlerPoll(m, t) \/ ReleaseTask(m, t) PROVE Typed'
  <2>1. tasks' \in [Task -> TaskType]
    BY <1>0, <1>6, PollTyped, ReturnTyped DEF HandlerPoll, ReleaseTask, TypeOK
  <2>2. PICK S \in SUBSET Task : thread' = [thread EXCEPT !.torn = S]
    BY <1>0, <1>6, ThreadFields DEF HandlerPoll, ReleaseTask
  <2>3. thread' = ThreadOf(thread.at, thread.todo, thread.task, thread.names, thread.copies,
                           S, thread.spared, thread.late)
    BY <1>0, <2>2, TornEffect
  <2>4. thread' \in ThreadType
    BY <1>0, <2>3, ThreadFields, ThreadTyped
  <2>5. thread'.at = thread.at /\ thread'.task = thread.task
    BY <2>3 DEF ThreadOf
  <2> QED
    BY <1>0, <1>6, <2>1, <2>4, <2>5 DEF HandlerPoll, ReleaseTask, Typed, TypeOK, Placed, Reading
<1>7. CASE Pause
  <2>1. thread' \in ThreadType /\ thread'.at = "paused" /\ next \in Index
    <3>1. thread' = ThreadOf("paused", thread.todo, thread.task, thread.names, thread.copies,
                             thread.torn, thread.spared, handlers)
      BY <1>0, <1>7, PauseEffect
    <3>2. handlers \in SUBSET Machine /\ next \in Index
      BY <1>0, <1>7 DEF TypeOK, Placed, Pause
    <3> QED
      BY <1>0, <3>1, <3>2, ThreadFields, ThreadTyped DEF ThreadOf
  <2> QED
    BY <1>0, <1>7, <2>1 DEF Pause, Typed, TypeOK, Placed, Reading
<1>8. CASE MakeDirectory
  <2>1. next \in Index
    BY <1>0, <1>8 DEF MakeDirectory, Placed
  <2>2. thread' \in ThreadType /\ thread'.at = "directory"
    <3>1. thread' = ThreadOf("directory", thread.todo, thread.task, thread.names, thread.copies,
                             thread.torn, thread.spared, thread.late)
      BY <1>0, <1>8, GotoEffect DEF MakeDirectory
    <3> QED
      BY <1>0, <3>1, ThreadFields, ThreadTyped DEF ThreadOf
  <2>3. disk' \in [Index -> DirectoryType]
    BY <1>0, <1>8, <2>1, MakeEffect
  <2> QED
    BY <1>0, <1>8, <2>1, <2>2, <2>3 DEF MakeDirectory, Typed, TypeOK, Placed, Reading
<1>9. CASE SaveLogs
  <2>1. next \in Index /\ filter \in SUBSET Task
    BY <1>0, <1>9 DEF SaveLogs, TypeOK
  <2>2. thread' \in ThreadType /\ thread'.at = "logs"
    <3>1. thread' = ThreadOf("logs", thread.todo, thread.task, thread.names, thread.copies,
                             thread.torn, thread.spared, thread.late)
      BY <1>0, <1>9, GotoEffect DEF SaveLogs
    <3> QED
      BY <1>0, <3>1, ThreadFields, ThreadTyped DEF ThreadOf
  <2>3. disk' \in [Index -> DirectoryType]
    BY <1>0, <1>9, <2>1, SaveLogsWrites, DirectoryFields, DirectoryTyped, WriteTyped
  <2> QED
    BY <1>0, <1>9, <2>1, <2>2, <2>3 DEF SaveLogs, Typed, TypeOK, Placed, Reading
<1>10. CASE OpenRecord
  <2>1. next \in Index
    BY <1>0, <1>10 DEF OpenRecord
  <2>2. thread' \in ThreadType /\ thread'.at = "copying"
    <3>1. orphans \cup {t \in Task : tasks[t].over} \cup ({submitting} \ {NoTask}) \in SUBSET Task
          /\ progress \in SUBSET Task
      BY <1>0 DEF TypeOK
    <3>2. thread' = ThreadOf("copying", progress, thread.task, thread.names, thread.copies, thread.torn,
                             orphans \cup {t \in Task : tasks[t].over} \cup ({submitting} \ {NoTask}),
                             thread.late)
      BY <1>0, <1>10, OpenEffect
    <3>3. thread' \in ThreadType
      BY <1>0, <3>1, <3>2, ThreadFields, ThreadTyped
    <3> QED
      BY <3>2, <3>3 DEF ThreadOf
  <2>3. disk' \in [Index -> DirectoryType]
    BY <1>0, <1>10, <2>1, OpenWrites, DirectoryFields, DirectoryTyped, WriteTyped
  <2> QED
    BY <1>0, <1>10, <2>1, <2>2, <2>3 DEF OpenRecord, Typed, TypeOK, Placed, Reading
<1>11. ASSUME NEW t \in Task, SkipDropped(t) PROVE Typed'
  <2>1. thread' \in ThreadType /\ thread'.at = "copying"
    <3>1. thread.at = "copying" /\ thread.spared \cup {t} \in SUBSET Task /\ thread.todo \ {t} \in SUBSET Task
      BY <1>0, <1>11, ThreadFields DEF SkipDropped
    <3>2. thread' = ThreadOf(thread.at, thread.todo \ {t}, thread.task, thread.names, thread.copies,
                             thread.torn, thread.spared \cup {t}, thread.late)
      BY <1>0, <1>11, SkipEffect
    <3>3. thread' \in ThreadType
      BY <1>0, <3>1, <3>2, ThreadFields, ThreadTyped
    <3> QED
      BY <3>1, <3>2, <3>3 DEF ThreadOf
  <2> QED
    BY <1>0, <1>11, <2>1 DEF SkipDropped, Typed, TypeOK, Placed, Reading
<1>12. ASSUME NEW t \in Task, CopyCounters(t) PROVE Typed'
  <2>1. Counters(t) \in TaskType
    <3>1. tasks[t] \in TaskType
      BY <1>0 DEF TypeOK
    <3> QED
      BY <3>1, NewTyped DEF Counters, TaskType
  <2>2. [thread.copies EXCEPT ![t] = Counters(t)] \in [Task -> TaskType]
    BY <1>0, <2>1, ThreadFields
  <2>3. thread' \in ThreadType /\ thread'.at = "log" /\ thread'.task = t
    <3>1. thread.torn \cup (torn \cap {t}) \in SUBSET Task /\ thread.todo \ {t} \in SUBSET Task
      BY <1>0, ThreadFields DEF TypeOK
    <3>2. thread' = ThreadOf("log", thread.todo \ {t}, t, thread.names,
                             [thread.copies EXCEPT ![t] = Counters(t)],
                             thread.torn \cup (torn \cap {t}), thread.spared, thread.late)
      BY <1>0, <1>12, CountersEffect
    <3>3. thread' \in ThreadType
      BY <1>0, <2>2, <3>1, <3>2, ThreadFields, ThreadTyped
    <3> QED
      BY <3>2, <3>3 DEF ThreadOf
  <2> QED
    BY <1>0, <1>12, <2>3 DEF CopyCounters, Typed, TypeOK, Placed, Reading
<1>13. CASE CopyLog
  <2>1. thread.task \in Task /\ tasks[thread.task] \in TaskType
    BY <1>0, <1>13 DEF CopyLog, Placed, Reading, TypeOK
  <2>2. WithLog(thread.copies, thread.task, tasks[thread.task].distributeLog) \in [Task -> TaskType]
    <3>1. tasks[thread.task].distributeLog \in [Machine -> Block \cup {NoBlock}]
      BY <2>1 DEF TaskType
    <3> QED
      BY <1>0, <2>1, <3>1, ThreadFields, WithLogTyped
  <2>3. thread' \in ThreadType /\ thread'.at = "queue" /\ thread'.task = thread.task
    <3>1. thread' = ThreadOf("queue", thread.todo, thread.task, thread.names,
                             WithLog(thread.copies, thread.task, tasks[thread.task].distributeLog),
                             thread.torn, thread.spared, thread.late)
      BY <1>0, <1>13, LogEffect
    <3>2. thread' \in ThreadType
      BY <1>0, <2>2, <3>1, ThreadFields, ThreadTyped
    <3> QED
      BY <3>1, <3>2 DEF ThreadOf
  <2> QED
    BY <1>0, <1>13, <2>1, <2>3 DEF CopyLog, Typed, TypeOK, Placed, Reading
<1>14. CASE CopyQueue
  <2>1. thread.task \in Task /\ tasks[thread.task] \in TaskType
    BY <1>0, <1>14 DEF CopyQueue, Placed, Reading, TypeOK
  <2>2. WithQueue(thread.copies, thread.task, tasks[thread.task].taskQueue) \in [Task -> TaskType]
    <3>1. tasks[thread.task].taskQueue \in Seq(Block)
      BY <2>1 DEF TaskType
    <3> QED
      BY <1>0, <2>1, <3>1, ThreadFields, WithQueueTyped
  <2>3. thread' \in ThreadType /\ thread'.at = "copying"
    <3>1. thread.names \cup {thread.task} \in SUBSET Task
      BY <1>0, <2>1, ThreadFields
    <3> QED
      BY <1>0, <1>14, <2>2, <3>1, QueueEffect, ThreadFields, ThreadTyped DEF ThreadOf
  <2> QED
    BY <1>0, <1>14, <2>3 DEF CopyQueue, Typed, TypeOK, Placed, Reading
<1>15. CASE CloseRecord
  <2>1. next \in Index
    BY <1>0, <1>15 DEF CloseRecord
  <2>2. thread' \in ThreadType /\ thread'.at = "saved"
    <3>1. thread' = ThreadOf("saved", thread.todo, thread.task, thread.names, thread.copies,
                             thread.torn, thread.spared, thread.late)
      BY <1>0, <1>15, GotoEffect DEF CloseRecord
    <3> QED
      BY <1>0, <3>1, ThreadFields, ThreadTyped DEF ThreadOf
  <2>3. disk' \in [Index -> DirectoryType]
    BY <1>0, <1>15, <2>1, CloseWrites, DirectoryFields, ThreadFields, DirectoryTyped, WriteTyped
  <2> QED
    BY <1>0, <1>15, <2>1, <2>2, <2>3 DEF CloseRecord, Typed, TypeOK, Placed, Reading
<1>16. CASE SaveFails
  <2>1. thread' \in ThreadType /\ thread'.at = "failed" /\ next \in Index
    <3>1. thread' = ThreadOf("failed", thread.todo, thread.task, thread.names, thread.copies,
                             thread.torn, thread.spared, thread.late)
      BY <1>0, <1>16, GotoEffect DEF SaveFails
    <3>2. next \in Index
      BY <1>0, <1>16 DEF SaveFails
    <3> QED
      BY <1>0, <3>1, <3>2, ThreadFields, ThreadTyped DEF ThreadOf
  <2> QED
    BY <1>0, <1>16, <2>1 DEF SaveFails, Typed, TypeOK, Placed, Reading
<1>17. CASE Stamp
  <2>1. next \in Index
    BY <1>0, <1>17 DEF Stamp
  <2>2. thread' \in ThreadType /\ thread'.at = "stamped"
    <3>1. thread' = ThreadOf("stamped", thread.todo, thread.task, thread.names, thread.copies,
                             thread.torn, thread.spared, thread.late)
      BY <1>0, <1>17, GotoEffect DEF Stamp
    <3> QED
      BY <1>0, <3>1, ThreadFields, ThreadTyped DEF ThreadOf
  <2>3. disk' \in [Index -> DirectoryType]
    <3>1. (disk[next].stamped \/ thread.at = "saved") \in BOOLEAN
      BY <1>0, <2>1, DirectoryFields
    <3> QED
      BY <1>0, <1>17, <2>1, <3>1, StampWrites, DirectoryFields, DirectoryTyped, WriteTyped
  <2>4. next' \in 1 .. MaxIndex + 1
    BY <1>17, <2>1, CountTyped DEF Stamp, Index
  <2> QED
    BY <1>0, <1>17, <2>2, <2>3, <2>4 DEF Stamp, Typed, TypeOK, Placed, Reading
<1>18. CASE Resume
  <2>1. thread' \in ThreadType /\ thread'.at = "none"
    BY <1>18, NoThreadTyped, ThreadTyped DEF Resume, ThreadOf
  <2> QED
    BY <1>0, <1>18, <2>1 DEF Resume, Typed, TypeOK, Placed, Reading
<1>19. ASSUME NEW from, Restart(from) PROVE Typed'
  <2> DEFINE names == IF from \in Present /\ disk[from].whole THEN disk[from].names ELSE {}
             seen  == IF from \in Present THEN disk[from].seen ELSE {}
  <2>1. names \subseteq Task /\ seen \subseteq Task /\ (names # {} => from \in Index)
    BY <1>0, DirectoryFields DEF Present
  <2>2. thread' \in ThreadType /\ thread'.at = "none"
    BY <1>19, NoThreadTyped, ThreadTyped DEF Restart, ThreadOf
  <2>3. filter' \subseteq Task /\ synced' = filter' /\ orphans' = filter' \ names
    <3>1. PICK kept \in {{}} \cup {S \in SUBSET filter : synced \subseteq S} : filter' = kept \cup seen
      BY <1>19 DEF Restart
    <3> QED
      BY <1>0, <1>19, <2>1, <3>1 DEF Restart, TypeOK
  <2>4. tasks' \in [Task -> TaskType] /\ progress' \subseteq Task
    <3>1. tasks' = [t \in Task |-> IF t \in names THEN disk[from].copies[t] ELSE NewTask] /\ progress' = names
      BY <1>19 DEF Restart
    <3>2. ASSUME NEW t \in Task PROVE (IF t \in names THEN disk[from].copies[t] ELSE NewTask) \in TaskType
      BY <1>0, <2>1, DirectoryFields, NewTyped
    <3> QED
      BY <2>1, <3>1, <3>2
  <2>5. torn' \subseteq Task
    BY <1>19, <2>1 DEF Restart
  <2>6. boots' \in 1 .. MaxBoot
    BY <1>0, <1>19, CheckpointAssumption DEF Restart, TypeOK
  <2>7. next' \in 1 .. MaxIndex + 1
    BY <1>19, CheckpointAssumption DEF Restart
  <2>8. TypeOK'
    BY <1>0, <1>19, <2>2, <2>3, <2>4, <2>5, <2>6, <2>7 DEF Restart, TypeOK
  <2>9. Placed'
    BY <1>19, <2>2, CheckpointAssumption DEF Restart, Placed, Reading
  <2> QED
    BY <2>8, <2>9 DEF Typed
<1> QED
  BY <1>1, <1>2, <1>3, <1>4, <1>5, <1>6, <1>7, <1>8, <1>9, <1>10, <1>11, <1>12, <1>13, <1>14, <1>15,
     <1>16, <1>17, <1>18, <1>19 DEF Next, CheckpointStep

\* Type correctness: in every reachable state the record, the URL database,
\* the thread and the directories hold what they should.
THEOREM CheckpointTypeCorrect == Spec => []TypeOK
<1>1. Init => Typed
  BY TypedInit
<1>2. Typed /\ [Next]_vars => Typed'
  <2>1. Typed /\ UNCHANGED vars => Typed'
    BY DEF Typed, TypeOK, Placed, Reading, vars, recordVars, urlVars, submitVars, saveVars
  <2> QED
    BY <2>1, TypedStep
<1>3. Typed => TypeOK
  BY DEF Typed
<1> QED
  BY <1>1, <1>2, <1>3, PTL DEF Spec

-----------------------------------------------------------------------------
(* The effects in one place: which fields of the thread a step changes.    *)

\* What a submission does: it starts the thread, or the thread is as ReadsOld
\* leaves it, with the new entry before it or not.
LEMMA PutMoves ==
  ASSUME Typed, PutTask
  PROVE  \/ /\ thread.at = "none" /\ next \in Index
            /\ thread' = ThreadOf("started", {}, NoTask, {}, NoTasks, {}, {}, {})
         \/ /\ thread'.at = ReadsOld.at /\ thread'.task = ReadsOld.task /\ thread'.names = ReadsOld.names
            /\ thread'.copies = ReadsOld.copies /\ thread'.torn = ReadsOld.torn
            /\ thread'.spared = ReadsOld.spared /\ thread'.late = ReadsOld.late
            /\ \/ thread'.todo = ReadsOld.todo
               \/ /\ thread.at \in {"copying", "log", "queue"}
                  /\ thread'.todo = ReadsOld.todo \cup {submitting}
BY PutEffect DEF ThreadOf, Typed

LEMMA ReadsOldCases ==
  ASSUME Typed, submitting \in Task
  PROVE  \/ ~(Reading /\ thread.task = submitting) /\ ReadsOld = thread
         \/ /\ Reading /\ thread.task = submitting
            /\ ReadsOld.at = "copying" /\ ReadsOld.todo = thread.todo
            /\ ReadsOld.names = thread.names \cup {submitting} /\ ReadsOld.torn = thread.torn
            /\ ReadsOld.spared = thread.spared /\ ReadsOld.late = thread.late
            /\ ReadsOld.copies = WithQueue(WithLog(thread.copies, submitting, tasks[submitting].distributeLog),
                                           submitting, tasks[submitting].taskQueue)
BY ReadsOldEffect DEF ThreadOf, Typed

\* The steps outside the thread that leave it alone, and those that only add
\* to the disturbed tasks or take a handler from the late ones.
LEMMA QuietMoves ==
  ASSUME Typed, NEW m \in Machine, NEW t \in Task,
         HandlerPoll(m, t) \/ ReleaseTask(m, t) \/ Answer(m)
  PROVE  /\ thread'.at = thread.at /\ thread'.todo = thread.todo /\ thread'.task = thread.task
         /\ thread'.names = thread.names /\ thread'.copies = thread.copies
         /\ thread'.spared = thread.spared /\ thread.torn \subseteq thread'.torn
         /\ HandlerPoll(m, t) \/ ReleaseTask(m, t) => thread'.late = thread.late
         /\ Answer(m) => thread'.late = thread.late \ {m} /\ thread'.torn = thread.torn
<1>1. TypeOK
  BY DEF Typed
<1>2. CASE HandlerPoll(m, t) \/ ReleaseTask(m, t)
  <2>1. PICK S : thread' = [thread EXCEPT !.torn = S] /\ thread.torn \subseteq S
    BY <1>1, <1>2, ThreadFields DEF HandlerPoll, ReleaseTask
  <2>2. thread' = ThreadOf(thread.at, thread.todo, thread.task, thread.names, thread.copies,
                           S, thread.spared, thread.late)
    BY <1>1, <2>1, TornEffect
  <2>3. thread'.late = thread.late
    BY <2>2 DEF ThreadOf
  <2>4. ~Answer(m) \/ (thread'.late = thread.late \ {m} /\ thread'.torn = thread.torn)
    <3>1. CASE Answer(m)
      BY <1>1, <3>1, AnswerEffect DEF ThreadOf
    <3> QED
      BY <3>1
  <2> QED
    BY <2>1, <2>2, <2>3, <2>4 DEF ThreadOf
<1>3. CASE Answer(m) /\ ~(HandlerPoll(m, t) \/ ReleaseTask(m, t))
  <2>1. thread' = ThreadOf(thread.at, thread.todo, thread.task, thread.names, thread.copies,
                           thread.torn, thread.spared, thread.late \ {m})
    BY <1>1, <1>3, AnswerEffect
  <2> QED
    BY <1>3, <2>1 DEF ThreadOf
<1> QED
  BY <1>2, <1>3

\* The steps that only move the thread on.
LEMMA PlaceMoves ==
  ASSUME Typed, MakeDirectory \/ SaveLogs \/ CloseRecord \/ SaveFails \/ Stamp
  PROVE  /\ thread' = ThreadOf(thread'.at, thread.todo, thread.task, thread.names, thread.copies,
                               thread.torn, thread.spared, thread.late)
         /\ thread'.at \in {"directory", "logs", "saved", "failed", "stamped"}
         /\ thread.at \notin {"none", "started", "stamped"}
         /\ state' = state /\ handlers' = handlers
         /\ MakeDirectory => thread'.at = "directory"
         /\ SaveLogs => thread'.at = "logs"
         /\ CloseRecord => thread'.at = "saved"
         /\ SaveFails => thread'.at = "failed"
         /\ Stamp => thread'.at = "stamped"
<1>1. TypeOK
  BY DEF Typed
<1>2. ASSUME MakeDirectory
      PROVE  /\ thread' = ThreadOf("directory", thread.todo, thread.task, thread.names, thread.copies,
                                   thread.torn, thread.spared, thread.late)
             /\ thread.at \notin {"none", "started", "stamped"}
             /\ state' = state /\ handlers' = handlers
  <2>1. thread' = Goto("directory")
    BY <1>2 DEF MakeDirectory
  <2>2. thread' = ThreadOf("directory", thread.todo, thread.task, thread.names, thread.copies,
                           thread.torn, thread.spared, thread.late)
    BY <1>1, <2>1, GotoEffect
  <2> QED
    BY <1>2, <2>2 DEF MakeDirectory
<1>3. ASSUME SaveLogs
      PROVE  /\ thread' = ThreadOf("logs", thread.todo, thread.task, thread.names, thread.copies,
                                   thread.torn, thread.spared, thread.late)
             /\ thread.at \notin {"none", "started", "stamped"}
             /\ state' = state /\ handlers' = handlers
  <2>1. thread' = Goto("logs")
    BY <1>3 DEF SaveLogs
  <2>2. thread' = ThreadOf("logs", thread.todo, thread.task, thread.names, thread.copies,
                           thread.torn, thread.spared, thread.late)
    BY <1>1, <2>1, GotoEffect
  <2> QED
    BY <1>3, <2>2 DEF SaveLogs
<1>4. ASSUME CloseRecord
      PROVE  /\ thread' = ThreadOf("saved", thread.todo, thread.task, thread.names, thread.copies,
                                   thread.torn, thread.spared, thread.late)
             /\ thread.at \notin {"none", "started", "stamped"}
             /\ state' = state /\ handlers' = handlers
  <2>1. thread' = Goto("saved")
    BY <1>4 DEF CloseRecord
  <2>2. thread' = ThreadOf("saved", thread.todo, thread.task, thread.names, thread.copies,
                           thread.torn, thread.spared, thread.late)
    BY <1>1, <2>1, GotoEffect
  <2> QED
    BY <1>4, <2>2 DEF CloseRecord
<1>5. ASSUME SaveFails
      PROVE  /\ thread' = ThreadOf("failed", thread.todo, thread.task, thread.names, thread.copies,
                                   thread.torn, thread.spared, thread.late)
             /\ thread.at \notin {"none", "started", "stamped"}
             /\ state' = state /\ handlers' = handlers
  <2>1. thread' = Goto("failed")
    BY <1>5 DEF SaveFails
  <2>2. thread' = ThreadOf("failed", thread.todo, thread.task, thread.names, thread.copies,
                           thread.torn, thread.spared, thread.late)
    BY <1>1, <2>1, GotoEffect
  <2> QED
    BY <1>5, <2>2 DEF SaveFails
<1>6. ASSUME Stamp
      PROVE  /\ thread' = ThreadOf("stamped", thread.todo, thread.task, thread.names, thread.copies,
                                   thread.torn, thread.spared, thread.late)
             /\ thread.at \notin {"none", "started", "stamped"}
             /\ state' = state /\ handlers' = handlers
  <2>1. thread' = Goto("stamped")
    BY <1>6 DEF Stamp
  <2>2. thread' = ThreadOf("stamped", thread.todo, thread.task, thread.names, thread.copies,
                           thread.torn, thread.spared, thread.late)
    BY <1>1, <2>1, GotoEffect
  <2> QED
    BY <1>6, <2>2 DEF Stamp
<1> QED
  BY <1>2, <1>3, <1>4, <1>5, <1>6 DEF ThreadOf

-----------------------------------------------------------------------------
(* The pause.                                                              *)

\* While the thread saves, the handlers that run are among those that were
\* past the test when it paused the master: none can begin.
PauseInv ==
  /\ PausedWhileSaving
  /\ Saving => handlers \subseteq thread.late

LEMMA PauseStep ==
  ASSUME Typed, PauseInv, Next
  PROVE  PauseInv'
<1> USE DEF PauseInv, PausedWhileSaving, Saving, urlVars, submitVars, saveVars
<1>1. TypeOK /\ thread \in ThreadType
  BY DEF Typed, TypeOK
<1>2. ASSUME UNCHANGED <<thread, state, handlers>> PROVE PauseInv'
  BY <1>2
<1>3. CASE PutTask
  <2>1. state' = state /\ handlers' = handlers /\ submitting \in Task
    BY <1>1, <1>3 DEF PutTask, TypeOK
  <2>2. CASE thread.at = "none" /\ thread' = ThreadOf("started", {}, NoTask, {}, NoTasks, {}, {}, {})
    BY <2>1, <2>2 DEF ThreadOf
  <2>3. CASE thread'.at = ReadsOld.at /\ thread'.late = ReadsOld.late
    BY <2>1, <2>3, ReadsOldCases DEF Reading
  <2> QED
    BY <1>3, <2>2, <2>3, PutMoves
<1>4. ASSUME NEW m \in Machine, ReceiveHeartBeat(m) PROVE PauseInv'
  BY <1>4 DEF ReceiveHeartBeat
<1>5. ASSUME NEW m \in Machine, Answer(m) PROVE PauseInv'
  <2>1. thread' = ThreadOf(thread.at, thread.todo, thread.task, thread.names, thread.copies,
                           thread.torn, thread.spared, thread.late \ {m})
    BY <1>1, <1>5, AnswerEffect
  <2> QED
    BY <1>5, <2>1 DEF Answer, ThreadOf
<1>6. ASSUME NEW m \in Machine, NEW t \in Task, HandlerPoll(m, t) \/ ReleaseTask(m, t) PROVE PauseInv'
  BY <1>6, QuietMoves DEF HandlerPoll, ReleaseTask
<1>7. CASE Pause
  BY <1>1, <1>7, PauseEffect DEF Pause, ThreadOf
<1>8. CASE MakeDirectory \/ SaveLogs \/ CloseRecord \/ SaveFails \/ Stamp
  <2>1. thread'.late = thread.late
    BY <1>8, PlaceMoves DEF ThreadOf
  <2> QED
    BY <1>8, <2>1, PlaceMoves
<1>9. CASE OpenRecord
  BY <1>1, <1>9, OpenEffect DEF OpenRecord, ThreadOf
<1>10. ASSUME NEW t \in Task, SkipDropped(t) PROVE PauseInv'
  BY <1>1, <1>10, SkipEffect DEF SkipDropped, ThreadOf
<1>11. ASSUME NEW t \in Task, CopyCounters(t) PROVE PauseInv'
  BY <1>1, <1>11, CountersEffect DEF CopyCounters, ThreadOf
<1>12. CASE CopyLog
  BY <1>1, <1>12, LogEffect DEF CopyLog, ThreadOf
<1>13. CASE CopyQueue
  BY <1>1, <1>13, QueueEffect DEF CopyQueue, ThreadOf
<1>14. CASE Resume
  BY <1>14, NoThreadTyped DEF Resume, ThreadOf
<1>15. ASSUME NEW from, Restart(from) PROVE PauseInv'
  BY <1>15, NoThreadTyped DEF Restart, ThreadOf
<1>16. ASSUME NEW t \in Task, Parse(t) PROVE PauseInv'
  BY <1>2, <1>16 DEF Parse
<1>17. CASE ParseFails
  BY <1>2, <1>17 DEF ParseFails
<1> QED
  BY <1>3, <1>4, <1>5, <1>6, <1>7, <1>8, <1>9, <1>10, <1>11, <1>12, <1>13, <1>14, <1>15, <1>16, <1>17
  DEF Next, CheckpointStep

LEMMA PauseInvHolds == Spec => [](Typed /\ PauseInv)
<1>1. Init => Typed /\ PauseInv
  BY TypedInit, NoThreadTyped DEF Init, PauseInv, PausedWhileSaving, Saving, ThreadOf
<1>2. (Typed /\ PauseInv) /\ [Next]_vars => (Typed /\ PauseInv)'
  <2>1. (Typed /\ PauseInv) /\ UNCHANGED vars => (Typed /\ PauseInv)'
    BY DEF Typed, TypeOK, Placed, Reading, PauseInv, PausedWhileSaving, Saving,
           vars, recordVars, urlVars, submitVars, saveVars
  <2> QED
    BY <2>1, TypedStep, PauseStep
<1> QED
  BY <1>1, <1>2, PTL DEF Spec

\* The master is paused exactly while its checkpoint thread saves.
THEOREM PausedExactlyWhileSaving == Spec => []PausedWhileSaving
<1>1. Typed /\ PauseInv => PausedWhileSaving
  BY DEF PauseInv
<1> QED
  BY <1>1, PauseInvHolds, PTL

-----------------------------------------------------------------------------
(* The tasks that a checkpoint saves.                                      *)

\* A copy has the counters of a task; all that was read from it so far is it.
Counted(copy, tk) ==
  /\ copy.distributedRows = tk.distributedRows /\ copy.finishedRows = tk.finishedRows
  /\ copy.over = tk.over /\ copy.credited = tk.credited

\* Tasks that are not torn are consistent, and so are their finished copies;
\* the copy that is being made of an undisturbed task agrees with the task in
\* all that was read.  Copies are read until the record is complete only, and
\* a new thread has none.
LiveWhole   == \A t \in Task \ torn : Consistent(tasks[t])
NoneCopied  == thread.at \in {"none", "started", "paused", "directory", "logs"} => thread.names = {}
CopiesWhole == thread.at \in {"copying", "log", "queue"} =>
  \A t \in thread.names \ thread.torn : ~(Reading /\ t = thread.task) => Consistent(thread.copies[t])
CopyAgrees  == Reading /\ thread.task \notin thread.torn =>
  /\ thread.task \notin torn
  /\ Counted(thread.copies[thread.task], tasks[thread.task])
  /\ thread.at = "queue" => thread.copies[thread.task].distributeLog = tasks[thread.task].distributeLog
SavedWhole  == \A i \in Index : disk[i].whole =>
  \A t \in disk[i].names \ disk[i].torn : Consistent(disk[i].copies[t])

TasksInv == LiveWhole /\ NoneCopied /\ CopiesWhole /\ CopyAgrees /\ SavedWhole

LEMMA SameTask ==
  ASSUME NEW a \in TaskType, NEW b \in TaskType, Counted(a, b),
         a.distributeLog = b.distributeLog, a.taskQueue = b.taskQueue
  PROVE  a = b
BY DEF TaskType, Counted

\* The last fields make the copy of an undisturbed task the task.
LEMMA CopyFinished ==
  ASSUME NEW c \in [Task -> TaskType], NEW t \in Task, NEW tk \in TaskType, Counted(c[t], tk)
  PROVE  /\ WithQueue(WithLog(c, t, tk.distributeLog), t, tk.taskQueue)[t] = tk
         /\ c[t].distributeLog = tk.distributeLog => WithQueue(c, t, tk.taskQueue)[t] = tk
<1>1. tk.distributeLog \in [Machine -> Block \cup {NoBlock}] /\ tk.taskQueue \in Seq(Block)
  BY DEF TaskType
<1>2. ASSUME NEW d \in [Task -> TaskType], Counted(d[t], tk), d[t].distributeLog = tk.distributeLog
      PROVE  WithQueue(d, t, tk.taskQueue)[t] = tk
  <2> DEFINE old == d[t]
             new == WithQueue(d, t, tk.taskQueue)[t]
  <2>1. new = [old EXCEPT !.taskQueue = tk.taskQueue]
    BY <1>1, <1>2, WithQueueTyped
  <2>2. old \in TaskType /\ Counted(old, tk) /\ old.distributeLog = tk.distributeLog
    BY <1>2
  <2>3. new \in TaskType
    <3>1. WithQueue(d, t, tk.taskQueue) \in [Task -> TaskType]
      BY <1>1, <1>2, WithQueueTyped
    <3> QED
      BY <3>1
  <2> HIDE DEF new, old
  <2>4. Counted(new, tk) /\ new.distributeLog = tk.distributeLog /\ new.taskQueue = tk.taskQueue
    BY <2>1, <2>2 DEF Counted, TaskType
  <2>5. new = tk
    BY <2>3, <2>4, SameTask
  <2> QED
    BY <2>5 DEF new
<1> DEFINE logged == WithLog(c, t, tk.distributeLog)
<1>3. logged \in [Task -> TaskType] /\ logged[t] = [c[t] EXCEPT !.distributeLog = tk.distributeLog]
  BY <1>1, WithLogTyped
<1> HIDE DEF logged
<1>4. Counted(logged[t], tk) /\ logged[t].distributeLog = tk.distributeLog
  <2> DEFINE old == c[t]
             new == logged[t]
  <2>1. new = [old EXCEPT !.distributeLog = tk.distributeLog] /\ old \in TaskType /\ Counted(old, tk)
    BY <1>3
  <2> HIDE DEF new, old
  <2>2. Counted(new, tk) /\ new.distributeLog = tk.distributeLog
    BY <2>1 DEF Counted, TaskType
  <2> QED
    BY <2>2 DEF new
<1>5. WithQueue(logged, t, tk.taskQueue)[t] = tk
  BY <1>2, <1>3, <1>4
<1> QED
  BY <1>2, <1>5 DEF logged

LEMMA LiveWholeStep ==
  ASSUME Typed, LiveWhole, SavedWhole, Next
  PROVE  LiveWhole'
<1> USE DEF LiveWhole, recordVars
<1>1. TypeOK
  BY DEF Typed
<1>2. ASSUME UNCHANGED <<tasks, torn>> PROVE LiveWhole'
  BY <1>2
<1>3. CASE PutTask
  BY <1>1, <1>3, NewTaskConsistent DEF PutTask, TypeOK
<1>4. ASSUME NEW m \in Machine, NEW t \in Task, HandlerPoll(m, t) \/ ReleaseTask(m, t) PROVE LiveWhole'
  <2>1. /\ torn' = torn /\ \A s \in Task \ {t} : tasks'[s] = tasks[s]
        /\ \/ tasks'[t] = CheckAndPoll(tasks[t], m)
           \/ tasks'[t] = ReturnCrawlTask(tasks[t], m)
    BY <1>1, <1>4 DEF HandlerPoll, ReleaseTask, TypeOK
  <2>2. Consistent(tasks[t]) => Consistent(tasks'[t])
    BY <2>1, PollConsistent, ReturnConsistent
  <2> QED
    BY <2>1, <2>2
<1>5. ASSUME NEW from, Restart(from) PROVE LiveWhole'
  <2> DEFINE names == IF from \in Present /\ disk[from].whole THEN disk[from].names ELSE {}
  <2>1. /\ tasks' = [t \in Task |-> IF t \in names THEN disk[from].copies[t] ELSE NewTask]
        /\ torn' = IF names = {} THEN {} ELSE names \cap disk[from].torn
    BY <1>5 DEF Restart
  <2>2. ASSUME NEW t \in Task \ torn', t \in names PROVE Consistent(tasks'[t])
    <3>1. from \in Index /\ disk[from].whole /\ t \in disk[from].names
      BY <2>2 DEF Present
    <3>2. t \notin disk[from].torn
      BY <2>1, <2>2
    <3> QED
      BY <2>1, <2>2, <3>1, <3>2 DEF SavedWhole
  <2>3. ASSUME NEW t \in Task \ torn', t \notin names PROVE Consistent(tasks'[t])
    BY <2>1, <2>3, NewTaskConsistent
  <2> QED
    BY <2>2, <2>3
<1> QED
  BY <1>2, <1>3, <1>4, <1>5
  DEF Next, CheckpointStep, Parse, ParseFails, ReceiveHeartBeat, Answer, Pause, MakeDirectory, SaveLogs,
      OpenRecord, SkipDropped, CopyCounters, CopyLog, CopyQueue, CloseRecord, SaveFails, Stamp, Resume

\* The thread finishes the copy of a task, or goes on to the next.
LEMMA CopiesStep ==
  ASSUME Typed, PauseInv, LiveWhole, NoneCopied, CopiesWhole, CopyAgrees, Next
  PROVE  NoneCopied' /\ CopiesWhole' /\ CopyAgrees'
<1> DEFINE Goal == NoneCopied' /\ CopiesWhole' /\ CopyAgrees'
<1>1. TypeOK /\ tasks \in [Task -> TaskType] /\ thread.copies \in [Task -> TaskType]
      /\ (Reading => thread.task \in Task) /\ thread.names \subseteq Task
  BY ThreadFields DEF Typed, Placed, TypeOK
<1>2. ASSUME UNCHANGED <<thread, tasks, torn>> PROVE Goal
  BY <1>2 DEF NoneCopied, CopiesWhole, CopyAgrees, Reading
<1>3. CASE PutTask
  <2>1. submitting \in Task /\ tasks' = [tasks EXCEPT ![submitting] = NewTask] /\ torn' = torn \ {submitting}
    BY <1>1, <1>3 DEF PutTask, TypeOK
  <2>2. CASE thread' = ThreadOf("started", {}, NoTask, {}, NoTasks, {}, {}, {})
    BY <2>2 DEF ThreadOf, NoneCopied, CopiesWhole, CopyAgrees, Reading
  <2>3. CASE /\ thread'.at = ReadsOld.at /\ thread'.task = ReadsOld.task /\ thread'.names = ReadsOld.names
             /\ thread'.copies = ReadsOld.copies /\ thread'.torn = ReadsOld.torn
    <3>1. CASE ~(Reading /\ thread.task = submitting) /\ ReadsOld = thread
      <4>1. /\ thread'.at = thread.at /\ thread'.task = thread.task /\ thread'.names = thread.names
            /\ thread'.copies = thread.copies /\ thread'.torn = thread.torn
        BY <2>3, <3>1
      <4>2. Reading' <=> Reading
        BY <4>1 DEF Reading
      <4>3. Reading => tasks'[thread.task] = tasks[thread.task]
        BY <1>1, <2>1, <3>1
      <4> QED
        BY <2>1, <4>1, <4>2, <4>3 DEF NoneCopied, CopiesWhole, CopyAgrees
    <3>2. CASE /\ Reading /\ thread.task = submitting
               /\ ReadsOld.at = "copying" /\ ReadsOld.names = thread.names \cup {submitting}
               /\ ReadsOld.torn = thread.torn
               /\ ReadsOld.copies = WithQueue(WithLog(thread.copies, submitting, tasks[submitting].distributeLog),
                                              submitting, tasks[submitting].taskQueue)
      <4> DEFINE copies == ReadsOld.copies
      <4>1. /\ thread'.at = "copying" /\ thread'.names = thread.names \cup {submitting}
            /\ thread'.torn = thread.torn /\ thread'.copies = copies
        BY <2>3, <3>2
      <4>2. /\ tasks[submitting] \in TaskType
            /\ tasks[submitting].distributeLog \in [Machine -> Block \cup {NoBlock}]
            /\ tasks[submitting].taskQueue \in Seq(Block)
        BY <1>1, <2>1 DEF TaskType
      <4>3. \A s \in Task \ {submitting} : copies[s] = thread.copies[s]
        BY <1>1, <2>1, <3>2 DEF WithLog, WithQueue
      <4>4. submitting \notin thread.torn => Consistent(copies[submitting])
        <5>1. SUFFICES ASSUME submitting \notin thread.torn PROVE Consistent(copies[submitting])
          OBVIOUS
        <5>2. submitting \notin torn /\ Counted(thread.copies[submitting], tasks[submitting])
          BY <3>2, <5>1 DEF CopyAgrees
        <5>3. copies[submitting] = tasks[submitting]
          BY <1>1, <2>1, <3>2, <4>2, <5>2, CopyFinished
        <5> QED
          BY <2>1, <5>2, <5>3 DEF LiveWhole
      <4>5. \A t \in thread.names \ thread.torn : t # submitting => Consistent(thread.copies[t])
        BY <3>2 DEF CopiesWhole, Reading
      <4> HIDE DEF copies
      <4> QED
        BY <1>1, <2>1, <4>1, <4>3, <4>4, <4>5 DEF NoneCopied, CopiesWhole, CopyAgrees, Reading
    <3> QED
      BY <2>1, <3>1, <3>2, ReadsOldCases
  <2> QED
    BY <1>3, <2>2, <2>3, PutMoves
<1>4. ASSUME NEW m \in Machine, NEW t \in Task, HandlerPoll(m, t) \/ ReleaseTask(m, t) PROVE Goal
  <2>1. /\ torn' = torn /\ \A s \in Task \ {t} : tasks'[s] = tasks[s]
    BY <1>1, <1>4 DEF HandlerPoll, ReleaseTask, recordVars
  <2>2. /\ thread'.at = thread.at /\ thread'.task = thread.task /\ thread'.names = thread.names
        /\ thread'.copies = thread.copies /\ thread.torn \subseteq thread'.torn
    BY <1>4, QuietMoves
  <2>3. Reading /\ thread.task = t => t \in thread'.torn
    <3>1. HandlerPoll(m, t) /\ Reading => m \in thread.late
      BY DEF HandlerPoll, PauseInv, Saving, Reading
    <3>2. Reading /\ thread.task = t => Copying(t)
      BY DEF Reading, Copying
    <3>3. Copying(t) => thread'.torn = thread.torn \cup {t}
      <4>1. ASSUME Copying(t) PROVE thread' = [thread EXCEPT !.torn = thread.torn \cup {t}]
        <5>1. Reading
          BY <4>1 DEF Copying, Reading
        <5> QED
          BY <1>4, <3>1, <4>1, <5>1 DEF HandlerPoll, ReleaseTask
      <4> QED
        BY <1>1, <4>1, TornEffect DEF ThreadOf
    <3> QED
      BY <3>2, <3>3
  <2>4. Reading' <=> Reading
    BY <2>2 DEF Reading
  <2>5. CopyAgrees'
    <3>1. SUFFICES ASSUME Reading, thread'.task \notin thread'.torn
                   PROVE  tasks'[thread.task] = tasks[thread.task] /\ thread.task \notin thread.torn
      BY <2>1, <2>2, <2>4 DEF CopyAgrees
    <3> QED
      BY <1>1, <2>1, <2>2, <2>3, <3>1
  <2> QED
    BY <2>2, <2>4, <2>5 DEF NoneCopied, CopiesWhole
<1>5. ASSUME NEW m \in Machine, Answer(m) PROVE Goal
  <2>1. thread' = ThreadOf(thread.at, thread.todo, thread.task, thread.names, thread.copies,
                           thread.torn, thread.spared, thread.late \ {m})
    BY <1>1, <1>5, AnswerEffect
  <2> QED
    BY <1>5, <2>1 DEF Answer, ThreadOf, NoneCopied, CopiesWhole, CopyAgrees, Reading, recordVars
<1>6. CASE Pause
  <2>1. thread' = ThreadOf("paused", thread.todo, thread.task, thread.names, thread.copies,
                           thread.torn, thread.spared, handlers)
    BY <1>1, <1>6, PauseEffect
  <2> QED
    BY <1>6, <2>1 DEF Pause, ThreadOf, NoneCopied, CopiesWhole, CopyAgrees, Reading
<1>7. CASE MakeDirectory \/ SaveLogs \/ CloseRecord \/ SaveFails \/ Stamp
  <2>1. /\ thread' = ThreadOf(thread'.at, thread.todo, thread.task, thread.names, thread.copies,
                              thread.torn, thread.spared, thread.late)
        /\ thread'.at \in {"directory", "logs", "saved", "failed", "stamped"}
        /\ (thread'.at \in {"directory", "logs"} => thread.at \in {"paused", "directory"})
    BY <1>7, PlaceMoves DEF MakeDirectory, SaveLogs
  <2> QED
    BY <2>1 DEF ThreadOf, NoneCopied, CopiesWhole, CopyAgrees, Reading
<1>8. CASE OpenRecord
  <2>1. /\ thread'.at = "copying" /\ thread'.names = thread.names /\ thread.at = "logs"
    BY <1>1, <1>8, OpenEffect DEF OpenRecord, ThreadOf
  <2> QED
    BY <2>1 DEF NoneCopied, CopiesWhole, CopyAgrees, Reading
<1>9. ASSUME NEW t \in Task, SkipDropped(t) PROVE Goal
  <2>1. thread' = ThreadOf(thread.at, thread.todo \ {t}, thread.task, thread.names, thread.copies,
                           thread.torn, thread.spared \cup {t}, thread.late)
    BY <1>1, <1>9, SkipEffect
  <2> QED
    BY <1>9, <2>1 DEF SkipDropped, ThreadOf, NoneCopied, CopiesWhole, CopyAgrees, Reading, recordVars
<1>10. ASSUME NEW t \in Task, CopyCounters(t) PROVE Goal
  <2>1. thread' = ThreadOf("log", thread.todo \ {t}, t, thread.names, [thread.copies EXCEPT ![t] = Counters(t)],
                           thread.torn \cup (torn \cap {t}), thread.spared, thread.late)
    BY <1>1, <1>10, CountersEffect
  <2>2. /\ thread'.at = "log" /\ thread'.task = t /\ thread'.names = thread.names
        /\ thread'.torn = thread.torn \cup (torn \cap {t})
        /\ thread'.copies = [thread.copies EXCEPT ![t] = Counters(t)]
    BY <2>1 DEF ThreadOf
  <2>3. thread.at = "copying" /\ tasks' = tasks /\ torn' = torn
    BY <1>10 DEF CopyCounters, recordVars
  <2>4. Counted(Counters(t), tasks[t])
    BY DEF Counters, Counted
  <2>5. CopyAgrees'
    BY <1>1, <2>2, <2>3, <2>4 DEF CopyAgrees
  <2>6. CopiesWhole'
    BY <1>1, <2>2, <2>3 DEF CopiesWhole, Reading
  <2> QED
    BY <2>2, <2>5, <2>6 DEF NoneCopied
<1>11. CASE CopyLog
  <2> DEFINE t == thread.task
             copies == WithLog(thread.copies, t, tasks[t].distributeLog)
  <2>1. thread' = ThreadOf("queue", thread.todo, t, thread.names, copies,
                           thread.torn, thread.spared, thread.late)
    BY <1>1, <1>11, LogEffect
  <2>2. /\ thread'.at = "queue" /\ thread'.task = t /\ thread'.names = thread.names
        /\ thread'.torn = thread.torn /\ thread'.copies = copies
    BY <2>1 DEF ThreadOf
  <2>3. thread.at = "log" /\ tasks' = tasks /\ torn' = torn /\ Reading /\ t \in Task
    BY <1>1, <1>11 DEF CopyLog, recordVars, Reading
  <2>4. /\ copies[t] = [thread.copies[t] EXCEPT !.distributeLog = tasks[t].distributeLog]
        /\ \A s \in Task \ {t} : copies[s] = thread.copies[s]
    <3>1. tasks[t].distributeLog \in [Machine -> Block \cup {NoBlock}]
      BY <1>1, <2>3 DEF TaskType
    <3> QED
      BY <1>1, <2>3, <3>1, WithLogTyped
  <2> HIDE DEF copies
  <2>5. /\ copies[t].distributeLog = tasks[t].distributeLog
        /\ Counted(thread.copies[t], tasks[t]) => Counted(copies[t], tasks[t])
    <3> DEFINE new == copies[t]
               old == thread.copies[t]
    <3>1. new = [old EXCEPT !.distributeLog = tasks[t].distributeLog] /\ old \in TaskType
      BY <1>1, <2>3, <2>4
    <3> HIDE DEF new, old
    <3>2. new.distributeLog = tasks[t].distributeLog /\ (Counted(old, tasks[t]) => Counted(new, tasks[t]))
      BY <3>1 DEF TaskType, Counted
    <3> QED
      BY <3>2 DEF new, old
  <2>6. CopyAgrees'
    BY <2>2, <2>3, <2>5 DEF CopyAgrees
  <2>7. CopiesWhole'
    BY <1>1, <2>2, <2>3, <2>4 DEF CopiesWhole, Reading
  <2> QED
    BY <2>2, <2>6, <2>7 DEF NoneCopied
<1>12. CASE CopyQueue
  <2> DEFINE t == thread.task
             copies == WithQueue(thread.copies, t, tasks[t].taskQueue)
  <2>1. thread' = ThreadOf("copying", thread.todo, NoTask, thread.names \cup {t}, copies,
                           thread.torn, thread.spared, thread.late)
    BY <1>1, <1>12, QueueEffect
  <2>2. /\ thread'.at = "copying" /\ thread'.names = thread.names \cup {t}
        /\ thread'.torn = thread.torn /\ thread'.copies = copies
    BY <2>1 DEF ThreadOf
  <2>3. thread.at = "queue" /\ Reading /\ t \in Task
    BY <1>1, <1>12 DEF CopyQueue, Reading
  <2>4. \A s \in Task \ {t} : copies[s] = thread.copies[s]
    BY <1>1, <2>3 DEF WithQueue
  <2>5. t \notin thread.torn => Consistent(copies[t])
    <3>1. SUFFICES ASSUME t \notin thread.torn PROVE Consistent(copies[t])
      OBVIOUS
    <3>2. /\ t \notin torn /\ Counted(thread.copies[t], tasks[t])
          /\ thread.copies[t].distributeLog = tasks[t].distributeLog
      BY <2>3, <3>1 DEF CopyAgrees
    <3>3. tasks[t] \in TaskType
      BY <1>1, <2>3
    <3>4. copies[t] = tasks[t]
      BY <1>1, <2>3, <3>2, <3>3, CopyFinished
    <3> QED
      BY <2>3, <3>2, <3>4 DEF LiveWhole
  <2>6. \A s \in thread.names \ thread.torn : s # t => Consistent(thread.copies[s])
    BY <2>3 DEF CopiesWhole, Reading
  <2> HIDE DEF copies
  <2> QED
    BY <1>1, <2>2, <2>4, <2>5, <2>6 DEF NoneCopied, CopiesWhole, CopyAgrees, Reading
<1>13. ASSUME Resume \/ (\E from : Restart(from)) PROVE Goal
  <2>1. thread' = ThreadOf("none", {}, NoTask, {}, NoTasks, {}, {}, {})
    BY <1>13, NoThreadTyped DEF Resume, Restart
  <2> QED
    BY <2>1 DEF ThreadOf, NoneCopied, CopiesWhole, CopyAgrees, Reading
<1>14. ASSUME NEW t \in Task, Parse(t) PROVE Goal
  BY <1>2, <1>14 DEF Parse, recordVars, saveVars
<1>15. ASSUME NEW m \in Machine, ReceiveHeartBeat(m) PROVE Goal
  BY <1>2, <1>15 DEF ReceiveHeartBeat, recordVars, saveVars
<1>16. CASE ParseFails
  BY <1>2, <1>16 DEF ParseFails, recordVars, saveVars
<1> QED
  BY <1>3, <1>4, <1>5, <1>6, <1>7, <1>8, <1>9, <1>10, <1>11, <1>12, <1>13, <1>14, <1>15, <1>16
  DEF Next, CheckpointStep

\* What is complete on the disk was a finished copy when the file was closed.
LEMMA SavedWholeStep ==
  ASSUME Typed, CopiesWhole, SavedWhole, Next
  PROVE  SavedWhole'
<1> DEFINE Same(i) == /\ disk'[i].whole = disk[i].whole /\ disk'[i].names = disk[i].names
                      /\ disk'[i].torn = disk[i].torn /\ disk'[i].copies = disk[i].copies
           Good(i) == Same(i) \/ disk'[i].whole = FALSE
<1>1. TypeOK
  BY DEF Typed
<1>2. ASSUME \A i \in Index : Good(i) PROVE SavedWhole'
  BY <1>2 DEF SavedWhole
<1>3. ASSUME UNCHANGED disk PROVE SavedWhole'
  BY <1>3 DEF SavedWhole
<1>4. CASE MakeDirectory
  <2>1. next \in Index
    BY <1>4 DEF Typed, Placed, MakeDirectory
  <2>2. \A i \in Index : Good(i)
    BY <1>1, <1>4, <2>1, MakeEffect DEF DirectoryOf
  <2> QED
    BY <1>2, <2>2
<1>5. CASE SaveLogs \/ OpenRecord \/ Stamp
  <2>1. next \in Index
    BY <1>5 DEF Typed, Placed, SaveLogs, OpenRecord, Stamp
  <2>2. \A i \in Index \ {next} : Same(i)
    BY <1>1, <1>5, <2>1, SaveLogsWrites, OpenWrites, StampWrites DEF Write, TypeOK
  <2>3. Good(next)
    <3>1. CASE SaveLogs
      BY <1>1, <2>1, <3>1, SaveLogsWrites DEF Write, DirectoryOf, TypeOK
    <3>2. CASE OpenRecord
      BY <1>1, <2>1, <3>2, OpenWrites DEF Write, DirectoryOf, TypeOK
    <3>3. CASE Stamp
      BY <1>1, <2>1, <3>3, StampWrites DEF Write, DirectoryOf, TypeOK
    <3> QED
      BY <1>5, <3>1, <3>2, <3>3
  <2> QED
    BY <1>2, <2>2, <2>3
<1>6. CASE CloseRecord
  <2>1. next \in Index
    BY <1>6 DEF Typed, Placed, CloseRecord
  <2>2. \A i \in Index \ {next} : Same(i)
    BY <1>1, <1>6, <2>1, CloseWrites DEF Write, TypeOK
  <2>3. /\ disk'[next].names = thread.names /\ disk'[next].torn = thread.torn
        /\ disk'[next].copies = thread.copies
    BY <1>1, <1>6, <2>1, CloseWrites DEF Write, DirectoryOf, TypeOK
  <2>4. \A t \in thread.names \ thread.torn : Consistent(thread.copies[t])
    BY <1>6 DEF CloseRecord, CopiesWhole, Reading
  <2>5. ASSUME NEW i \in Index, disk'[i].whole, NEW t \in disk'[i].names \ disk'[i].torn
        PROVE  Consistent(disk'[i].copies[t])
    BY <2>2, <2>3, <2>4, <2>5 DEF SavedWhole
  <2> QED
    BY <2>5 DEF SavedWhole
<1> QED
  BY <1>3, <1>4, <1>5, <1>6
  DEF Next, CheckpointStep, Parse, ParseFails, PutTask, ReceiveHeartBeat, HandlerPoll, ReleaseTask, Answer,
      Pause, SkipDropped, CopyCounters, CopyLog, CopyQueue, SaveFails, Resume, Restart, saveVars

LEMMA TasksInvHolds == Spec => [](Typed /\ PauseInv /\ TasksInv)
<1> DEFINE Inv == Typed /\ PauseInv /\ TasksInv
<1>1. Init => TasksInv
  <2> SUFFICES ASSUME Init PROVE TasksInv
    OBVIOUS
  <2>1. thread = ThreadOf("none", {}, NoTask, {}, NoTasks, {}, {}, {})
    BY NoThreadTyped DEF Init
  <2>2. \A i \in Index : disk[i].whole = FALSE
    BY NoThreadTyped DEF Init, DirectoryOf
  <2>3. LiveWhole
    BY NewTaskConsistent DEF Init, NoTasks, LiveWhole
  <2> QED
    BY <2>1, <2>2, <2>3 DEF ThreadOf, TasksInv, NoneCopied, CopiesWhole, CopyAgrees, SavedWhole, Reading
<1>2. TasksInv /\ UNCHANGED vars => TasksInv'
  BY DEF TasksInv, LiveWhole, NoneCopied, CopiesWhole, CopyAgrees, SavedWhole, Reading, vars,
     recordVars, saveVars
<1>3. Typed /\ PauseInv /\ TasksInv /\ Next => TasksInv'
  BY LiveWholeStep, CopiesStep, SavedWholeStep DEF TasksInv
<1>4. (Typed /\ PauseInv) /\ TasksInv /\ [Next]_vars => TasksInv'
  BY <1>2, <1>3
<1> QED
  BY <1>1, <1>4, PauseInvHolds, PTL DEF Spec

\* What a checkpoint has saved and a restarted master has recovered is
\* consistent, but for the tasks that a release or a late handler disturbed.
THEOREM CheckpointedTasksAreWhole == Spec => []TasksWhole
<1>1. Typed /\ PauseInv /\ TasksInv => TasksWhole
  BY DEF Typed, TypeOK, TasksInv, LiveWhole, SavedWhole, TasksWhole
<1> QED
  BY <1>1, TasksInvHolds, PTL

-----------------------------------------------------------------------------
(* The URLs that a checkpoint saves.                                       *)

\* Every task whose URLs are seen is in the record, was lost, is over, or is
\* being submitted; so the logs that the thread has saved have no other when
\* it comes to the record, and each that they have is, while the record is
\* written, in it, before the walk, being read, or had its own reason.
SeenIsKnown == filter \subseteq progress \cup orphans \cup {t \in Task : tasks[t].over} \cup {submitting}
LogsAreOld  == thread.at = "logs" => disk[next].seen \subseteq filter
WalkCovers  == thread.at \in {"copying", "log", "queue"} =>
  \A t \in disk[next].seen :
     \/ t \in thread.names \cup thread.todo \cup thread.spared
     \/ Reading /\ t = thread.task

UrlsInv == SeenIsKnown /\ LogsAreOld /\ WalkCovers /\ SavedUrlsHaveTheirTask

LEMMA SeenStep ==
  ASSUME Typed, SeenIsKnown, Next
  PROVE  SeenIsKnown'
<1> USE DEF SeenIsKnown, recordVars, urlVars, submitVars
<1>1. TypeOK
  BY DEF Typed
<1>2. ASSUME UNCHANGED <<filter, progress, orphans, tasks, submitting>> PROVE SeenIsKnown'
  BY <1>2
<1>3. ASSUME NEW t \in Task, Parse(t) PROVE SeenIsKnown'
  BY <1>1, <1>3, CheckpointAssumption DEF Parse, TypeOK
<1>4. CASE ParseFails
  BY <1>1, <1>4 DEF ParseFails, TypeOK
<1>5. CASE PutTask
  <2>1. submitting \in Task /\ filter' = filter /\ orphans' = orphans /\ filter \subseteq Task
        /\ progress' = (progress \ Dropped) \cup {submitting}
        /\ tasks' = [tasks EXCEPT ![submitting] = NewTask]
    BY <1>1, <1>5 DEF PutTask, TypeOK
  <2>2. \A t \in Dropped : tasks[t].over
    BY DEF Dropped
  <2>3. ASSUME NEW t \in filter, t # submitting, tasks[t].over PROVE tasks'[t].over
    BY <1>1, <2>1, <2>3 DEF TypeOK
  <2> QED
    BY <2>1, <2>2, <2>3
<1>6. ASSUME NEW m \in Machine, NEW t \in Task, HandlerPoll(m, t) \/ ReleaseTask(m, t) PROVE SeenIsKnown'
  <2>1. UNCHANGED <<filter, progress, orphans, submitting>>
    BY <1>6 DEF HandlerPoll, ReleaseTask
  <2>2. \A s \in Task : tasks[s].over => tasks'[s].over
    <3>1. \A s \in Task \ {t} : tasks'[s] = tasks[s]
      BY <1>1, <1>6 DEF HandlerPoll, ReleaseTask, TypeOK
    <3>2. tasks[t] \in TaskType
      BY <1>1 DEF TypeOK
    <3>3. tasks[t].over => tasks'[t].over
      BY <1>1, <1>6, <3>2, PollTyped, ReturnTyped DEF HandlerPoll, ReleaseTask, TypeOK
    <3> QED
      BY <3>1, <3>3
  <2> QED
    BY <2>1, <2>2
<1>7. ASSUME NEW from, Restart(from) PROVE SeenIsKnown'
  BY <1>7 DEF Restart
<1> QED
  BY <1>2, <1>3, <1>4, <1>5, <1>6, <1>7
  DEF Next, CheckpointStep, ReceiveHeartBeat, Answer, Pause, MakeDirectory, SaveLogs,
      OpenRecord, SkipDropped, CopyCounters, CopyLog, CopyQueue, CloseRecord, SaveFails, Stamp, Resume

\* Of the URLs and the record in a directory, what a step changes.
LEMMA LogsStep ==
  ASSUME Typed, SeenIsKnown, LogsAreOld, WalkCovers, Next
  PROVE  LogsAreOld' /\ WalkCovers'
<1> DEFINE Goal == LogsAreOld' /\ WalkCovers'
           SameLogs == disk'[next'].seen = disk[next].seen
<1>1. TypeOK /\ (Reading => thread.task \in Task)
  BY DEF Typed, Placed
<1>2. ASSUME UNCHANGED <<thread, disk, next>>, filter \subseteq filter' PROVE Goal
  BY <1>2 DEF LogsAreOld, WalkCovers, Reading
<1>3. CASE PutTask
  <2>1. UNCHANGED <<disk, next, filter>> /\ submitting \in Task
    BY <1>1, <1>3 DEF PutTask, TypeOK, urlVars
  <2>2. CASE thread' = ThreadOf("started", {}, NoTask, {}, NoTasks, {}, {}, {})
    BY <2>2 DEF ThreadOf, LogsAreOld, WalkCovers
  <2>3. CASE /\ thread'.at = ReadsOld.at /\ thread'.task = ReadsOld.task /\ thread'.names = ReadsOld.names
             /\ thread'.spared = ReadsOld.spared /\ ReadsOld.todo \subseteq thread'.todo
    <3>1. CASE ReadsOld = thread
      BY <2>1, <2>3, <3>1 DEF LogsAreOld, WalkCovers, Reading
    <3>2. CASE /\ Reading /\ thread.task = submitting
               /\ ReadsOld.at = "copying" /\ ReadsOld.todo = thread.todo
               /\ ReadsOld.names = thread.names \cup {submitting} /\ ReadsOld.spared = thread.spared
      BY <2>1, <2>3, <3>2 DEF LogsAreOld, WalkCovers, Reading
    <3> QED
      BY <2>1, <3>1, <3>2, ReadsOldCases
  <2> QED
    BY <1>3, <2>2, <2>3, PutMoves
<1>4. ASSUME NEW m \in Machine, NEW t \in Task, HandlerPoll(m, t) \/ ReleaseTask(m, t) PROVE Goal
  <2>1. UNCHANGED <<disk, next, filter>>
    BY <1>4 DEF HandlerPoll, ReleaseTask, urlVars
  <2> QED
    BY <1>4, <2>1, QuietMoves DEF LogsAreOld, WalkCovers, Reading
<1>5. ASSUME NEW m \in Machine, Answer(m) PROVE Goal
  <2>1. thread' = ThreadOf(thread.at, thread.todo, thread.task, thread.names, thread.copies,
                           thread.torn, thread.spared, thread.late \ {m})
    BY <1>1, <1>5, AnswerEffect
  <2> QED
    BY <1>5, <2>1 DEF Answer, ThreadOf, LogsAreOld, WalkCovers, Reading, urlVars
<1>6. CASE Pause
  BY <1>1, <1>6, PauseEffect DEF ThreadOf, LogsAreOld, WalkCovers
<1>7. CASE MakeDirectory \/ CloseRecord \/ SaveFails \/ Stamp
  <2>1. thread'.at \in {"directory", "saved", "failed", "stamped"}
    BY <1>7, PlaceMoves
  <2> QED
    BY <2>1 DEF LogsAreOld, WalkCovers
<1>8. CASE SaveLogs
  <2>1. next \in Index /\ thread'.at = "logs" /\ next' = next /\ filter' = filter
    BY <1>8, PlaceMoves DEF SaveLogs, Typed, Placed
  <2>2. disk'[next].seen = filter
    BY <1>1, <1>8, <2>1, SaveLogsWrites DEF Write, DirectoryOf, TypeOK
  <2> QED
    BY <2>1, <2>2 DEF LogsAreOld, WalkCovers
<1>9. CASE OpenRecord
  <2>1. next \in Index /\ next' = next /\ thread.at = "logs"
    BY <1>9 DEF OpenRecord, Typed, Placed
  <2>2. thread' = ThreadOf("copying", progress, thread.task, thread.names, thread.copies, thread.torn,
                           orphans \cup {t \in Task : tasks[t].over} \cup ({submitting} \ {NoTask}),
                           thread.late)
    BY <1>1, <1>9, OpenEffect
  <2>3. /\ thread'.at = "copying" /\ thread'.todo = progress
        /\ thread'.spared = orphans \cup {t \in Task : tasks[t].over} \cup ({submitting} \ {NoTask})
    BY <2>2 DEF ThreadOf
  <2>4. disk'[next].seen = disk[next].seen /\ disk[next].seen \subseteq Task
    BY <1>1, <1>9, <2>1, OpenWrites, DirectoryFields DEF Write, DirectoryOf, TypeOK
  <2>5. ASSUME NEW t \in disk[next].seen PROVE t \in thread'.todo \cup thread'.spared
    <3>1. t \in Task /\ t \in filter
      BY <2>1, <2>4, <2>5 DEF LogsAreOld
    <3> QED
      BY <2>3, <3>1, CheckpointAssumption DEF SeenIsKnown
  <2> QED
    BY <2>1, <2>3, <2>4, <2>5 DEF LogsAreOld, WalkCovers
<1>10. ASSUME NEW t \in Task, SkipDropped(t) PROVE Goal
  <2>1. thread' = ThreadOf(thread.at, thread.todo \ {t}, thread.task, thread.names, thread.copies,
                           thread.torn, thread.spared \cup {t}, thread.late)
        /\ thread.at = "copying"
    BY <1>1, <1>10, SkipEffect DEF SkipDropped
  <2>2. /\ thread'.at = "copying" /\ thread'.todo = thread.todo \ {t} /\ thread'.names = thread.names
        /\ thread'.spared = thread.spared \cup {t}
    BY <2>1 DEF ThreadOf
  <2> QED
    BY <1>10, <2>1, <2>2 DEF SkipDropped, LogsAreOld, WalkCovers, Reading
<1>11. ASSUME NEW t \in Task, CopyCounters(t) PROVE Goal
  <2>1. thread' = ThreadOf("log", thread.todo \ {t}, t, thread.names, [thread.copies EXCEPT ![t] = Counters(t)],
                           thread.torn \cup (torn \cap {t}), thread.spared, thread.late)
        /\ thread.at = "copying"
    BY <1>1, <1>11, CountersEffect DEF CopyCounters
  <2>2. /\ thread'.at = "log" /\ thread'.todo = thread.todo \ {t} /\ thread'.names = thread.names
        /\ thread'.spared = thread.spared /\ thread'.task = t
    BY <2>1 DEF ThreadOf
  <2> QED
    BY <1>11, <2>1, <2>2 DEF CopyCounters, LogsAreOld, WalkCovers, Reading
<1>12. CASE CopyLog
  <2>1. thread' = ThreadOf("queue", thread.todo, thread.task, thread.names,
                           WithLog(thread.copies, thread.task, tasks[thread.task].distributeLog),
                           thread.torn, thread.spared, thread.late)
    BY <1>1, <1>12, LogEffect
  <2>2. /\ thread'.at = "queue" /\ thread'.todo = thread.todo /\ thread'.names = thread.names
        /\ thread'.spared = thread.spared /\ thread'.task = thread.task /\ thread.at = "log"
    BY <1>12, <2>1 DEF ThreadOf, CopyLog
  <2> QED
    BY <1>12, <2>2 DEF CopyLog, LogsAreOld, WalkCovers, Reading
<1>13. CASE CopyQueue
  <2>1. thread' = ThreadOf("copying", thread.todo, NoTask, thread.names \cup {thread.task},
                           WithQueue(thread.copies, thread.task, tasks[thread.task].taskQueue),
                           thread.torn, thread.spared, thread.late)
    BY <1>1, <1>13, QueueEffect
  <2>2. /\ thread'.at = "copying" /\ thread'.todo = thread.todo
        /\ thread'.names = thread.names \cup {thread.task}
        /\ thread'.spared = thread.spared /\ thread.at = "queue"
    BY <1>13, <2>1 DEF ThreadOf, CopyQueue
  <2> QED
    BY <1>13, <2>2 DEF CopyQueue, LogsAreOld, WalkCovers, Reading
<1>14. ASSUME Resume \/ (\E from : Restart(from)) PROVE Goal
  <2>1. thread' = ThreadOf("none", {}, NoTask, {}, NoTasks, {}, {}, {})
    BY <1>14, NoThreadTyped DEF Resume, Restart
  <2> QED
    BY <2>1 DEF ThreadOf, LogsAreOld, WalkCovers
<1>15. ASSUME NEW t \in Task, Parse(t) PROVE Goal
  BY <1>2, <1>15 DEF Parse, saveVars
<1>16. ASSUME NEW m \in Machine, ReceiveHeartBeat(m) PROVE Goal
  BY <1>2, <1>16 DEF ReceiveHeartBeat, urlVars, saveVars
<1>17. CASE ParseFails
  BY <1>2, <1>17 DEF ParseFails, saveVars
<1> QED
  BY <1>3, <1>4, <1>5, <1>6, <1>7, <1>8, <1>9, <1>10, <1>11, <1>12, <1>13, <1>14, <1>15, <1>16, <1>17
  DEF Next, CheckpointStep

LEMMA SavedUrlsStep ==
  ASSUME Typed, WalkCovers, SavedUrlsHaveTheirTask, Next
  PROVE  SavedUrlsHaveTheirTask'
<1> DEFINE Same(i) == /\ disk'[i].whole = disk[i].whole /\ disk'[i].mixed = disk[i].mixed
                      /\ disk'[i].seen = disk[i].seen /\ disk'[i].names = disk[i].names
                      /\ disk'[i].spared = disk[i].spared
           Open(i) == disk'[i].whole = FALSE \/ disk'[i].mixed = TRUE
<1>1. TypeOK
  BY DEF Typed
<1>2. ASSUME \A i \in Index : Same(i) \/ Open(i) PROVE SavedUrlsHaveTheirTask'
  BY <1>2 DEF SavedUrlsHaveTheirTask
<1>3. ASSUME UNCHANGED disk PROVE SavedUrlsHaveTheirTask'
  BY <1>3 DEF SavedUrlsHaveTheirTask
<1>4. CASE MakeDirectory
  <2>1. next \in Index
    BY <1>4 DEF Typed, Placed, MakeDirectory
  <2>2. \A i \in Index : Same(i) \/ Open(i)
    BY <1>1, <1>4, <2>1, MakeEffect DEF DirectoryOf
  <2> QED
    BY <1>2, <2>2
<1>5. CASE SaveLogs \/ OpenRecord \/ Stamp
  <2>1. next \in Index
    BY <1>5 DEF Typed, Placed, SaveLogs, OpenRecord, Stamp
  <2>2. \A i \in Index \ {next} : Same(i)
    BY <1>1, <1>5, <2>1, SaveLogsWrites, OpenWrites, StampWrites DEF Write, TypeOK
  <2>3. Same(next) \/ Open(next)
    <3>1. CASE SaveLogs
      <4>1. disk'[next].whole = disk[next].whole /\ disk'[next].mixed = disk[next].whole
        BY <1>1, <2>1, <3>1, SaveLogsWrites DEF Write, DirectoryOf, TypeOK
      <4>2. disk[next].whole \in BOOLEAN
        BY <1>1, <2>1, DirectoryFields
      <4> QED
        BY <4>1, <4>2
    <3>2. CASE OpenRecord
      BY <1>1, <2>1, <3>2, OpenWrites DEF Write, DirectoryOf, TypeOK
    <3>3. CASE Stamp
      BY <1>1, <2>1, <3>3, StampWrites DEF Write, DirectoryOf, TypeOK
    <3> QED
      BY <1>5, <3>1, <3>2, <3>3
  <2> QED
    BY <1>2, <2>2, <2>3
<1>6. CASE CloseRecord
  <2>1. next \in Index
    BY <1>6 DEF Typed, Placed, CloseRecord
  <2>2. \A i \in Index \ {next} : Same(i)
    BY <1>1, <1>6, <2>1, CloseWrites DEF Write, TypeOK
  <2>3. /\ disk'[next].names = thread.names /\ disk'[next].spared = thread.spared
        /\ disk'[next].seen = disk[next].seen
    BY <1>1, <1>6, <2>1, CloseWrites DEF Write, DirectoryOf, TypeOK
  <2>4. disk[next].seen \subseteq thread.names \cup thread.spared
    BY <1>6 DEF CloseRecord, WalkCovers, Reading
  <2> QED
    BY <2>2, <2>3, <2>4 DEF SavedUrlsHaveTheirTask
<1> QED
  BY <1>3, <1>4, <1>5, <1>6
  DEF Next, CheckpointStep, Parse, ParseFails, PutTask, ReceiveHeartBeat, HandlerPoll, ReleaseTask, Answer,
      Pause, SkipDropped, CopyCounters, CopyLog, CopyQueue, SaveFails, Resume, Restart, saveVars

\* A complete checkpoint has the task of every URL it has seen, but for those
\* with a reason of their own.
THEOREM CheckpointHasItsTasks == Spec => []SavedUrlsHaveTheirTask
<1>1. Init => UrlsInv
  <2> SUFFICES ASSUME Init PROVE UrlsInv
    OBVIOUS
  <2>1. thread = ThreadOf("none", {}, NoTask, {}, NoTasks, {}, {}, {})
    BY NoThreadTyped DEF Init
  <2>2. \A i \in Index : disk[i].whole = FALSE
    BY NoThreadTyped DEF Init, DirectoryOf
  <2> QED
    BY <2>1, <2>2 DEF Init, ThreadOf, UrlsInv, SeenIsKnown, LogsAreOld, WalkCovers, SavedUrlsHaveTheirTask
<1>2. UrlsInv /\ UNCHANGED vars => UrlsInv'
  BY DEF UrlsInv, SeenIsKnown, LogsAreOld, WalkCovers, SavedUrlsHaveTheirTask, Reading,
         vars, recordVars, urlVars, submitVars, saveVars
<1>3. Typed /\ UrlsInv /\ Next => UrlsInv'
  BY SeenStep, LogsStep, SavedUrlsStep DEF UrlsInv
<1>4. (Typed /\ PauseInv) /\ UrlsInv /\ [Next]_vars => UrlsInv'
  BY <1>2, <1>3
<1>5. UrlsInv => SavedUrlsHaveTheirTask
  BY DEF UrlsInv
<1> QED
  BY <1>1, <1>4, <1>5, PauseInvHolds, PTL DEF Spec

-----------------------------------------------------------------------------
(* Which directories stay.                                                 *)

\* The checkpoints of this process that have a directory.
Made == IF thread.at \in {"directory", "logs", "copying", "log", "queue", "saved", "failed"}
        THEN next ELSE next - 1

FewPresent   == Cardinality(Present) <= MaxCheckpoint
OwnPresent   == boots = 1 => Present \subseteq 1 .. Made
LatestStay   == boots = 1 => \A i \in 1 .. Made : i > Made - MaxCheckpoint => i \in Present

DirectoriesInv == FewPresent /\ OwnPresent /\ LatestStay

LEMMA PresentFinite ==
  /\ Present \subseteq Index /\ IsFiniteSet(Present) /\ Cardinality(Present) \in Nat
<1>1. IsFiniteSet(Index)
  BY CountTyped, FS_Interval DEF Index
<1>2. Present \subseteq Index
  BY DEF Present
<1> QED
  BY <1>1, <1>2, FS_Subset, FS_CardinalityType

\* Making a directory: the smallest goes when the limit is reached.
LEMMA MakeKeepsFew ==
  ASSUME Typed, FewPresent, MakeDirectory
  PROVE  /\ Present' = (Present \ SmallestDeleted) \cup {next}
         /\ FewPresent'
<1>1. TypeOK /\ next \in Index
  BY DEF Typed, Placed, MakeDirectory
<1>2. \A i \in Index : disk'[i].exists <=> i = next \/ (i \notin SmallestDeleted /\ disk[i].exists)
  <2>1. TAKE i \in Index
  <2>2. disk[i].exists \in BOOLEAN
    BY <1>1, DirectoryFields
  <2>3. CASE i \in SmallestDeleted
    <3>1. disk'[i] = DirectoryOf(i = next, {}, FALSE, {}, NoTasks, FALSE, {}, {}, FALSE)
      BY <1>1, <2>3, MakeEffect
    <3>2. disk'[i].exists = (i = next)
      BY <3>1 DEF DirectoryOf
    <3> QED
      BY <2>3, <3>2
  <2>4. CASE i \notin SmallestDeleted
    <3>1. disk'[i] = DirectoryOf(disk[i].exists \/ i = next, disk[i].seen, disk[i].whole, disk[i].names,
                                 disk[i].copies, disk[i].stamped, disk[i].torn, disk[i].spared,
                                 disk[i].mixed)
      BY <1>1, <2>4, MakeEffect
    <3>2. disk'[i].exists = (disk[i].exists \/ i = next)
      BY <3>1 DEF DirectoryOf
    <3> QED
      BY <2>2, <2>4, <3>2
  <2> QED
    BY <2>3, <2>4
<1>3. Present' = (Present \ SmallestDeleted) \cup {next}
  BY <1>1, <1>2 DEF Present
<1>4. ASSUME NEW S \in SUBSET Present, Cardinality(S) <= MaxCheckpoint - 1
      PROVE  Cardinality(S \cup {next}) <= MaxCheckpoint
  <2>1. IsFiniteSet(S) /\ Cardinality(S) \in Nat
    BY PresentFinite, FS_Subset, FS_CardinalityType
  <2>2. Cardinality(S \cup {next}) = IF next \in S THEN Cardinality(S) ELSE Cardinality(S) + 1
    BY <2>1, FS_AddElement
  <2> QED
    BY <1>4, <2>1, <2>2, CountTyped
<1>5. CASE Cardinality(Present) < MaxCheckpoint
  <2>1. SmallestDeleted = {}
    BY <1>5 DEF SmallestDeleted
  <2>2. Cardinality(Present) <= MaxCheckpoint - 1
    BY <1>5, PresentFinite, CountTyped
  <2>3. Cardinality(Present \cup {next}) <= MaxCheckpoint
    BY <1>4, <2>2
  <2>4. Present' = Present \cup {next}
    BY <1>3, <2>1
  <2> QED
    BY <1>3, <2>3, <2>4 DEF FewPresent
<1>6. CASE ~(Cardinality(Present) < MaxCheckpoint)
  <2>1. SmallestDeleted = {i \in Present : \A j \in Present : i <= j}
    BY <1>6 DEF SmallestDeleted
  <2>2. Present # {} /\ Present \subseteq Nat
    BY <1>6, PresentFinite, FS_EmptySet, CheckpointAssumption, CountTyped DEF Index
  <2>3. PICK i \in Present : \A j \in Present : i <= j
    BY <2>2, SmallestExists
  <2>4. i \in SmallestDeleted
    BY <2>1, <2>3
  <2>5. Cardinality(Present \ {i}) <= MaxCheckpoint - 1
    <3>1. IsFiniteSet(Present) /\ Cardinality(Present) \in Nat
      BY PresentFinite
    <3>2. Cardinality(Present \ {i}) = Cardinality(Present) - 1
      BY <2>3, <3>1, FS_RemoveElement
    <3> QED
      BY <3>1, <3>2, CountTyped DEF FewPresent
  <2>6. Present \ SmallestDeleted \subseteq Present \ {i}
    BY <2>4
  <2>7. IsFiniteSet(Present \ {i})
    BY PresentFinite, FS_Subset
  <2>8. /\ Cardinality(Present \ SmallestDeleted) <= Cardinality(Present \ {i})
        /\ Cardinality(Present \ SmallestDeleted) \in Nat /\ Cardinality(Present \ {i}) \in Nat
    BY <2>6, <2>7, FS_Subset, FS_CardinalityType
  <2>9. Cardinality(Present \ SmallestDeleted) <= MaxCheckpoint - 1
    BY <2>5, <2>8, CountTyped
  <2> QED
    BY <1>3, <1>4, <2>9 DEF FewPresent
<1> QED
  BY <1>3, <1>5, <1>6

\* A directory that goes is older than the latest ones.
LEMMA DeletedIsOld ==
  ASSUME Typed, FewPresent, OwnPresent, boots = 1, MakeDirectory, NEW i \in SmallestDeleted
  PROVE  i <= next - MaxCheckpoint
<1>1. /\ next \in Nat /\ thread.at = "paused" /\ Made = next - 1
  BY CountTyped DEF Typed, Placed, MakeDirectory, Made, Index
<1>2. /\ Cardinality(Present) >= MaxCheckpoint /\ i \in Present /\ \A j \in Present : i <= j
  <2>1. SmallestDeleted # {}
    OBVIOUS
  <2>2. ~(Cardinality(Present) < MaxCheckpoint)
    BY <2>1 DEF SmallestDeleted
  <2> QED
    BY <2>2, PresentFinite, CountTyped DEF SmallestDeleted
<1>3. Present \subseteq i .. (next - 1) /\ i \in Nat /\ i <= next - 1
  BY <1>1, <1>2, PresentFinite, CountTyped DEF OwnPresent, Index
<1>4. IsFiniteSet(i .. (next - 1)) /\ Cardinality(i .. (next - 1)) = next - i
  <2>1. i \in Int /\ next - 1 \in Int
    BY <1>1, <1>3
  <2>2. Cardinality(i .. (next - 1)) = (next - 1) - i + 1
    BY <1>1, <1>3, <2>1, FS_Interval
  <2> QED
    BY <1>1, <1>3, <2>1, <2>2, FS_Interval
<1>5. Cardinality(Present) <= next - i
  <2>1. Cardinality(Present) <= Cardinality(i .. (next - 1))
    BY <1>3, <1>4, FS_Subset
  <2> QED
    BY <1>4, <2>1
<1> QED
  BY <1>1, <1>2, <1>3, <1>5, PresentFinite, CountTyped

LEMMA DirectoriesStep ==
  ASSUME Typed, DirectoriesInv, Next
  PROVE  DirectoriesInv'
<1> USE DEF DirectoriesInv
<1>1. TypeOK /\ next \in Nat /\ MaxCheckpoint \in Nat
  BY CountTyped DEF Typed, TypeOK
<1>2. ASSUME Present' = Present, boots' = boots, Made' = Made PROVE DirectoriesInv'
  BY <1>2 DEF FewPresent, OwnPresent, LatestStay
<1>3. ASSUME UNCHANGED <<disk, next, boots>>,
             thread'.at = thread.at \/ {thread'.at, thread.at} \cap {"paused", "stamped", "directory", "logs",
                 "copying", "log", "queue", "saved", "failed"} = {}
             \/ {thread'.at, thread.at} \subseteq {"none", "started", "paused", "stamped"}
             \/ {thread'.at, thread.at} \subseteq {"directory", "logs", "copying", "log", "queue", "saved", "failed"}
      PROVE  DirectoriesInv'
  BY <1>2, <1>3 DEF Present, Made
<1>4. CASE MakeDirectory
  <2>1. next' = next /\ boots' = boots /\ thread'.at = "directory" /\ thread.at = "paused"
    BY <1>4, PlaceMoves DEF MakeDirectory
  <2>2. Made' = next /\ Made = next - 1
    BY <2>1 DEF Made
  <2>3. Present' = (Present \ SmallestDeleted) \cup {next} /\ FewPresent'
    BY <1>4, MakeKeepsFew
  <2>4. OwnPresent'
    <3>1. next >= 1
      BY DEF Typed, TypeOK
    <3> QED
      BY <1>1, <2>1, <2>2, <2>3, <3>1 DEF OwnPresent
  <2>5. ASSUME boots = 1, NEW i \in 1 .. next, i > next - MaxCheckpoint PROVE i \in Present'
    <3>1. CASE i = next
      BY <2>3, <3>1
    <3>2. CASE i # next
      <4>1. i \in 1 .. Made /\ i > Made - MaxCheckpoint
        BY <1>1, <2>2, <2>5, <3>2
      <4>2. i \in Present
        BY <2>5, <4>1 DEF LatestStay
      <4>3. i \notin SmallestDeleted
        BY <1>1, <1>4, <2>5, DeletedIsOld
      <4> QED
        BY <2>3, <4>2, <4>3
    <3> QED
      BY <3>1, <3>2
  <2>6. LatestStay'
    BY <2>1, <2>2, <2>5 DEF LatestStay
  <2> QED
    BY <2>3, <2>4, <2>6
<1>5. CASE SaveLogs \/ OpenRecord \/ CloseRecord \/ Stamp
  <2>1. next \in Index /\ boots' = boots
    BY <1>5 DEF Typed, Placed, SaveLogs, OpenRecord, CloseRecord, Stamp
  <2>2. \A i \in Index : disk'[i].exists = disk[i].exists
    <3>1. \A i \in Index \ {next} : disk'[i] = disk[i]
      BY <1>1, <1>5, <2>1, SaveLogsWrites, OpenWrites, CloseWrites, StampWrites DEF Write, TypeOK
    <3>2. disk'[next].exists = disk[next].exists
      BY <1>1, <1>5, <2>1, SaveLogsWrites, OpenWrites, CloseWrites, StampWrites DEF Write, DirectoryOf, TypeOK
    <3> QED
      BY <3>1, <3>2
  <2>3. Present' = Present
    BY <2>2 DEF Present
  <2>4. Made' = Made
    <3>1. CASE SaveLogs
      BY <3>1, PlaceMoves DEF SaveLogs, Made
    <3>2. CASE OpenRecord
      <4>1. thread'.at = "copying"
        BY <1>1, <3>2, OpenEffect DEF ThreadOf
      <4> QED
        BY <3>2, <4>1 DEF OpenRecord, Made
    <3>3. CASE CloseRecord
      BY <3>3, PlaceMoves DEF CloseRecord, Made
    <3>4. CASE Stamp
      BY <1>1, <3>4, PlaceMoves DEF Stamp, Made
    <3> QED
      BY <1>5, <3>1, <3>2, <3>3, <3>4
  <2> QED
    BY <1>2, <2>1, <2>3, <2>4
<1>6. ASSUME NEW from, Restart(from) PROVE DirectoriesInv'
  <2>1. Present' = Present /\ boots' # 1
    BY <1>1, <1>6, CountTyped DEF Restart, Present, TypeOK
  <2> QED
    BY <2>1 DEF FewPresent, OwnPresent, LatestStay
<1>7. CASE PutTask
  <2>1. UNCHANGED <<disk, next, boots>> /\ submitting \in Task
    BY <1>1, <1>7 DEF PutTask, TypeOK
  <2>2. Made' = Made
    <3>1. CASE thread.at = "none" /\ thread' = ThreadOf("started", {}, NoTask, {}, NoTasks, {}, {}, {})
      BY <2>1, <3>1 DEF ThreadOf, Made
    <3>2. CASE thread'.at = ReadsOld.at
      BY <2>1, <3>2, ReadsOldCases DEF Made, Reading
    <3> QED
      BY <1>7, <3>1, <3>2, PutMoves
  <2> QED
    BY <1>2, <2>1, <2>2 DEF Present
<1>8. ASSUME NEW m \in Machine, NEW t \in Task, HandlerPoll(m, t) \/ ReleaseTask(m, t) PROVE DirectoriesInv'
  BY <1>3, <1>8, QuietMoves DEF HandlerPoll, ReleaseTask
<1>9. ASSUME NEW m \in Machine, Answer(m) PROVE DirectoriesInv'
  BY <1>1, <1>3, <1>9, AnswerEffect DEF Answer, ThreadOf
<1>10. CASE Pause
  BY <1>1, <1>3, <1>10, PauseEffect DEF Pause, ThreadOf
<1>11. ASSUME NEW t \in Task, SkipDropped(t) PROVE DirectoriesInv'
  BY <1>1, <1>3, <1>11, SkipEffect DEF SkipDropped, ThreadOf
<1>12. ASSUME NEW t \in Task, CopyCounters(t) PROVE DirectoriesInv'
  BY <1>1, <1>3, <1>12, CountersEffect DEF CopyCounters, ThreadOf
<1>13. CASE CopyLog
  BY <1>1, <1>3, <1>13, LogEffect DEF CopyLog, ThreadOf
<1>14. CASE CopyQueue
  BY <1>1, <1>3, <1>14, QueueEffect DEF CopyQueue, ThreadOf
<1>15. CASE SaveFails
  BY <1>3, <1>15, PlaceMoves DEF SaveFails
<1>16. CASE Resume
  BY <1>3, <1>16, NoThreadTyped DEF Resume, ThreadOf
<1>17. ASSUME NEW t \in Task, Parse(t) PROVE DirectoriesInv'
  BY <1>3, <1>17 DEF Parse, saveVars
<1>18. ASSUME NEW m \in Machine, ReceiveHeartBeat(m) PROVE DirectoriesInv'
  BY <1>3, <1>18 DEF ReceiveHeartBeat, saveVars
<1>19. CASE ParseFails
  BY <1>3, <1>19 DEF ParseFails, saveVars
<1> QED
  BY <1>4, <1>5, <1>6, <1>7, <1>8, <1>9, <1>10, <1>11, <1>12, <1>13, <1>14, <1>15, <1>16, <1>17, <1>18, <1>19
  DEF Next, CheckpointStep

\* There are never more directories than the limit, and a process that began
\* with an empty disk keeps its latest.
THEOREM LatestCheckpointsStay == Spec => []LatestDirectoriesStay
<1>1. Init => DirectoriesInv
  <2> SUFFICES ASSUME Init PROVE DirectoriesInv
    OBVIOUS
  <2>1. Present = {}
    BY NoThreadTyped DEF Init, Present, DirectoryOf
  <2>2. Cardinality(Present) = 0
    BY <2>1, FS_EmptySet
  <2>3. Made = 0
    BY DEF Init, Made, NoThread
  <2> QED
    BY <2>1, <2>2, <2>3, CountTyped DEF DirectoriesInv, FewPresent, OwnPresent, LatestStay
<1>2. DirectoriesInv /\ UNCHANGED vars => DirectoriesInv'
  BY DEF DirectoriesInv, FewPresent, OwnPresent, LatestStay, Present, Made, vars, saveVars
<1>3. (Typed /\ PauseInv) /\ DirectoriesInv /\ [Next]_vars => DirectoriesInv'
  BY <1>2, DirectoriesStep
<1>4. (Typed /\ PauseInv) /\ DirectoriesInv => LatestDirectoriesStay
  <2> SUFFICES ASSUME Typed, DirectoriesInv PROVE LatestDirectoriesStay
    OBVIOUS
  <2>1. next \in Nat /\ MaxCheckpoint \in Nat /\ Made \in {next, next - 1}
    BY CountTyped DEF Typed, TypeOK, Made
  <2>2. ASSUME boots = 1, NEW i \in 1 .. next - 1, i > next - MaxCheckpoint PROVE disk[i].exists
    <3>1. i \in 1 .. Made /\ i > Made - MaxCheckpoint
      BY <2>1, <2>2
    <3> QED
      BY <2>2, <3>1 DEF DirectoriesInv, LatestStay, Present
  <2> QED
    BY <2>2 DEF DirectoriesInv, FewPresent, LatestDirectoriesStay
<1> QED
  BY <1>1, <1>3, <1>4, PauseInvHolds, PTL DEF Spec

=============================================================================
