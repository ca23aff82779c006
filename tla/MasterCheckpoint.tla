-------------------------- MODULE MasterCheckpoint --------------------------
(***************************************************************************)
(* The checkpoints of the master and what a restarted master makes of one: *)
(* MasterNode.submitTask starts a checkpoint thread when enough rows have  *)
(* come in; the thread pauses the master, makes a directory, saves the     *)
(* logs of the URL database and then, by Java serialization, the record of *)
(* tasks, and resumes the master.                                          *)
(*                                                                         *)
(* The pause holds back the heartbeats that have not begun.  Handlers that *)
(* are past its test, submissions and releases go on while the thread      *)
(* saves, and serialization takes no lock of a task: it writes the         *)
(* counters, then the log of who holds what, then the queue (the order in  *)
(* which Java writes the fields).                                          *)
(*                                                                         *)
(* A task stands for its file too: its URLs are seen together.  A Bad...   *)
(* definition is a faulty variant of the one that follows it.              *)
(***************************************************************************)
EXTENDS TaskRecord

CONSTANTS
  Task,            \* task files
  NoTask,
  RecordLimit,     \* MasterNode.java:411, 50 in the code
  CheckpointRows,  \* MasterNode.java:423, 100000 in the code
  MaxCheckpoint,   \* Checkpointer.java:34, 10 in the code
  MaxBoot,         \* bound: how often the master starts
  MaxIndex         \* bound: checkpoints of one process

ASSUME CheckpointAssumption ==
  /\ NoTask \notin Task
  /\ RecordLimit \in Nat \ {0} /\ CheckpointRows \in Nat \ {0}
  /\ MaxCheckpoint \in Nat \ {0} /\ MaxIndex \in Nat \ {0}
  /\ MaxBoot \in Nat \ {0}

VARIABLES
  tasks,       \* the Task objects
  progress,    \* taskProgressRecord
  filter,      \* the tasks whose URLs the URL database has, in memory
  synced,      \* those whose URLs its files surely have
  submitting,  \* the task that submitTask is constructing, under its lock
  count,       \* _count
  handlers,    \* the machines whose heartbeat handler is past the pause test
  state,       \* MasterNode.state
  thread,      \* the checkpoint thread
  next,        \* nextCheckpoint
  disk,        \* the checkpoint directories, by index
  boots,
  torn,        \* history: tasks that a disturbed checkpoint has brought back
  orphans      \* history: tasks whose URLs are seen and that no record has

recordVars == <<tasks, progress, torn>>
urlVars    == <<filter, synced, orphans>>
submitVars == <<submitting, count>>
saveVars   == <<thread, next, disk>>
vars == <<recordVars, urlVars, submitVars, handlers, state, saveVars, boots>>

-----------------------------------------------------------------------------
Index == 1 .. MaxIndex
NoTasks == [t \in Task |-> NewTask]

\* A directory: the logs (seen), the serialized record (names and copies,
\* whole once the file is complete), the stamp.  History: the tasks that were
\* changed while they were copied (torn), those that were seen and not in the
\* record for a reason of their own when the copy began (spared), and whether
\* the logs are newer than the record of an earlier process (mixed).
EmptyDirectory ==
  [ exists |-> FALSE, seen |-> {}, whole |-> FALSE, names |-> {}, copies |-> NoTasks,
    stamped |-> FALSE, torn |-> {}, spared |-> {}, mixed |-> FALSE ]

\* The thread: where it is, the tasks it has still to copy, those it has, the
\* one it is copying, and the handlers that the pause came too late for.
NoThread ==
  [ at |-> "none", todo |-> {}, task |-> NoTask, names |-> {}, copies |-> NoTasks,
    torn |-> {}, spared |-> {}, late |-> {} ]

\* A new process: an empty record, and nothing runs yet.
Init ==
  /\ tasks = NoTasks /\ progress = {} /\ torn = {}
  /\ filter = {} /\ synced = {} /\ orphans = {}
  /\ submitting = NoTask /\ count = 0
  /\ handlers = {} /\ state = "NASCENT"
  /\ thread = NoThread /\ next = 1
  /\ disk = [i \in Index |-> EmptyDirectory]
  /\ boots = 1

-----------------------------------------------------------------------------
(* Submission.                                                             *)

\* The constructor of Task puts the URLs of the file into the database.  A
\* file without a new URL is refused and nothing changes.  (A task that the
\* record has is not submitted again.)
Parse(t) ==
  /\ submitting = NoTask /\ t \notin filter \cup progress
  /\ submitting' = t
  /\ filter' = filter \cup {t}
  /\ UNCHANGED <<recordVars, synced, orphans, count, handlers, state, saveVars, boots>>

\* The constructor throws: the URLs stay seen.
ParseFails ==
  /\ submitting # NoTask
  /\ orphans' = orphans \cup {submitting}
  /\ submitting' = NoTask
  /\ UNCHANGED <<recordVars, filter, synced, count, handlers, state, saveVars, boots>>

Dropped == {s \in progress : Cardinality(progress) >= RecordLimit /\ tasks[s].over}

\* A checkpoint is due: one that is running makes the submission fail after
\* the task has been put, and _count stays.
Due == count + TotalRow >= CheckpointRows
StartsCheckpoint == Due /\ thread.at = "none"

\* The new object may take the place, under its file's name, of a dropped one
\* that the thread is reading.  The thread goes on with the old one, which is
\* over and changes no more: so what is left of it can be read at once.
ReadsOld ==
  IF thread.at \in {"log", "queue"} /\ thread.task = submitting
  THEN [thread EXCEPT !.at = "copying", !.task = NoTask, !.names = @ \cup {submitting},
          !.copies[submitting].distributeLog = tasks[submitting].distributeLog,
          !.copies[submitting].taskQueue = tasks[submitting].taskQueue]
  ELSE thread

\* The walk of the serialization over the map may come across the new entry.
PutTask ==
  /\ submitting # NoTask
  /\ StartsCheckpoint => next <= MaxIndex
  /\ progress' = (progress \ Dropped) \cup {submitting}
  /\ tasks' = [tasks EXCEPT ![submitting] = NewTask]
  /\ torn' = torn \ {submitting}
  /\ submitting' = NoTask
  /\ count' = IF StartsCheckpoint THEN 0 ELSE count + TotalRow
  /\ IF StartsCheckpoint THEN thread' = [NoThread EXCEPT !.at = "started"]
     ELSE \/ thread' = ReadsOld
          \/ /\ thread.at \in {"copying", "log", "queue"}
             /\ thread' = [ReadsOld EXCEPT !.todo = @ \cup {submitting}]
  /\ UNCHANGED <<urlVars, handlers, state, next, disk, boots>>

-----------------------------------------------------------------------------
(* Heartbeat handlers and releases, as far as they change tasks; the rest  *)
(* of both is MasterHeartBeat.                                             *)

BadReceiveWhilePaused(m) ==
  /\ m \notin handlers
  /\ handlers' = handlers \cup {m}
  /\ UNCHANGED <<recordVars, urlVars, submitVars, state, saveVars, boots>>

\* A paused master answers with nothing.
ReceiveHeartBeat(m) ==
  /\ m \notin handlers /\ state # "PAUSED"
  /\ handlers' = handlers \cup {m}
  /\ UNCHANGED <<recordVars, urlVars, submitVars, state, saveVars, boots>>

\* The thread is between the fields of task t.
Copying(t) == thread.at \in {"log", "queue"} /\ thread.task = t

\* The handler may have passed over t, or not have come to it.
HandlerPoll(m, t) ==
  /\ m \in handlers /\ t \in progress /\ ~tasks[t].over
  /\ tasks' = [tasks EXCEPT ![t] = CheckAndPoll(@, m)]
  /\ thread' = [thread EXCEPT !.torn = IF Copying(t) /\ m \in thread.late THEN @ \cup {t} ELSE @]
  /\ UNCHANGED <<progress, torn, urlVars, submitVars, handlers, state, next, disk, boots>>

Answer(m) ==
  /\ m \in handlers
  /\ handlers' = handlers \ {m}
  /\ thread' = [thread EXCEPT !.late = @ \ {m}]
  /\ UNCHANGED <<recordVars, urlVars, submitVars, state, next, disk, boots>>

\* A machine's znode vanishes and its block goes back, paused or not.
ReleaseTask(m, t) ==
  /\ t \in progress /\ tasks[t].distributeLog[m] # NoBlock
  /\ tasks' = [tasks EXCEPT ![t] = ReturnCrawlTask(@, m)]
  /\ thread' = [thread EXCEPT !.torn = IF Copying(t) THEN @ \cup {t} ELSE @]
  /\ UNCHANGED <<progress, torn, urlVars, submitVars, handlers, state, next, disk, boots>>

-----------------------------------------------------------------------------
(* CheckpointingThread.run.                                                *)

Goto(place) == [thread EXCEPT !.at = place]

\* requestCrawlPause, which needs the lock that submitTask holds; waitOnPaused
\* returns at once, for the state is set to PAUSED and never to PAUSING.
\* Nothing else pauses the master, so that the thread always finds it running
\* and resumes it at the end.
Pause ==
  /\ thread.at = "started" /\ submitting = NoTask
  /\ state' = "PAUSED"
  /\ thread' = [thread EXCEPT !.at = "paused", !.late = handlers]
  /\ UNCHANGED <<recordVars, urlVars, submitVars, handlers, next, disk, boots>>

Present == {i \in Index : disk[i].exists}

BadDeletedTooLate ==
  IF Cardinality(Present) <= MaxCheckpoint THEN {}
  ELSE {i \in Present : \A j \in Present : i <= j}

\* The directory with the smallest index goes when there are too many.
SmallestDeleted ==
  IF Cardinality(Present) < MaxCheckpoint THEN {}
  ELSE {i \in Present : \A j \in Present : i <= j}

\* createCheckpointInProgressDirectory: a directory that an earlier process
\* has left under the same name is kept with all that is in it.
MakeDirectory ==
  /\ thread.at = "paused"
  /\ disk' = [i \in Index |->
       LET left == IF i \in SmallestDeleted THEN EmptyDirectory ELSE disk[i]
       IN IF i = next THEN [left EXCEPT !.exists = TRUE] ELSE left]
  /\ thread' = Goto("directory")
  /\ UNCHANGED <<recordVars, urlVars, submitVars, handlers, state, next, boots>>

\* checkpointBdb: a forced checkpoint of the database, then its log files up
\* to the one that was the last.
SaveLogs ==
  /\ thread.at = "directory"
  /\ synced' = filter
  /\ disk' = [disk EXCEPT ![next].seen = filter, ![next].mixed = disk[next].whole]
  /\ thread' = Goto("logs")
  /\ UNCHANGED <<recordVars, filter, orphans, submitVars, handlers, state, next, boots>>

\* checkpointSelf opens the file, which empties it, and comes to the record.
OpenRecord ==
  /\ thread.at = "logs"
  /\ disk' = [disk EXCEPT ![next].whole = FALSE, ![next].mixed = FALSE]
  /\ thread' = [thread EXCEPT !.at = "copying", !.todo = progress,
                  !.spared = orphans \cup {t \in Task : tasks[t].over} \cup ({submitting} \ {NoTask})]
  /\ UNCHANGED <<recordVars, urlVars, submitVars, handlers, state, next, boots>>

\* The copy has a task that is dropped meanwhile, for it is over, or has not.
SkipDropped(t) ==
  /\ thread.at = "copying" /\ t \in thread.todo \ progress
  /\ thread' = [thread EXCEPT !.todo = @ \ {t}, !.spared = @ \cup {t}]
  /\ UNCHANGED <<recordVars, urlVars, submitVars, handlers, state, next, disk, boots>>

\* The int and boolean fields of a task first (with the history of what the
\* counters count), ...
CopyCounters(t) ==
  /\ thread.at = "copying" /\ t \in thread.todo
  /\ thread' = [thread EXCEPT !.at = "log", !.task = t, !.todo = @ \ {t},
       !.torn = @ \cup (torn \cap {t}),
       !.copies[t] = [NewTask EXCEPT !.distributedRows = tasks[t].distributedRows,
                                     !.finishedRows    = tasks[t].finishedRows,
                                     !.over            = tasks[t].over,
                                     !.credited        = tasks[t].credited]]
  /\ UNCHANGED <<recordVars, urlVars, submitVars, handlers, state, next, disk, boots>>

\* ... then _distributeLog, ...
CopyLog ==
  /\ thread.at = "log"
  /\ thread' = [thread EXCEPT !.at = "queue",
       !.copies[thread.task].distributeLog = tasks[thread.task].distributeLog]
  /\ UNCHANGED <<recordVars, urlVars, submitVars, handlers, state, next, disk, boots>>

\* ... and taskQueue.
CopyQueue ==
  /\ thread.at = "queue"
  /\ thread' = [thread EXCEPT !.at = "copying", !.task = NoTask, !.names = @ \cup {thread.task},
       !.copies[thread.task].taskQueue = tasks[thread.task].taskQueue]
  /\ UNCHANGED <<recordVars, urlVars, submitVars, handlers, state, next, disk, boots>>

BadCloseRecordSavesLogs ==
  /\ thread.at = "copying" /\ thread.todo = {}
  /\ synced' = filter
  /\ disk' = [disk EXCEPT ![next].whole = TRUE, ![next].names = thread.names, ![next].seen = filter,
                          ![next].copies = thread.copies, ![next].torn = thread.torn,
                          ![next].spared = thread.spared]
  /\ thread' = Goto("saved")
  /\ UNCHANGED <<recordVars, filter, orphans, submitVars, handlers, state, next, boots>>

CloseRecord ==
  /\ thread.at = "copying" /\ thread.todo = {}
  /\ disk' = [disk EXCEPT ![next].whole = TRUE, ![next].names = thread.names,
                          ![next].copies = thread.copies, ![next].torn = thread.torn,
                          ![next].spared = thread.spared]
  /\ thread' = Goto("saved")
  /\ UNCHANGED <<recordVars, urlVars, submitVars, handlers, state, next, boots>>

\* An error of the disk, of the database, or of a map that is changed while
\* it is written.
SaveFails ==
  /\ thread.at \in {"directory", "logs", "copying", "log", "queue"}
  /\ thread' = Goto("failed")
  /\ UNCHANGED <<recordVars, urlVars, submitVars, handlers, state, next, disk, boots>>

BadStampNotFinally ==
  /\ thread.at \in {"saved", "failed"}
  /\ disk' = [disk EXCEPT ![next].stamped = @ \/ thread.at = "saved"]
  /\ next' = next + 1
  /\ thread' = IF thread.at = "saved" THEN Goto("stamped") ELSE NoThread
  /\ UNCHANGED <<recordVars, urlVars, submitVars, handlers, state, boots>>

\* The finally clause: the stamp unless something failed, and the next index.
Stamp ==
  /\ thread.at \in {"saved", "failed"}
  /\ disk' = [disk EXCEPT ![next].stamped = @ \/ thread.at = "saved"]
  /\ next' = next + 1
  /\ thread' = Goto("stamped")
  /\ UNCHANGED <<recordVars, urlVars, submitVars, handlers, state, boots>>

\* completePause and requestCrawlResume, under the same lock.
Resume ==
  /\ thread.at = "stamped" /\ submitting = NoTask
  /\ state' = "RUNNING"
  /\ thread' = NoThread
  /\ UNCHANGED <<recordVars, urlVars, submitVars, handlers, next, disk, boots>>

CheckpointStep ==
  \/ Pause \/ MakeDirectory \/ SaveLogs \/ OpenRecord
  \/ \E t \in Task : SkipDropped(t) \/ CopyCounters(t)
  \/ CopyLog \/ CopyQueue \/ CloseRecord \/ SaveFails \/ Stamp \/ Resume

-----------------------------------------------------------------------------
(* The process dies, and one starts in its place.                          *)

\* MasterNode.initialize: with a directory to recover from, its logs are
\* copied to where the database is (files that are there stay) and the record
\* is read; one that cannot be read is an empty one, stamped or not.  Of the
\* URLs that came after the last checkpoint the database may have written
\* some; or it starts in an empty place.
Restart(from) ==
  LET names == IF from \in Present /\ disk[from].whole THEN disk[from].names ELSE {}
      seen  == IF from \in Present THEN disk[from].seen ELSE {}
  IN /\ boots < MaxBoot /\ boots' = boots + 1
     /\ \E kept \in {{}} \cup {S \in SUBSET filter : synced \subseteq S} : filter' = kept \cup seen
     /\ synced' = filter'
     /\ progress' = names
     /\ tasks' = [t \in Task |-> IF t \in names THEN disk[from].copies[t] ELSE NewTask]
     /\ torn' = IF names = {} THEN {} ELSE names \cap disk[from].torn
     /\ orphans' = filter' \ names
     /\ submitting' = NoTask /\ count' = 0
     /\ handlers' = {} /\ state' = "NASCENT"
     /\ thread' = NoThread /\ next' = 1
     /\ UNCHANGED disk

NoDirectory == 0

Next ==
  \/ \E t \in Task : Parse(t)
  \/ ParseFails \/ PutTask
  \/ \E m \in Machine : \/ ReceiveHeartBeat(m) \/ Answer(m)
                        \/ \E t \in Task : HandlerPoll(m, t) \/ ReleaseTask(m, t)
  \/ CheckpointStep
  \/ \E from \in Present \cup {NoDirectory} : Restart(from)

Spec == Init /\ [][Next]_vars

-----------------------------------------------------------------------------
(* Properties.                                                             *)

DirectoryType ==
  [ exists : BOOLEAN, seen : SUBSET Task, whole : BOOLEAN, names : SUBSET Task,
    copies : [Task -> TaskType], stamped : BOOLEAN, torn : SUBSET Task,
    spared : SUBSET Task, mixed : BOOLEAN ]

ThreadType ==
  [ at : {"none", "started", "paused", "directory", "logs", "copying", "log", "queue",
          "saved", "failed", "stamped"},
    todo : SUBSET Task, task : Task \cup {NoTask}, names : SUBSET Task,
    copies : [Task -> TaskType], torn : SUBSET Task, spared : SUBSET Task,
    late : SUBSET Machine ]

\* Type correctness.
TypeOK ==
  /\ tasks \in [Task -> TaskType] /\ progress \subseteq Task /\ torn \subseteq Task
  /\ filter \subseteq Task /\ synced \subseteq filter /\ orphans \subseteq filter
  /\ submitting \in Task \cup {NoTask} /\ count \in Nat
  /\ handlers \subseteq Machine
  /\ state \in {"NASCENT", "RUNNING", "PAUSED"}
  /\ thread \in ThreadType
  /\ next \in 1 .. MaxIndex + 1
  /\ disk \in [Index -> DirectoryType]
  /\ boots \in 1 .. MaxBoot

\* A task that a checkpoint has saved, and one that a master has recovered,
\* has each of its blocks in one place and counts what it should, unless a
\* release or a handler that the pause came too late for changed it while it
\* was being copied (MasterNode.java:785-800, HeartBeatProtocolImpl.java:39).
TasksWhole ==
  /\ \A t \in progress \ torn : Consistent(tasks[t])
  /\ \A i \in Index : disk[i].whole =>
        \A t \in disk[i].names \ disk[i].torn : Consistent(disk[i].copies[t])

\* The logs are saved before the record, so that a task whose URLs a
\* checkpoint has is in its record: unless it was over, had been lost before
\* or was being constructed when the record was copied, and unless the process
\* died after it had put new logs beside the record of an earlier process
\* (MasterNode.java:785-789, 411-421).
SavedUrlsHaveTheirTask ==
  \A i \in Index : disk[i].whole /\ ~disk[i].mixed =>
    disk[i].seen \subseteq disk[i].names \cup disk[i].spared

\* There are never more directories than the limit, and those of the process
\* that started with an empty disk are its latest
\* (Checkpointer.java:179-200: "keep only 10 backup folders").
LatestDirectoriesStay ==
  /\ Cardinality(Present) <= MaxCheckpoint
  /\ boots = 1 => \A i \in 1 .. next - 1 : i > next - MaxCheckpoint => disk[i].exists

\* The master is paused exactly while its checkpoint thread saves: whatever
\* fails, the thread does not end before it has let the heartbeats through
\* again (Checkpointer.java:145-157, MasterNode.java:794-814).
PausedWhileSaving == state = "PAUSED" <=> thread.at \notin {"none", "started"}
=============================================================================
