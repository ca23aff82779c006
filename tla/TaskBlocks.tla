----------------------------- MODULE TaskBlocks -----------------------------
(***************************************************************************)
(* One object of node/master/Task.java on its own: any caller, any         *)
(* machine, any order of its two synchronized methods.  Its constructor is *)
(* TaskFile, and the names are such that one module can extend both.       *)
(***************************************************************************)
EXTENDS TaskRecord

VARIABLE task

taskVars == <<task>>

TaskInit == task = NewTask

Poll(m)   == task' = CheckAndPoll(task, m)
Return(m) == task' = ReturnCrawlTask(task, m)

TaskNext == \E m \in Machine : Poll(m) \/ Return(m)

TaskSpec == TaskInit /\ [][TaskNext]_taskVars

-----------------------------------------------------------------------------
(* Properties.                                                             *)

\* Type correctness of a task (node/master/Task.java:35-50).
TaskTypeOK == task \in TaskType

\* No call of checkAndPoll and returnCrawlTask, in any order and by any
\* machines, loses a block or has it in two places (Task.java:191-229).
BlocksPartitioned == Partitioned(task)

\* finishedRows and distributedRows stay the row sums of the counted blocks
\* and of the counted and held ones, and in order: the bug that the comment
\* at Task.java:227 says was fixed was finishedRows > distributedRows.
RowAccounting ==
  /\ Accounted(task)
  /\ 0 <= task.finishedRows
  /\ task.finishedRows <= task.distributedRows
  /\ task.distributedRows <= TotalRow

\* over is set by the call that counts the last block and by no other: a sum
\* of some blocks never equals totalRow by accident (Task.java:195-197).
OverWhenAllCredited == Finished(task)

\* taskQueue is a LinkedBlockingQueue(blockCount) and add() throws on a full
\* one: the block a dead machine gives back always fits (Task.java:156,225).
QueueHasRoom ==
  \A m \in Machine : task.distributeLog[m] # NoBlock => Len(task.taskQueue) < BlockCount

\* Nothing is handed out, counted or taken back once the task is over.
OverIsFinal == [][task.over => task' = task]_taskVars

-----------------------------------------------------------------------------
(* The abstract ledger that a task implements.                             *)

Ledger == INSTANCE BlockLedger WITH place <- PlaceOf(task), finished <- task.over

\* A task implements the ledger: what a machine receives is a waiting block,
\* and it receives none only when none waits.
LedgerSpec == Ledger!Spec
=============================================================================
