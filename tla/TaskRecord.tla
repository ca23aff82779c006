----------------------------- MODULE TaskRecord -----------------------------
(***************************************************************************)
(* node/master/Task.java: one submitted task, whose rows are cut into      *)
(* blocks that the master hands to its followers one at a time.  A task is *)
(* a record value and its two synchronized methods are operators from the  *)
(* record before the call to the record after it, so that the modules      *)
(* which own many tasks (MasterHeartBeat) apply the same definitions.      *)
(*                                                                         *)
(* Row numbers, file names and block names are abstracted: a block is its  *)
(* number, and what the ledger tells apart is how many rows it has.        *)
(***************************************************************************)
EXTENDS Integers, Sequences, FiniteSets

CONSTANTS
  Machine,      \* the machine ids the heartbeats carry
  TotalRow,     \* rows of the parsed task file
  RowPerBlock   \* rows of every block but the last

ASSUME RowAssumption ==
  /\ TotalRow \in Nat \ {0}      \* Task.java:139 refuses an empty file
  /\ RowPerBlock \in Nat \ {0}

\* "waiting" and "credited" are places of the abstract ledger, not machines.
ASSUME MachineAssumption == "waiting" \notin Machine /\ "credited" \notin Machine

-----------------------------------------------------------------------------
(* The blocks, numbered from 1 as their ids are.                           *)

BlockCount == (TotalRow + RowPerBlock - 1) \div RowPerBlock
Block == 1 .. BlockCount
NoBlock == 0                     \* null in _distributeLog, or no entry

Size(b) == IF b = BlockCount THEN TotalRow - (BlockCount - 1) * RowPerBlock
                             ELSE RowPerBlock

\* The rows of a set of blocks: full blocks, and the last one when it is there.
RowsOf(S) == RowPerBlock * Cardinality(S \ {BlockCount})
             + IF BlockCount \in S THEN Size(BlockCount) ELSE 0

-----------------------------------------------------------------------------
(* The task and its methods.  "credited" is a history field: the blocks    *)
(* whose rows finishedRows has counted, which the code does not keep.      *)
(* A Bad... definition is a faulty variant of the one that follows it, and *)
(* is used by nothing: it is what a property would be broken by.           *)

BadQueueFromZero == [b \in Block |-> b - 1]
FullQueue == [b \in Block |-> b]

NewTask ==
  [ taskQueue       |-> FullQueue,
    distributeLog   |-> [m \in Machine |-> NoBlock],
    distributedRows |-> 0,
    finishedRows    |-> 0,
    over            |-> FALSE,
    credited        |-> {} ]

RowsOrZero(b) == IF b = NoBlock THEN 0 ELSE Size(b)

\* taskQueue.poll(): the block it returns and what it leaves.
NextBlock(tk) == IF tk.taskQueue = <<>> THEN NoBlock ELSE Head(tk.taskQueue)

BadRestPeeked(tk) == tk.taskQueue
RestQueue(tk) == IF tk.taskQueue = <<>> THEN <<>> ELSE Tail(tk.taskQueue)

\* The machine's log entry afterwards; putting null is putting.
LogAfter(tk, m) == [tk.distributeLog EXCEPT ![m] = NextBlock(tk)]

\* What the machine had is counted, and the count is compared with the total.
BadEndsWhenDistributed(tk, m) == tk.distributedRows + RowsOrZero(NextBlock(tk)) = TotalRow
BadEndsBeforeCounting(tk, m) == tk.distributeLog[m] # NoBlock /\ tk.finishedRows = TotalRow
EndsTask(tk, m) ==
  tk.distributeLog[m] # NoBlock /\ tk.finishedRows + Size(tk.distributeLog[m]) = TotalRow

\* A machine that is nearly out of work: count what it held and hand it the
\* head of the queue, or null.
CheckAndPoll(tk, m) ==
  [ taskQueue       |-> RestQueue(tk),
    distributeLog   |-> LogAfter(tk, m),
    distributedRows |-> tk.distributedRows + RowsOrZero(NextBlock(tk)),
    finishedRows    |-> tk.finishedRows + RowsOrZero(tk.distributeLog[m]),
    over            |-> tk.over \/ EndsTask(tk, m),
    credited        |-> tk.credited \cup ({tk.distributeLog[m]} \ {NoBlock}) ]

\* The master found the machine dead: its block goes to the tail of the queue.
\* A missing subtraction was the bug that the comment at Task.java:227 records.
BadGiveBackKeepsRows(tk, m, b) ==
  [tk EXCEPT !.taskQueue = Append(@, b), !.distributeLog = [@ EXCEPT ![m] = NoBlock]]
BadGiveBackKeepsLog(tk, m, b) ==
  [tk EXCEPT !.taskQueue = Append(@, b), !.distributedRows = @ - Size(b)]
GiveBack(tk, m, b) ==
  [tk EXCEPT !.taskQueue       = Append(@, b),
             !.distributedRows = @ - Size(b),
             !.distributeLog   = [@ EXCEPT ![m] = NoBlock]]

ReturnCrawlTask(tk, m) ==
  IF tk.distributeLog[m] = NoBlock THEN tk ELSE GiveBack(tk, m, tk.distributeLog[m])

-----------------------------------------------------------------------------
(* What a task promises, stated of a record so that the same formulas hold *)
(* of each task of a master.                                               *)

Waiting(tk) == {tk.taskQueue[i] : i \in 1 .. Len(tk.taskQueue)}
Held(tk)    == {tk.distributeLog[m] : m \in Machine} \ {NoBlock}

TaskType ==
  [ taskQueue       : Seq(Block),
    distributeLog   : [Machine -> Block \cup {NoBlock}],
    distributedRows : Int,
    finishedRows    : Int,
    over            : BOOLEAN,
    credited        : SUBSET Block ]

\* Every block is in exactly one place: in the queue once, in the log of one
\* machine, or counted as finished.
Partitioned(tk) ==
  /\ \A i, j \in 1 .. Len(tk.taskQueue) : tk.taskQueue[i] = tk.taskQueue[j] => i = j
  /\ \A m, n \in Machine :
        tk.distributeLog[m] = tk.distributeLog[n] /\ tk.distributeLog[m] # NoBlock => m = n
  /\ Waiting(tk) \cap Held(tk) = {}
  /\ (Waiting(tk) \cup Held(tk)) \cap tk.credited = {}
  /\ Waiting(tk) \cup Held(tk) \cup tk.credited = Block

\* The counters say what the sets say.
Accounted(tk) ==
  /\ tk.finishedRows = RowsOf(tk.credited)
  /\ tk.distributedRows = RowsOf(tk.credited \cup Held(tk))

Finished(tk) == tk.over <=> tk.credited = Block

\* The inductive invariant of the class.
Consistent(tk) == tk \in TaskType /\ Partitioned(tk) /\ Accounted(tk) /\ Finished(tk)

\* Where a block is.
PlaceOf(tk) ==
  [b \in Block |->
     IF b \in tk.credited THEN "credited"
     ELSE IF b \in Held(tk) THEN CHOOSE m \in Machine : tk.distributeLog[m] = b
     ELSE "waiting"]
=============================================================================
