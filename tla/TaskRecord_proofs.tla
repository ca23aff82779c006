-------------------------- MODULE TaskRecord_proofs --------------------------
(***************************************************************************)
(* Lemmas about TaskRecord for every number of rows, every block size and  *)
(* every set of machines.                                                  *)
(***************************************************************************)
EXTENDS TaskRecord, FiniteSetTheorems, WellFoundedInduction, TLAPS

-----------------------------------------------------------------------------
(* The least element of a set of naturals, which is what the arguments by  *)
(* induction over numbers come down to.                                    *)

LEMMA SmallestExists ==
  ASSUME NEW S \in SUBSET Nat, S # {}
  PROVE  \E i \in S : \A j \in S : i <= j
<1>1. PICK i \in S : \A j \in S : ~(<<j, i>> \in OpToRel(<, Nat))
  BY NatLessThanWellFounded, WFMin
<1>2. ASSUME NEW j \in S PROVE i <= j
  <2>1. ~(<<j, i>> \in OpToRel(<, Nat))
    BY <1>1
  <2>2. j \in Nat /\ i \in Nat
    OBVIOUS
  <2>3. ~(j < i)
    BY <2>1, <2>2 DEF OpToRel
  <2> QED
    BY <2>2, <2>3
<1> QED
  BY <1>2

\* Induction over the numbers up to n, with a set for the predicate.
LEMMA UpTo ==
  ASSUME NEW n \in Nat, NEW S, 0 \in S, \A i \in 0 .. n - 1 : i \in S => i + 1 \in S
  PROVE  0 .. n \subseteq S
<1> DEFINE T == (0 .. n) \ S
<1>1. SUFFICES ASSUME T # {} PROVE FALSE
  OBVIOUS
<1>2. T \in SUBSET Nat
  OBVIOUS
<1>3. PICK i \in T : \A j \in T : i <= j
  BY <1>1, <1>2, SmallestExists
<1>4. i \in 0 .. n /\ i \notin S /\ i # 0
  OBVIOUS
<1>5. i - 1 \in 0 .. n - 1 /\ i - 1 \in 0 .. n /\ (i - 1) + 1 = i
  BY <1>4
<1>6. i - 1 \notin T
  BY <1>3, <1>4
<1>7. i - 1 \in S
  BY <1>5, <1>6
<1> QED
  BY <1>4, <1>5, <1>7

-----------------------------------------------------------------------------
(* Rows and blocks.                                                        *)

\* The last block starts at or before the last row, and ends at it or after:
\* the ceiling that Task.java:153 computes.
LEMMA BlockCountCovers ==
  /\ BlockCount \in Nat \ {0}
  /\ (BlockCount - 1) * RowPerBlock < TotalRow
  /\ TotalRow <= (BlockCount - 1) * RowPerBlock + RowPerBlock
<1> DEFINE R == RowPerBlock
           X == TotalRow + R - 1
           Q == X \div R
<1>1. R \in Nat /\ R > 0 /\ TotalRow \in Nat /\ TotalRow > 0
  BY RowAssumption
<1>2. X \in Nat
  BY <1>1
<1>3. Q \in Int /\ X % R \in 0 .. R - 1 /\ X = (R * Q) + (X % R)
  BY <1>1, <1>2
<1>4. BlockCount = Q
  BY DEF BlockCount
<1> QED
  BY <1>1, <1>3, <1>4

\* Every block has at least one row, the last one included.
LEMMA SizePositive ==
  ASSUME NEW b \in Block
  PROVE  Size(b) \in Nat \ {0}
BY BlockCountCovers, RowAssumption DEF Size, Block

\* Block is finite, and so is every set of blocks.
LEMMA BlocksFinite ==
  /\ IsFiniteSet(Block) /\ Cardinality(Block) = BlockCount
  /\ \A S \in SUBSET Block : IsFiniteSet(S) /\ Cardinality(S) \in Nat
<1>1. IsFiniteSet(Block) /\ Cardinality(Block) = BlockCount
  BY BlockCountCovers, FS_Interval DEF Block
<1>2. \A S \in SUBSET Block : IsFiniteSet(S)
  BY <1>1, FS_Subset
<1> QED
  BY <1>1, <1>2, FS_CardinalityType

LEMMA RowsOfType ==
  ASSUME NEW S \in SUBSET Block
  PROVE  RowsOf(S) \in Nat
<1>1. Cardinality(S \ {BlockCount}) \in Nat
  BY BlocksFinite
<1>2. BlockCount \in Block
  BY BlockCountCovers DEF Block
<1>3. RowPerBlock * Cardinality(S \ {BlockCount}) \in Nat
  BY <1>1, RowAssumption
<1> QED
  BY <1>2, <1>3, SizePositive DEF RowsOf

\* Counting one more block adds its rows: finishedRows += oldtask.getSize()
\* keeps finishedRows the row sum of the counted blocks.
LEMMA RowsOfAdd ==
  ASSUME NEW S \in SUBSET Block, NEW b \in Block, b \notin S
  PROVE  RowsOf(S \cup {b}) = RowsOf(S) + Size(b)
<1> DEFINE last == BlockCount
           T == S \ {last}
<1>1. IsFiniteSet(T) /\ Cardinality(T) \in Nat
  BY BlocksFinite
<1>2. Size(b) \in Nat /\ last \in Block /\ Size(last) \in Nat
  BY SizePositive, BlockCountCovers DEF Block
<1>3. CASE b = last
  <2>1. (S \cup {b}) \ {last} = T /\ last \notin S
    BY <1>3
  <2> HIDE DEF T
  <2>2. RowPerBlock * Cardinality(T) \in Int
    BY <1>1, RowAssumption
  <2>3. RowsOf(S \cup {b}) = RowPerBlock * Cardinality(T) + Size(last)
    BY <1>3, <2>1 DEF RowsOf
  <2>4. RowsOf(S) = RowPerBlock * Cardinality(T) + 0
    BY <2>1 DEF RowsOf, T
  <2> QED
    BY <1>2, <1>3, <2>2, <2>3, <2>4
<1>4. CASE b # last
  <2>1. (S \cup {b}) \ {last} = T \cup {b}
    BY <1>4
  <2>2. Cardinality(T \cup {b}) = Cardinality(T) + 1
    BY <1>1, FS_AddElement
  <2>3. Size(b) = RowPerBlock
    BY <1>4 DEF Size
  <2>4. RowPerBlock * (Cardinality(T) + 1) = RowPerBlock * Cardinality(T) + RowPerBlock
    BY <1>1, RowAssumption
  <2> HIDE DEF T
  <2>5. RowPerBlock * Cardinality(T) \in Int
    BY <1>1, RowAssumption
  <2>6. RowsOf(S \cup {b}) = RowPerBlock * (Cardinality(T) + 1) + IF last \in S THEN Size(last) ELSE 0
    BY <1>4, <2>1, <2>2 DEF RowsOf
  <2>7. RowsOf(S) = RowPerBlock * Cardinality(T) + IF last \in S THEN Size(last) ELSE 0
    BY DEF RowsOf, T
  <2> QED
    BY <1>2, <2>3, <2>4, <2>5, <2>6, <2>7, RowAssumption
<1> QED
  BY <1>3, <1>4

\* No rows, and all rows.
LEMMA RowsOfEnds == RowsOf({}) = 0 /\ RowsOf(Block) = TotalRow
<1>1. Cardinality({} \ {BlockCount}) = 0
  BY FS_EmptySet
<1>3. BlockCount \in Block
  BY BlockCountCovers DEF Block
<1>2. Cardinality(Block \ {BlockCount}) = BlockCount - 1
  BY <1>3, BlocksFinite, FS_RemoveElement
<1>4. RowPerBlock * 0 = 0
  BY RowAssumption
<1>5. RowPerBlock * (BlockCount - 1) = (BlockCount - 1) * RowPerBlock
      /\ (BlockCount - 1) * RowPerBlock \in Int
  BY BlockCountCovers, RowAssumption
<1>6. RowsOf({}) = 0
  BY <1>1, <1>4 DEF RowsOf
<1>7. RowsOf(Block) = (BlockCount - 1) * RowPerBlock + (TotalRow - (BlockCount - 1) * RowPerBlock)
  BY <1>2, <1>3, <1>5 DEF RowsOf, Size
<1> QED
  BY <1>5, <1>6, <1>7, RowAssumption

\* A larger set of blocks has at least as many rows, and strictly more when
\* a block is missing: the rows of some blocks never equal totalRow.
LEMMA RowsOfMonotone ==
  ASSUME NEW S \in SUBSET Block, NEW T \in SUBSET S
  PROVE  /\ RowsOf(T) <= RowsOf(S)
         /\ T # S => RowsOf(T) < RowsOf(S)
<1> DEFINE last == BlockCount
           A == T \ {last}
           B == S \ {last}
<1>1. IsFiniteSet(B) /\ Cardinality(A) \in Nat /\ Cardinality(B) \in Nat
  BY BlocksFinite
<1>2. Cardinality(A) <= Cardinality(B) /\ (Cardinality(A) = Cardinality(B) => A = B)
  BY <1>1, FS_Subset
<1>3. Size(last) \in Nat \ {0}
  BY SizePositive, BlockCountCovers DEF Block
<1> DEFINE a == Cardinality(A)
           c == Cardinality(B)
           x == IF last \in T THEN Size(last) ELSE 0
           y == IF last \in S THEN Size(last) ELSE 0
<1>4. RowsOf(T) = RowPerBlock * a + x /\ RowsOf(S) = RowPerBlock * c + y
  BY DEF RowsOf
<1>5. x \in Nat /\ y \in Nat /\ x <= y /\ (last \in S /\ last \notin T => x < y)
  BY <1>3
<1>6. T # S => A # B \/ (last \in S /\ last \notin T)
  OBVIOUS
<1>7. a \in Nat /\ c \in Nat /\ a <= c /\ (A # B => a < c)
  BY <1>1, <1>2
<1> HIDE DEF a, c, x, y
<1>8. /\ RowPerBlock * a \in Nat /\ RowPerBlock * c \in Nat
      /\ RowPerBlock * a <= RowPerBlock * c
      /\ a < c => RowPerBlock * a < RowPerBlock * c
  BY <1>7, RowAssumption
<1> QED
  BY <1>4, <1>5, <1>6, <1>7, <1>8

-----------------------------------------------------------------------------
(* checkAndPoll and returnCrawlTask on a consistent task.                  *)

\* The first block of the queue is a waiting block, and the rest of the queue
\* is a duplicate-free sequence of the other waiting blocks.
LEMMA QueueHead ==
  ASSUME NEW tk \in TaskType, Partitioned(tk), tk.taskQueue # <<>>
  PROVE  /\ Head(tk.taskQueue) \in Block
         /\ Head(tk.taskQueue) \in Waiting(tk)
         /\ Tail(tk.taskQueue) \in Seq(Block)
         /\ {Tail(tk.taskQueue)[i] : i \in 1 .. Len(Tail(tk.taskQueue))}
              = Waiting(tk) \ {Head(tk.taskQueue)}
         /\ \A i, j \in 1 .. Len(Tail(tk.taskQueue)) :
              Tail(tk.taskQueue)[i] = Tail(tk.taskQueue)[j] => i = j
<1> DEFINE q == tk.taskQueue
           t == Tail(q)
<1>1. q \in Seq(Block) /\ Len(q) \in Nat /\ Len(q) > 0
  BY DEF TaskType
<1>2. Head(q) = q[1] /\ 1 \in 1 .. Len(q) /\ q[1] \in Block
  BY <1>1
<1>3. t \in Seq(Block) /\ Len(t) = Len(q) - 1 /\ \A i \in 1 .. Len(t) : t[i] = q[i + 1]
  BY <1>1
<1>4. \A i, j \in 1 .. Len(q) : q[i] = q[j] => i = j
  BY DEF Partitioned
<1> HIDE DEF q, t
<1>5. \A i \in 1 .. Len(t) : i + 1 \in 1 .. Len(q) /\ i + 1 # 1
  BY <1>1, <1>3
<1>6. \A i \in 1 .. Len(q) : i # 1 => i - 1 \in 1 .. Len(t) /\ t[i - 1] = q[i]
  BY <1>1, <1>3
<1>7. {t[i] : i \in 1 .. Len(t)} = {q[i] : i \in 1 .. Len(q)} \ {q[1]}
  <2>1. ASSUME NEW i \in 1 .. Len(t)
        PROVE  t[i] \in {q[k] : k \in 1 .. Len(q)} \ {q[1]}
    BY <1>2, <1>3, <1>4, <1>5
  <2>2. ASSUME NEW i \in 1 .. Len(q), q[i] # q[1]
        PROVE  q[i] \in {t[k] : k \in 1 .. Len(t)}
    BY <1>6, <2>2
  <2> QED
    BY <2>1, <2>2
<1>8. \A i, j \in 1 .. Len(t) : t[i] = t[j] => i = j
  <2> SUFFICES ASSUME NEW i \in 1 .. Len(t), NEW j \in 1 .. Len(t), t[i] = t[j]
               PROVE  i = j
    OBVIOUS
  <2>1. i + 1 = j + 1
    BY <1>3, <1>4, <1>5
  <2> QED
    BY <2>1, <1>1, <1>3
<1> QED
  BY <1>2, <1>3, <1>7, <1>8 DEF Waiting, q, t

\* The state after checkAndPoll, in terms of the sets.
LEMMA PollEffect ==
  ASSUME NEW tk \in TaskType, Partitioned(tk), NEW m \in Machine
  PROVE  LET tkn == CheckAndPoll(tk, m)
             old == tk.distributeLog[m]
             new == tkn.distributeLog[m]
         IN /\ tkn \in TaskType
            /\ old \in Block \cup {NoBlock} /\ new \in Block \cup {NoBlock}
            /\ new # NoBlock => new \in Waiting(tk)
            /\ new = NoBlock <=> tk.taskQueue = <<>>
            /\ \A n \in Machine : n # m => tkn.distributeLog[n] = tk.distributeLog[n]
            /\ Waiting(tkn) = Waiting(tk) \ {new}
            /\ Held(tkn) = (Held(tk) \ {old}) \cup ({new} \ {NoBlock})
            /\ tkn.credited = tk.credited \cup ({old} \ {NoBlock})
            /\ \A i, j \in 1 .. Len(tkn.taskQueue) :
                  tkn.taskQueue[i] = tkn.taskQueue[j] => i = j
<1> DEFINE tkn == CheckAndPoll(tk, m)
           old == tk.distributeLog[m]
           new == IF tk.taskQueue = <<>> THEN NoBlock ELSE Head(tk.taskQueue)
<1>1. old \in Block \cup {NoBlock}
  BY DEF TaskType
<1>2. /\ new \in Block \cup {NoBlock}
      /\ new # NoBlock => new \in Waiting(tk)
      /\ new = NoBlock <=> tk.taskQueue = <<>>
  <2>1. NoBlock \notin Block
    BY BlockCountCovers DEF Block, NoBlock
  <2> QED
    BY <2>1, QueueHead
<1>3. /\ tkn.distributeLog = [tk.distributeLog EXCEPT ![m] = new]
      /\ tkn.credited = tk.credited \cup ({old} \ {NoBlock})
      /\ tkn.taskQueue = IF tk.taskQueue = <<>> THEN <<>> ELSE Tail(tk.taskQueue)
      /\ tkn.distributedRows = tk.distributedRows + RowsOrZero(new)
      /\ tkn.finishedRows = tk.finishedRows + RowsOrZero(old)
      /\ tkn.over = (tk.over \/ EndsTask(tk, m))
  BY DEF CheckAndPoll, NextBlock, RestQueue, LogAfter
<1>4. tkn.distributeLog[m] = new /\ \A n \in Machine : n # m => tkn.distributeLog[n] = tk.distributeLog[n]
  BY <1>3 DEF TaskType
<1>5. \A b \in Block \cup {NoBlock} : RowsOrZero(b) \in Nat
  BY SizePositive DEF RowsOrZero
<1>6. tkn.taskQueue \in Seq(Block)
  BY <1>3, QueueHead
<1>7. tkn \in TaskType
  <2>1. tkn.distributedRows \in Int /\ tkn.finishedRows \in Int
    BY <1>1, <1>2, <1>3, <1>5 DEF TaskType
  <2>2. tkn.distributeLog \in [Machine -> Block \cup {NoBlock}]
    BY <1>2, <1>3 DEF TaskType
  <2>3. tkn.credited \in SUBSET Block /\ tkn.over \in BOOLEAN
    BY <1>1, <1>3 DEF TaskType
  <2>4. tkn = [ taskQueue |-> tkn.taskQueue, distributeLog |-> tkn.distributeLog,
                distributedRows |-> tkn.distributedRows, finishedRows |-> tkn.finishedRows,
                over |-> tkn.over, credited |-> tkn.credited ]
    BY DEF CheckAndPoll, NextBlock, RestQueue, LogAfter, EndsTask
  <2> HIDE DEF tkn
  <2> QED
    BY <1>6, <2>1, <2>2, <2>3, <2>4 DEF TaskType
<1>8. Waiting(tkn) = Waiting(tk) \ {new}
  <2>1. CASE tk.taskQueue = <<>>
    BY <2>1, <1>3 DEF Waiting
  <2>2. CASE tk.taskQueue # <<>>
    <3>1. tkn.taskQueue = Tail(tk.taskQueue) /\ new = Head(tk.taskQueue)
      BY <2>2, <1>3
    <3> HIDE DEF tkn, new
    <3>2. Waiting(tkn) = {Tail(tk.taskQueue)[i] : i \in 1 .. Len(Tail(tk.taskQueue))}
      BY <3>1 DEF Waiting
    <3> QED
      BY <2>2, <3>1, <3>2, QueueHead
  <2> QED
    BY <2>1, <2>2
<1>9. \A i, j \in 1 .. Len(tkn.taskQueue) : tkn.taskQueue[i] = tkn.taskQueue[j] => i = j
  <2>1. CASE tk.taskQueue = <<>>
    BY <2>1, <1>3
  <2>2. CASE tk.taskQueue # <<>>
    BY <2>2, <1>3, QueueHead
  <2> QED
    BY <2>1, <2>2
<1> HIDE DEF tkn, new
<1>10. Held(tkn) = (Held(tk) \ {old}) \cup ({new} \ {NoBlock})
  <2>1. ASSUME NEW n \in Machine, n # m, tk.distributeLog[n] # NoBlock
        PROVE  tk.distributeLog[n] # old
    BY <2>1 DEF Partitioned
  <2> QED
    BY <1>4, <2>1 DEF Held
<1> QED
  BY <1>1, <1>2, <1>4, <1>7, <1>8, <1>9, <1>10, <1>3 DEF tkn

\* The state after returnCrawlTask, in terms of the sets.
LEMMA ReturnEffect ==
  ASSUME NEW tk \in TaskType, Partitioned(tk), NEW m \in Machine,
         tk.distributeLog[m] # NoBlock
  PROVE  LET tkn == ReturnCrawlTask(tk, m)
             held == tk.distributeLog[m]
         IN /\ tkn \in TaskType
            /\ held \in Block /\ held \in Held(tk) /\ held \notin Waiting(tk)
            /\ tkn.distributeLog[m] = NoBlock
            /\ \A n \in Machine : n # m => tkn.distributeLog[n] = tk.distributeLog[n]
            /\ Waiting(tkn) = Waiting(tk) \cup {held}
            /\ Held(tkn) = Held(tk) \ {held}
            /\ tkn.credited = tk.credited
            /\ tkn.finishedRows = tk.finishedRows
            /\ tkn.distributedRows = tk.distributedRows - Size(held)
            /\ tkn.over = tk.over
            /\ \A i, j \in 1 .. Len(tkn.taskQueue) :
                  tkn.taskQueue[i] = tkn.taskQueue[j] => i = j
<1> DEFINE tkn == ReturnCrawlTask(tk, m)
           held == tk.distributeLog[m]
           q == tk.taskQueue
           qn == Append(q, held)
<1>1. held \in Block /\ held \in Held(tk)
  BY DEF TaskType, Held
<1>2. held \notin Waiting(tk)
  BY <1>1 DEF Partitioned
<1>3. /\ tkn.distributeLog = [tk.distributeLog EXCEPT ![m] = NoBlock]
      /\ tkn.credited = tk.credited
      /\ tkn.taskQueue = qn
      /\ tkn.finishedRows = tk.finishedRows
      /\ tkn.distributedRows = tk.distributedRows - Size(held)
      /\ tkn.over = tk.over
  BY DEF ReturnCrawlTask, GiveBack, TaskType
<1>4. /\ tkn.distributeLog[m] = NoBlock
      /\ \A n \in Machine : n # m => tkn.distributeLog[n] = tk.distributeLog[n]
  BY <1>3 DEF TaskType
<1>5. /\ q \in Seq(Block) /\ Len(q) \in Nat /\ qn \in Seq(Block) /\ Len(qn) = Len(q) + 1
      /\ \A i \in 1 .. Len(q) : qn[i] = q[i]
      /\ qn[Len(q) + 1] = held
  BY <1>1 DEF TaskType
<1>6. tkn \in TaskType
  <2>1. tkn.distributedRows \in Int
    BY <1>1, <1>3, SizePositive DEF TaskType
  <2> QED
    BY <1>1, <1>5, <2>1 DEF ReturnCrawlTask, GiveBack, TaskType
<1>7. Waiting(tkn) = Waiting(tk) \cup {held}
  <2> HIDE DEF q, qn, held
  <2>1. {qn[i] : i \in 1 .. Len(qn)} = {q[i] : i \in 1 .. Len(q)} \cup {held}
    <3>1. \A i \in 1 .. Len(qn) : i \in 1 .. Len(q) \/ i = Len(q) + 1
      BY <1>5
    <3>2. \A i \in 1 .. Len(q) : i \in 1 .. Len(qn)
      BY <1>5
    <3>3. Len(q) + 1 \in 1 .. Len(qn)
      BY <1>5
    <3> QED
      BY <1>5, <3>1, <3>2, <3>3
  <2> QED
    BY <2>1, <1>3 DEF Waiting, q
<1>8. Held(tkn) = Held(tk) \ {held}
  <2>1. ASSUME NEW n \in Machine, n # m
        PROVE  tk.distributeLog[n] # held
    BY <2>1 DEF Partitioned
  <2> QED
    BY <1>4, <2>1 DEF Held
<1>9. \A i, j \in 1 .. Len(tkn.taskQueue) : tkn.taskQueue[i] = tkn.taskQueue[j] => i = j
  <2>1. \A i, j \in 1 .. Len(q) : q[i] = q[j] => i = j
    BY DEF Partitioned
  <2>2. \A i \in 1 .. Len(q) : q[i] # held
    BY <1>2 DEF Waiting
  <2> HIDE DEF q, qn, held, tkn
  <2> QED
    BY <1>3, <1>5, <2>1, <2>2
<1> QED
  BY <1>1, <1>2, <1>3, <1>4, <1>6, <1>7, <1>8, <1>9

-----------------------------------------------------------------------------
(* Consistency is kept.                                                    *)

LEMMA NewTaskConsistent == Consistent(NewTask)
<1>1. BlockCount \in Nat \ {0} /\ NoBlock \notin Block /\ 1 \in Block
  BY BlockCountCovers DEF Block, NoBlock
<1>2. /\ NewTask.taskQueue \in Seq(Block) /\ Len(NewTask.taskQueue) = BlockCount
      /\ \A i \in Block : NewTask.taskQueue[i] = i
  BY <1>1 DEF NewTask, FullQueue, Block
<1>3. Held(NewTask) = {}
  BY DEF Held, NewTask, FullQueue
<1>4. Waiting(NewTask) = Block
  BY <1>2 DEF Waiting, Block
<1>5. NewTask \in TaskType
  BY <1>2 DEF NewTask, FullQueue, TaskType
<1>6. Partitioned(NewTask)
  BY <1>2, <1>3, <1>4 DEF Partitioned, Block, NewTask, FullQueue
<1>7. Accounted(NewTask)
  BY <1>3, RowsOfEnds DEF Accounted, NewTask, FullQueue
<1>8. Finished(NewTask)
  BY <1>1 DEF Finished, NewTask, FullQueue
<1> QED
  BY <1>5, <1>6, <1>7, <1>8 DEF Consistent

LEMMA PollConsistent ==
  ASSUME NEW tk, Consistent(tk), NEW m \in Machine
  PROVE  Consistent(CheckAndPoll(tk, m))
<1> DEFINE tkn == CheckAndPoll(tk, m)
           old == tk.distributeLog[m]
           new == tkn.distributeLog[m]
<1>0. tk \in TaskType /\ Partitioned(tk) /\ Accounted(tk) /\ Finished(tk)
  BY DEF Consistent
<1>1. /\ tkn \in TaskType
      /\ old \in Block \cup {NoBlock} /\ new \in Block \cup {NoBlock}
      /\ new # NoBlock => new \in Waiting(tk)
      /\ new = NoBlock <=> tk.taskQueue = <<>>
      /\ \A n \in Machine : n # m => tkn.distributeLog[n] = tk.distributeLog[n]
      /\ Waiting(tkn) = Waiting(tk) \ {new}
      /\ Held(tkn) = (Held(tk) \ {old}) \cup ({new} \ {NoBlock})
      /\ tkn.credited = tk.credited \cup ({old} \ {NoBlock})
      /\ \A i, j \in 1 .. Len(tkn.taskQueue) :
            tkn.taskQueue[i] = tkn.taskQueue[j] => i = j
  BY <1>0, PollEffect
<1>2. /\ tkn.distributedRows = tk.distributedRows + RowsOrZero(new)
      /\ tkn.finishedRows = tk.finishedRows + RowsOrZero(old)
      /\ tkn.over = (tk.over \/ (old # NoBlock /\ tkn.finishedRows = TotalRow))
  <2>1. /\ tkn.distributedRows = tk.distributedRows + RowsOrZero(NextBlock(tk))
        /\ tkn.finishedRows = tk.finishedRows + RowsOrZero(old)
        /\ tkn.over = (tk.over \/ EndsTask(tk, m))
        /\ tkn.distributeLog = [tk.distributeLog EXCEPT ![m] = NextBlock(tk)]
    BY DEF CheckAndPoll, LogAfter
  <2>2. new = NextBlock(tk)
    BY <1>0, <2>1 DEF TaskType
  <2>3. EndsTask(tk, m) <=> old # NoBlock /\ tkn.finishedRows = TotalRow
    BY <2>1 DEF EndsTask, RowsOrZero
  <2> QED
    BY <2>1, <2>2, <2>3
<1>3. NoBlock \notin Held(tk) /\ (old # NoBlock => old \in Held(tk))
  BY DEF Held
<1>4. NoBlock \notin Block /\ tk.credited \in SUBSET Block
  BY <1>0, BlockCountCovers DEF Block, NoBlock, TaskType
<1> HIDE DEF tkn, old, new
<1>5. Partitioned(tkn)
  <2>1. ASSUME NEW n \in Machine, NEW k \in Machine,
               tkn.distributeLog[n] = tkn.distributeLog[k], tkn.distributeLog[n] # NoBlock
        PROVE  n = k
    <3>1. \A x \in Machine : x # m /\ tk.distributeLog[x] # NoBlock => tk.distributeLog[x] \in Held(tk)
      BY DEF Held
    <3> QED
      BY <2>1, <3>1, <1>0, <1>1 DEF Partitioned, new
  <2>2. Waiting(tkn) \cap Held(tkn) = {}
    BY <1>0, <1>1 DEF Partitioned
  <2>3. (Waiting(tkn) \cup Held(tkn)) \cap tkn.credited = {}
    BY <1>0, <1>1, <1>3 DEF Partitioned
  <2>4. Waiting(tkn) \cup Held(tkn) \cup tkn.credited = Block
    BY <1>0, <1>1, <1>3, <1>4 DEF Partitioned
  <2> QED
    BY <1>1, <2>1, <2>2, <2>3, <2>4 DEF Partitioned
<1>6. Accounted(tkn)
  <2>1. tkn.finishedRows = RowsOf(tkn.credited)
    <3>1. CASE old = NoBlock
      BY <3>1, <1>0, <1>1, <1>2, RowsOfType, <1>4 DEF Accounted, RowsOrZero
    <3>2. CASE old # NoBlock
      <4>1. old \in Block /\ old \notin tk.credited
        BY <3>2, <1>0, <1>1, <1>3 DEF Partitioned
      <4>2. tkn.credited = tk.credited \cup {old}
        BY <3>2, <1>1
      <4> QED
        BY <3>2, <4>1, <4>2, <1>0, <1>2, <1>4, RowsOfAdd DEF Accounted, RowsOrZero
    <3> QED
      BY <3>1, <3>2
  <2>2. tkn.distributedRows = RowsOf(tkn.credited \cup Held(tkn))
    <3> DEFINE S == tk.credited \cup Held(tk)
    <3>1. S \in SUBSET Block
      BY <1>0, <1>4 DEF Partitioned
    <3>2. tkn.credited \cup Held(tkn) = S \cup ({new} \ {NoBlock})
      BY <1>1, <1>3
    <3>3. tk.distributedRows = RowsOf(S)
      BY <1>0 DEF Accounted
    <3> HIDE DEF S
    <3>4. CASE new = NoBlock
      BY <3>1, <3>2, <3>3, <3>4, <1>2, RowsOfType DEF RowsOrZero
    <3>5. CASE new # NoBlock
      <4>1. new \in Block /\ new \notin S
        BY <3>5, <1>0, <1>1 DEF Partitioned, S
      <4>2. tkn.credited \cup Held(tkn) = S \cup {new}
        BY <3>2, <3>5
      <4> QED
        BY <3>1, <3>3, <3>5, <4>1, <4>2, <1>2, RowsOfAdd DEF RowsOrZero
    <3> QED
      BY <3>4, <3>5
  <2> QED
    BY <2>1, <2>2 DEF Accounted
<1>7. Finished(tkn)
  <2>1. CASE tk.over
    <3>1. tk.credited = Block /\ old = NoBlock
      BY <2>1, <1>0, <1>3, <1>4 DEF Finished, Partitioned
    <3> QED
      BY <2>1, <3>1, <1>1, <1>2 DEF Finished
  <2>2. CASE ~tk.over
    <3>1. tk.credited # Block
      BY <2>2, <1>0 DEF Finished
    <3>2. CASE old = NoBlock
      BY <3>1, <3>2, <2>2, <1>1, <1>2 DEF Finished
    <3>3. CASE old # NoBlock
      <4>1. tkn.credited \in SUBSET Block
        BY <1>1, <1>4
      <4>2. RowsOf(tkn.credited) = TotalRow <=> tkn.credited = Block
        BY <4>1, RowsOfMonotone, RowsOfEnds, RowsOfType, RowAssumption
      <4> QED
        BY <3>3, <4>2, <2>2, <1>2, <1>6 DEF Finished, Accounted
    <3> QED
      BY <3>2, <3>3
  <2> QED
    BY <2>1, <2>2
<1> QED
  BY <1>1, <1>5, <1>6, <1>7 DEF Consistent, tkn

LEMMA ReturnConsistent ==
  ASSUME NEW tk, Consistent(tk), NEW m \in Machine
  PROVE  Consistent(ReturnCrawlTask(tk, m))
<1> DEFINE tkn == ReturnCrawlTask(tk, m)
           held == tk.distributeLog[m]
<1>0. tk \in TaskType /\ Partitioned(tk) /\ Accounted(tk) /\ Finished(tk)
  BY DEF Consistent
<1>1. CASE held = NoBlock
  BY <1>1 DEF ReturnCrawlTask, GiveBack
<1>2. CASE held # NoBlock
  <2>1. /\ tkn \in TaskType
        /\ held \in Block /\ held \in Held(tk) /\ held \notin Waiting(tk)
        /\ tkn.distributeLog[m] = NoBlock
        /\ \A n \in Machine : n # m => tkn.distributeLog[n] = tk.distributeLog[n]
        /\ Waiting(tkn) = Waiting(tk) \cup {held}
        /\ Held(tkn) = Held(tk) \ {held}
        /\ tkn.credited = tk.credited
        /\ tkn.finishedRows = tk.finishedRows
        /\ tkn.distributedRows = tk.distributedRows - Size(held)
        /\ tkn.over = tk.over
        /\ \A i, j \in 1 .. Len(tkn.taskQueue) :
              tkn.taskQueue[i] = tkn.taskQueue[j] => i = j
    BY <1>0, <1>2, ReturnEffect
  <2> HIDE DEF tkn, held
  <2>2. Partitioned(tkn)
    <3>1. \A x, y \in Machine :
            tkn.distributeLog[x] = tkn.distributeLog[y] /\ tkn.distributeLog[x] # NoBlock => x = y
      BY <1>0, <2>1 DEF Partitioned
    <3>2. /\ Waiting(tkn) \cap Held(tkn) = {}
          /\ (Waiting(tkn) \cup Held(tkn)) \cap tkn.credited = {}
          /\ Waiting(tkn) \cup Held(tkn) \cup tkn.credited = Block
      BY <1>0, <2>1 DEF Partitioned
    <3> QED
      BY <2>1, <3>1, <3>2 DEF Partitioned
  <2>3. Accounted(tkn)
    <3> DEFINE S == tkn.credited \cup Held(tkn)
    <3>1. S \in SUBSET Block /\ held \notin S
      BY <1>0, <2>1 DEF Partitioned
    <3>2. tk.credited \cup Held(tk) = S \cup {held}
      BY <2>1
    <3>3. tk.distributedRows = RowsOf(S \cup {held})
      BY <1>0, <3>2 DEF Accounted
    <3> HIDE DEF S
    <3>4. tkn.distributedRows = RowsOf(S)
      BY <2>1, <3>1, <3>3, RowsOfAdd, RowsOfType, SizePositive
    <3> QED
      BY <1>0, <2>1, <3>4 DEF Accounted, S
  <2>4. Finished(tkn)
    BY <1>0, <2>1 DEF Finished
  <2> QED
    BY <2>1, <2>2, <2>3, <2>4 DEF Consistent, tkn
<1> QED
  BY <1>1, <1>2

\* A machine holds a block only while the task is not over.
LEMMA OverHoldsNothing ==
  ASSUME NEW tk, Consistent(tk), tk.over, NEW m \in Machine
  PROVE  tk.distributeLog[m] = NoBlock /\ tk.taskQueue = <<>>
<1>1. tk.credited = Block
  BY DEF Consistent, Finished
<1>2. Held(tk) = {} /\ Waiting(tk) = {}
  BY <1>1 DEF Consistent, Partitioned
<1>3. tk.distributeLog[m] = NoBlock
  BY <1>2 DEF Held
<1>4. Len(tk.taskQueue) \in Nat /\ ~(1 \in 1 .. Len(tk.taskQueue))
  BY <1>2 DEF Consistent, TaskType, Waiting
<1> QED
  BY <1>3, <1>4 DEF Consistent, TaskType

-----------------------------------------------------------------------------
(* Where a block is.                                                       *)

\* The three places of a block, from the three fields it can be in.
LEMMA PlaceFacts ==
  ASSUME NEW tk, Consistent(tk), NEW b \in Block
  PROVE  /\ b \in tk.credited => PlaceOf(tk)[b] = "credited"
         /\ b \in Waiting(tk) => PlaceOf(tk)[b] = "waiting"
         /\ \A m \in Machine : tk.distributeLog[m] = b => PlaceOf(tk)[b] = m
         /\ \A m \in Machine : PlaceOf(tk)[b] = m => tk.distributeLog[m] = b
         /\ PlaceOf(tk)[b] = "waiting" => b \in Waiting(tk)
         /\ PlaceOf(tk)[b] = "credited" => b \in tk.credited
<1>0. b # NoBlock
  BY BlockCountCovers DEF Block, NoBlock
<1>1. b \in Waiting(tk) \/ b \in Held(tk) \/ b \in tk.credited
  BY DEF Consistent, Partitioned
<1>2. CASE b \in tk.credited
  <2>1. PlaceOf(tk)[b] = "credited" /\ b \notin Waiting(tk) /\ b \notin Held(tk)
    BY <1>2 DEF PlaceOf, Consistent, Partitioned
  <2>2. \A m \in Machine : tk.distributeLog[m] # b
    BY <2>1, <1>0 DEF Held
  <2> QED
    BY <1>2, <2>1, <2>2, MachineAssumption
<1>3. CASE b \in Held(tk)
  <2>1. b \notin tk.credited /\ b \notin Waiting(tk)
    BY <1>3 DEF Consistent, Partitioned
  <2>2. PICK h \in Machine : tk.distributeLog[h] = b
    BY <1>3 DEF Held
  <2>3. \A m \in Machine : tk.distributeLog[m] = b => m = h
    BY <2>2, <1>0 DEF Consistent, Partitioned
  <2>4. PlaceOf(tk)[b] = CHOOSE m \in Machine : tk.distributeLog[m] = b
    BY <1>3, <2>1 DEF PlaceOf
  <2>5. PlaceOf(tk)[b] = h
    BY <2>2, <2>3, <2>4
  <2> QED
    BY <1>3, <2>1, <2>2, <2>3, <2>5, MachineAssumption
<1>4. CASE b \in Waiting(tk)
  <2>1. b \notin tk.credited /\ b \notin Held(tk)
    BY <1>4 DEF Consistent, Partitioned
  <2>2. PlaceOf(tk)[b] = "waiting"
    BY <2>1 DEF PlaceOf
  <2>3. \A m \in Machine : tk.distributeLog[m] # b
    BY <2>1, <1>0 DEF Held
  <2> QED
    BY <1>4, <2>1, <2>2, <2>3, MachineAssumption
<1> QED
  BY <1>1, <1>2, <1>3, <1>4

-----------------------------------------------------------------------------
(* A call on a task, seen from the abstract ledger.                        *)

AllCredited(P) == \A c \in Block : P[c] = "credited"

TurnedIn(P, Q, m) ==
  /\ \A c \in Block : P[c] # "waiting"
  /\ Q = [c \in Block |-> IF P[c] = m THEN "credited" ELSE P[c]]

Exchanged(P, Q, m, b) ==
  /\ P[b] = "waiting"
  /\ Q = [c \in Block |-> IF c = b THEN m ELSE IF P[c] = m THEN "credited" ELSE P[c]]

\* checkAndPoll is an exchange when a block waits and a turn-in when none does.
LEMMA PollPlaces ==
  ASSUME NEW tk, Consistent(tk), NEW m \in Machine, NEW nk, nk = CheckAndPoll(tk, m)
  PROVE  /\ \/ TurnedIn(PlaceOf(tk), PlaceOf(nk), m)
            \/ \E b \in Block : Exchanged(PlaceOf(tk), PlaceOf(nk), m, b)
         /\ nk.over = (tk.over \/ AllCredited(PlaceOf(nk)))
<1> DEFINE old == tk.distributeLog[m]
           new == nk.distributeLog[m]
           P == PlaceOf(tk)
           Q == PlaceOf(nk)
<1>0. tk \in TaskType /\ Partitioned(tk) /\ Finished(tk) /\ Consistent(nk)
  BY PollConsistent DEF Consistent
<1>1. /\ old \in Block \cup {NoBlock} /\ new \in Block \cup {NoBlock}
      /\ new # NoBlock => new \in Waiting(tk)
      /\ new = NoBlock <=> tk.taskQueue = <<>>
      /\ \A n \in Machine : n # m => nk.distributeLog[n] = tk.distributeLog[n]
      /\ Waiting(nk) = Waiting(tk) \ {new}
      /\ nk.credited = tk.credited \cup ({old} \ {NoBlock})
  BY <1>0, PollEffect
<1>2. NoBlock \notin Block
  BY BlockCountCovers DEF Block, NoBlock
<1>3. P = [c \in Block |-> P[c]] /\ Q = [c \in Block |-> Q[c]]
  BY DEF PlaceOf
<1>4. nk.over <=> AllCredited(Q)
  <2>1. nk.over <=> nk.credited = Block
    BY <1>0 DEF Consistent, Finished
  <2>2. \A c \in Block : Q[c] = "credited" <=> c \in nk.credited
    BY <1>0, PlaceFacts
  <2>3. nk.credited \in SUBSET Block
    BY <1>0 DEF Consistent, TaskType
  <2> QED
    BY <2>1, <2>2, <2>3 DEF AllCredited
<1>5. tk.over \in BOOLEAN /\ nk.over \in BOOLEAN /\ (tk.over => nk.over)
  BY <1>0 DEF Consistent, TaskType, CheckAndPoll, NextBlock, RestQueue, LogAfter, EndsTask
<1>6. nk.over = (tk.over \/ AllCredited(Q))
  BY <1>4, <1>5
<1> HIDE DEF new, old, P, Q
<1>7. ASSUME NEW c \in Block, c # new
      PROVE  Q[c] = IF P[c] = m THEN "credited" ELSE P[c]
  <2>1. CASE c \in tk.credited
    BY <2>1, <1>0, <1>1, PlaceFacts, MachineAssumption DEF P, Q
  <2>2. CASE c \in Waiting(tk)
    BY <2>2, <1>0, <1>1, <1>7, PlaceFacts, MachineAssumption DEF P, Q
  <2>3. CASE c \in Held(tk)
    <3>1. PICK h \in Machine : tk.distributeLog[h] = c
      BY <2>3 DEF Held
    <3>2. CASE h = m
      BY <3>1, <3>2, <1>0, <1>1, <1>2, PlaceFacts DEF P, Q, old
    <3>3. CASE h # m
      <4>1. P[c] = h /\ Q[c] = h
        BY <3>1, <3>3, <1>0, <1>1, PlaceFacts DEF P, Q
      <4> QED
        BY <3>3, <4>1
    <3> QED
      BY <3>2, <3>3
  <2> QED
    BY <2>1, <2>2, <2>3, <1>0 DEF Partitioned
<1>8. CASE new = NoBlock
  <2>1. \A c \in Block : P[c] # "waiting"
    <3>1. Waiting(tk) = {}
      BY <1>8, <1>1 DEF Waiting
    <3> QED
      BY <3>1, PlaceFacts DEF P
  <2>2. Q = [c \in Block |-> IF P[c] = m THEN "credited" ELSE P[c]]
    BY <1>2, <1>3, <1>7, <1>8
  <2> QED
    BY <2>1, <2>2, <1>6 DEF TurnedIn, P, Q
<1>9. CASE new # NoBlock
  <2>1. new \in Block /\ P[new] = "waiting"
    BY <1>9, <1>1, PlaceFacts DEF P
  <2>2. Q[new] = m
    BY <2>1, <1>0, PlaceFacts DEF Q, new
  <2>3. Q = [c \in Block |-> IF c = new THEN m ELSE IF P[c] = m THEN "credited" ELSE P[c]]
    BY <1>3, <1>7, <2>2
  <2> QED
    BY <2>1, <2>3, <1>6 DEF Exchanged, P, Q
<1> QED
  BY <1>8, <1>9

\* returnCrawlTask is a give-back, of nothing when the machine holds nothing.
LEMMA ReturnPlaces ==
  ASSUME NEW tk, Consistent(tk), NEW m \in Machine, NEW nk, nk = ReturnCrawlTask(tk, m)
  PROVE  /\ PlaceOf(nk) = [c \in Block |-> IF PlaceOf(tk)[c] = m THEN "waiting" ELSE PlaceOf(tk)[c]]
         /\ nk.over = tk.over
<1> DEFINE held == tk.distributeLog[m]
           P == PlaceOf(tk)
           Q == PlaceOf(nk)
<1>0. tk \in TaskType /\ Partitioned(tk) /\ Consistent(nk)
  BY ReturnConsistent DEF Consistent
<1>1. P = [c \in Block |-> P[c]] /\ Q = [c \in Block |-> Q[c]]
  BY DEF PlaceOf
<1>2. NoBlock \notin Block
  BY BlockCountCovers DEF Block, NoBlock
<1>3. CASE held = NoBlock
  <2>1. nk = tk
    BY <1>3 DEF ReturnCrawlTask, GiveBack
  <2>2. \A c \in Block : P[c] # m
    BY <1>2, <1>3, PlaceFacts
  <2> HIDE DEF P
  <2>3. P = [c \in Block |-> IF P[c] = m THEN "waiting" ELSE P[c]]
    BY <1>1, <2>2
  <2> QED
    BY <2>1, <2>3 DEF P
<1>4. CASE held # NoBlock
  <2>1. /\ held \in Block
        /\ \A n \in Machine : n # m => nk.distributeLog[n] = tk.distributeLog[n]
        /\ Waiting(nk) = Waiting(tk) \cup {held}
        /\ nk.credited = tk.credited
        /\ nk.over = tk.over
    BY <1>0, <1>4, ReturnEffect
  <2> HIDE DEF held, P, Q
  <2>2. ASSUME NEW c \in Block
        PROVE  Q[c] = IF P[c] = m THEN "waiting" ELSE P[c]
    <3>1. CASE c \in tk.credited
      BY <3>1, <1>0, <2>1, PlaceFacts, MachineAssumption DEF P, Q
    <3>2. CASE c \in Waiting(tk)
      BY <3>2, <1>0, <2>1, PlaceFacts, MachineAssumption DEF P, Q
    <3>3. CASE c \in Held(tk)
      <4>1. PICK h \in Machine : tk.distributeLog[h] = c
        BY <3>3 DEF Held
      <4>2. CASE h = m
        BY <4>1, <4>2, <1>0, <2>1, PlaceFacts DEF P, Q, held
      <4>3. CASE h # m
        <5>1. P[c] = h /\ Q[c] = h
          BY <4>1, <4>3, <1>0, <2>1, PlaceFacts DEF P, Q
        <5> QED
          BY <4>3, <5>1
      <4> QED
        BY <4>2, <4>3
    <3> QED
      BY <3>1, <3>2, <3>3, <1>0 DEF Partitioned
  <2>3. Q = [c \in Block |-> IF P[c] = m THEN "waiting" ELSE P[c]]
    BY <1>1, <2>2
  <2> QED
    BY <2>1, <2>3 DEF P, Q
<1> QED
  BY <1>3, <1>4

\* In a new task every block waits.
LEMMA NewTaskPlaces ==
  PlaceOf(NewTask) = [b \in Block |-> "waiting"] /\ NewTask.over = FALSE
<1>1. NewTask.credited = {} /\ Held(NewTask) = {} /\ NewTask.over = FALSE
  BY DEF NewTask, Held
<1> QED
  BY <1>1 DEF PlaceOf
=============================================================================
