----------------------------- MODULE Task_proofs -----------------------------
(***************************************************************************)
(* Theorems about node/master/Task.java: its two methods (TaskBlocks), for *)
(* every number of rows, every block size and every set of machines, and   *)
(* its constructor (TaskFile), for every set of URLs and paths, every      *)
(* chunk and block size and every number of submissions.                   *)
(***************************************************************************)
EXTENDS TaskBlocks, TaskFile, TaskRecord_proofs, SequenceTheorems

-----------------------------------------------------------------------------
(* The methods.                                                            *)

LEMMA ConsistentStep == Consistent(task) /\ [TaskNext]_taskVars => Consistent(task)'
<1> SUFFICES ASSUME Consistent(task), [TaskNext]_taskVars
             PROVE  Consistent(task)'
  OBVIOUS
<1>1. ASSUME NEW m \in Machine, Poll(m)
      PROVE  Consistent(task)'
  BY <1>1, PollConsistent DEF Poll
<1>2. ASSUME NEW m \in Machine, Return(m)
      PROVE  Consistent(task)'
  BY <1>2, ReturnConsistent DEF Return
<1>3. CASE UNCHANGED taskVars
  BY <1>3 DEF taskVars
<1> QED
  BY <1>1, <1>2, <1>3 DEF TaskNext

\* Whatever sequence of checkAndPoll and returnCrawlTask is run against a
\* task, by whatever machines, it stays consistent.
THEOREM AlwaysConsistent == TaskSpec => []Consistent(task)
<1>1. TaskInit => Consistent(task)
  BY NewTaskConsistent DEF TaskInit
<1> QED
  BY <1>1, ConsistentStep, PTL DEF TaskSpec

\* Type correctness of a task.
THEOREM TaskTypeCorrect == TaskSpec => []TaskTypeOK
<1>1. Consistent(task) => TaskTypeOK
  BY DEF Consistent, TaskTypeOK
<1> QED
  BY <1>1, AlwaysConsistent, PTL

\* No block is lost or in two places (Task.java:191-229).
THEOREM NoBlockLostOrDoubled == TaskSpec => []BlocksPartitioned
<1>1. Consistent(task) => BlocksPartitioned
  BY DEF Consistent, BlocksPartitioned
<1> QED
  BY <1>1, AlwaysConsistent, PTL

\* The row counters are the row sums, and finishedRows never exceeds
\* distributedRows (the comment at Task.java:227).
THEOREM CountersAreSums == TaskSpec => []RowAccounting
<1>1. Consistent(task) => RowAccounting
  <2> SUFFICES ASSUME Consistent(task) PROVE RowAccounting
    OBVIOUS
  <2> DEFINE C == task.credited
             D == task.credited \cup Held(task)
  <2>1. task.finishedRows = RowsOf(C) /\ task.distributedRows = RowsOf(D)
    BY DEF Consistent, Accounted
  <2>2. C \in SUBSET D /\ D \in SUBSET Block
    BY DEF Consistent, Partitioned
  <2> HIDE DEF C, D
  <2>3. RowsOf(C) \in Nat /\ RowsOf(C) <= RowsOf(D) /\ RowsOf(D) <= TotalRow
    BY <2>2, RowsOfType, RowsOfMonotone, RowsOfEnds
  <2> QED
    BY <2>1, <2>3 DEF RowAccounting, Consistent
<1> QED
  BY <1>1, AlwaysConsistent, PTL

\* over says that every block is counted, and nothing less.
THEOREM OverIsExact == TaskSpec => []OverWhenAllCredited
<1>1. Consistent(task) => OverWhenAllCredited
  BY DEF Consistent, OverWhenAllCredited
<1> QED
  BY <1>1, AlwaysConsistent, PTL

\* taskQueue.add in returnCrawlTask never meets a full queue.
THEOREM ReturnFindsRoom == TaskSpec => []QueueHasRoom
<1>1. Consistent(task) => QueueHasRoom
  <2> SUFFICES ASSUME Consistent(task), NEW m \in Machine, task.distributeLog[m] # NoBlock
               PROVE  Len(task.taskQueue) < BlockCount
    BY DEF QueueHasRoom
  <2> DEFINE q == task.taskQueue
             held == task.distributeLog[m]
             W == Waiting(task)
  <2>1. held \in Block /\ held \notin W /\ W \in SUBSET Block
    BY DEF Consistent, TaskType, Partitioned, Held
  <2>2. Len(q) \in Nat /\ IsFiniteSet(1 .. Len(q)) /\ Cardinality(1 .. Len(q)) = Len(q)
    <3>1. Len(q) \in Nat
      BY DEF Consistent, TaskType
    <3> QED
      BY <3>1, FS_Interval
  <2>3. IsFiniteSet(W) /\ Cardinality(W) \in Nat /\ IsFiniteSet(Block)
        /\ Cardinality(Block) = BlockCount
    BY <2>1, BlocksFinite
  <2>4. Cardinality(W) < BlockCount
    <3>1. Cardinality(W) <= Cardinality(Block) /\ (Cardinality(Block) = Cardinality(W) => Block = W)
      BY <2>1, <2>3, FS_Subset
    <3> QED
      BY <2>1, <2>3, <3>1, BlockCountCovers
  <2>5. Cardinality(1 .. Len(q)) <= Cardinality(W)
    <3> DEFINE f == [i \in 1 .. Len(q) |-> q[i]]
    <3>1. f \in [1 .. Len(q) -> W]
      BY DEF Waiting
    <3>2. \A i, j \in 1 .. Len(q) : q[i] = q[j] => i = j
      BY DEF Consistent, Partitioned
    <3>3. \A i, j \in 1 .. Len(q) : f[i] = f[j] => i = j
      BY <3>2
    <3> HIDE DEF f, W, q
    <3>4. f \in Injection(1 .. Len(q), W)
      BY <3>1, <3>3 DEF Injection, IsInjective
    <3> QED
      BY <2>3, <3>4, FS_Injection
  <2> QED
    BY <2>2, <2>3, <2>4, <2>5, BlockCountCovers
<1> QED
  BY <1>1, AlwaysConsistent, PTL

\* A task that is over never changes again.
THEOREM OverIsForever == TaskSpec => OverIsFinal
<1>1. Consistent(task) /\ [TaskNext]_taskVars => [task.over => task' = task]_taskVars
  <2> SUFFICES ASSUME Consistent(task), task.over, NEW m \in Machine, Poll(m) \/ Return(m)
               PROVE  task' = task
    BY DEF TaskNext, taskVars
  <2>1. task.distributeLog[m] = NoBlock /\ task.taskQueue = <<>>
    BY OverHoldsNothing
  <2>2. ReturnCrawlTask(task, m) = task
    BY <2>1 DEF ReturnCrawlTask, GiveBack
  <2>3. CheckAndPoll(task, m) = task
    <3>1. task \in TaskType
      BY DEF Consistent
    <3>2. /\ [task.distributeLog EXCEPT ![m] = NoBlock] = task.distributeLog
          /\ task.credited \cup ({NoBlock} \ {NoBlock}) = task.credited
          /\ task.distributedRows + 0 = task.distributedRows
          /\ task.finishedRows + 0 = task.finishedRows
      BY <2>1, <3>1 DEF TaskType
    <3>3. CheckAndPoll(task, m) =
            [ taskQueue |-> task.taskQueue, distributeLog |-> task.distributeLog,
              distributedRows |-> task.distributedRows, finishedRows |-> task.finishedRows,
              over |-> task.over, credited |-> task.credited ]
      <4>1. RowsOrZero(NoBlock) = 0
        BY DEF RowsOrZero
      <4>2. (task.over \/ (NoBlock # NoBlock /\ task.finishedRows + 0 = TotalRow)) = task.over
        BY <3>1 DEF TaskType
      <4> QED
        BY <2>1, <3>2, <4>1, <4>2, Zenon DEF CheckAndPoll, NextBlock, RestQueue, LogAfter, EndsTask
    <3> QED
      BY <3>1, <3>3 DEF TaskType
  <2> QED
    BY <2>2, <2>3 DEF Poll, Return
<1> QED
  BY <1>1, AlwaysConsistent, PTL DEF TaskSpec, OverIsFinal

-----------------------------------------------------------------------------
(* A task implements the block ledger.                                     *)

LEMMA PollRefines ==
  ASSUME Consistent(task), NEW m \in Machine, Poll(m)
  PROVE  Ledger!TurnIn(m) \/ \E b \in Block : Ledger!Exchange(m, b)
BY PollPlaces DEF Poll, Ledger!TurnIn, Ledger!Exchange, TurnedIn, Exchanged, AllCredited

LEMMA ReturnRefines ==
  ASSUME Consistent(task), NEW m \in Machine, Return(m)
  PROVE  Ledger!GiveBack(m)
BY ReturnPlaces DEF Return, Ledger!GiveBack

\* A task implements the ledger: what a machine receives is a waiting block,
\* and it receives none only when none waits (Task.java:191-229).
THEOREM TaskImplementsLedger == TaskSpec => LedgerSpec
<1>1. TaskInit => Ledger!Init
  BY NewTaskPlaces DEF TaskInit, Ledger!Init
<1>2. Consistent(task) /\ [TaskNext]_taskVars => [Ledger!Next]_(Ledger!vars)
  <2> SUFFICES ASSUME Consistent(task), [TaskNext]_taskVars
               PROVE  [Ledger!Next]_(Ledger!vars)
    OBVIOUS
  <2>1. ASSUME NEW m \in Machine, Poll(m)
        PROVE  Ledger!Next
    BY <2>1, PollRefines DEF Ledger!Next
  <2>2. ASSUME NEW m \in Machine, Return(m)
        PROVE  Ledger!Next
    BY <2>2, ReturnRefines DEF Ledger!Next
  <2>3. CASE UNCHANGED taskVars
    BY <2>3 DEF taskVars, Ledger!vars
  <2> QED
    BY <2>1, <2>2, <2>3 DEF TaskNext
<1> QED
  BY <1>1, <1>2, AlwaysConsistent, PTL DEF TaskSpec, LedgerSpec, Ledger!Spec

-----------------------------------------------------------------------------
(* The constructor: its inductive invariant.                               *)

\* The lines of a chunk are those read since its floor; what is parsed before
\* the end of the file is a full chunk.
Chunked ==
  /\ job.at = "read" => job.floor + Len(job.temp) <= Len(job.lines)
  /\ job.at = "parse" => job.last \/ job.floor + Chunk <= Len(job.lines)

\* What is a row, or waits to be one, is in the filter; what waits is no row
\* yet, and waits once.
Filtered ==
  /\ \A p \in Path : \A i \in 1 .. Len(files[p]) : files[p][i].url \in seen
  /\ job # Idle =>
       \A i \in 1 .. Len(job.reqs) :
         /\ job.reqs[i] \in seen
         /\ \A j \in 1 .. Len(job.reqs) : job.reqs[i] = job.reqs[j] => i = j
         /\ \A p \in Path : \A j \in 1 .. Len(files[p]) : files[p][j].url # job.reqs[i]

\* The rows of file f from n + 1 to n + rows are those of submission s.
Piece(f, n, rows, s) == n + rows <= Len(f) /\ \A r \in 1 .. rows : f[n + r].by = s

Pieces ==
  /\ \A s \in 1 .. Len(past) :
       past[s].outcome = "submitted" => Piece(files[past[s].path], past[s].offset, past[s].totalRow, s)
  /\ job # Idle =>
       /\ Len(files[job.path]) = job.offset + job.totalRow
       /\ Piece(files[job.path], job.offset, job.totalRow, Len(past) + 1)

\* Until the last block is added the blocks are full and rows remain.
BlocksCut ==
  /\ job.at \in {"shrink", "cut"} => job.rowPerBlock \in Int /\ job.totalRow > 0
  /\ job.at = "cut" =>
       /\ \A b \in 1 .. Len(job.blocks) : job.blocks[b] = FullBlock(b)
       /\ job.rowPerBlock > 0 => Len(job.blocks) * job.rowPerBlock < job.totalRow
  /\ job.at \in {"read", "parse", "size", "shrink"} => job.blocks = <<>>

Inv == TypeOK /\ Chunked /\ Filtered /\ UrlOnce /\ Pieces /\ BlocksCut /\ BlocksTile

-----------------------------------------------------------------------------
(* The types, and the chunk.                                               *)

\* A step that ends no submission, and one that does.
LEMMA TypeKept ==
  ASSUME TypeOK, UNCHANGED past, seen' \subseteq Url,
         files' \in [Path -> Seq([url : Url, by : Nat])],
         job' \in Running, Len(job'.temp) <= Chunk
  PROVE  TypeOK'
BY DEF TypeOK

LEMMA TypeEnded ==
  ASSUME TypeOK, job \in Running, UNCHANGED seen,
         files' \in [Path -> Seq([url : Url, by : Nat])],
         NEW outcome \in {"submitted", "finished", "failed", "untold"},
         NEW blocks \in Seq(BlockType), End(outcome, blocks)
  PROVE  TypeOK' /\ Chunked'
<1> DEFINE urls == {job.lines[i] : i \in 1 .. Len(job.lines)}
           s == [path |-> job.path, outcome |-> outcome, blocks |-> blocks,
                 totalRow |-> job.totalRow, offset |-> job.offset, urls |-> urls]
<1>1. urls \subseteq Url
  BY DEF Running
<1>2. /\ job.path \in Path /\ job.totalRow \in Nat /\ job.offset \in Nat
  BY DEF Running
<1> HIDE DEF urls
<1>3. s \in Submission
  BY Zenon, <1>1, <1>2 DEF Submission
<1>4. past' = Append(past, s) /\ job' = Idle
  BY DEF End, urls
<1> HIDE DEF s
<1>5. past' \in Seq(Submission)
  BY <1>3, <1>4 DEF TypeOK
<1>6. Idle.at # "read" /\ Idle.at # "parse"
  BY DEF Idle
<1> QED
  BY <1>4, <1>5, <1>6 DEF TypeOK, Chunked

LEMMA RowsTyped ==
  ASSUME NEW urls \in Seq(Url), past \in Seq(Submission)
  PROVE  /\ Rows(urls) \in Seq([url : Url, by : Nat])
         /\ Len(Rows(urls)) = Len(urls)
         /\ \A i \in 1 .. Len(urls) : Rows(urls)[i].url = urls[i] /\ Rows(urls)[i].by = Len(past) + 1
BY DEF Rows, Row

LEMMA FilesTyped ==
  ASSUME TypeOK, NEW urls \in Seq(Url), NEW p \in Path,
         files' = [files EXCEPT ![p] = @ \o Rows(urls)]
  PROVE  files' \in [Path -> Seq([url : Url, by : Nat])]
<1> DEFINE R == [url : Url, by : Nat]
<1>1. Rows(urls) \in Seq(R)
  BY RowsTyped DEF TypeOK
<1>2. files \in [Path -> Seq(R)]
  BY DEF TypeOK
<1> HIDE DEF R
<1>3. files[p] \o Rows(urls) \in Seq(R)
  BY <1>1, <1>2, ConcatProperties
<1> USE DEF R
<1> QED
  BY <1>2, <1>3

LEMMA TypeStep == TypeOK /\ Chunked /\ BlocksCut /\ [Next]_vars => TypeOK' /\ Chunked'
<1> SUFFICES ASSUME TypeOK, Chunked, BlocksCut, [Next]_vars PROVE TypeOK' /\ Chunked'
  OBVIOUS
<1> USE FileAssumption
<1>0. job.at # "idle" => job \in Running
  BY DEF TypeOK, Idle
<1>1. ASSUME NEW p \in Path, SubmitTask(p) PROVE TypeOK' /\ Chunked'
  <2>1. Len(files[p]) \in Nat /\ seen \in SUBSET Url /\ <<>> \in Seq(Url) /\ <<>> \in Seq(BlockType)
    BY DEF TypeOK
  <2>2. 0 \in Nat /\ 1 \in Nat \ {0} /\ Len(<<>>) = 0
    OBVIOUS
  <2>3. job' \in Running
    BY Zenon, <1>1, <2>1, <2>2 DEF SubmitTask, Running
  <2>4. job'.at = "read" /\ job'.floor = 0 /\ job'.temp = <<>> /\ job'.lines = <<>>
    BY Zenon, <1>1 DEF SubmitTask
  <2>5. UNCHANGED <<seen, files, past>>
    BY <1>1 DEF SubmitTask
  <2>6. Len(job'.temp) <= Chunk
    BY <2>2, <2>4
  <2>7. Chunked'
    BY <2>2, <2>4 DEF Chunked
  <2> QED
    BY <2>3, <2>5, <2>6, <2>7, TypeKept DEF TypeOK
<1>2. ASSUME NEW url \in Url, ReadLine(url) PROVE TypeOK' /\ Chunked'
  <2>1. job \in Running /\ job.at = "read"
    BY <1>0, <1>2 DEF ReadLine
  <2>2. job.lines \in Seq(Url) /\ job.temp \in Seq(Url) /\ job.floor \in Nat
    BY <2>1 DEF Running
  <2>3. Append(job.lines, url) \in Seq(Url) /\ Append(job.temp, url) \in Seq(Url)
    BY <2>2
  <2>4. job' \in Running
    BY Zenon, <1>2, <2>1, <2>3 DEF ReadLine, Running
  <2>5. job'.at = "read" /\ job'.floor = job.floor /\ job'.lines = Append(job.lines, url)
        /\ job'.temp = Append(job.temp, url)
    BY <1>2, <2>1 DEF ReadLine, Running
  <2>6. Len(job.lines) + 1 <= job.floor + Chunk
    BY <1>2 DEF ReadLine, InChunk, No
  <2>7. Len(job'.temp) <= Chunk /\ Chunked'
    BY <2>1, <2>2, <2>5, <2>6 DEF Chunked
  <2>8. UNCHANGED <<seen, files, past>>
    BY <1>2 DEF ReadLine
  <2> QED
    BY <2>4, <2>7, <2>8, TypeKept DEF TypeOK
<1>3. ASSUME NEW url \in Url, CutChunk(url) PROVE TypeOK' /\ Chunked'
  <2>1. job \in Running /\ job.at = "read"
    BY <1>0, <1>3 DEF CutChunk
  <2>2. job.lines \in Seq(Url) /\ job.temp \in Seq(Url) /\ job.floor \in Nat
    BY <2>1 DEF Running
  <2>3. Append(job.lines, url) \in Seq(Url)
    BY <2>2
  <2>4. job' \in Running
    BY Zenon, <1>3, <2>1, <2>3 DEF CutChunk, Running
  <2>5. job'.at = "parse" /\ job'.floor = job.floor /\ job'.lines = Append(job.lines, url)
        /\ job'.temp = job.temp
    BY <1>3, <2>1 DEF CutChunk, Running
  <2>6. job.floor + Chunk < Len(job.lines) + 1
    BY <1>3, <2>1, <2>2 DEF CutChunk, InChunk, No, Chunked
  <2>7. Chunked'
    BY <2>2, <2>5, <2>6 DEF Chunked
  <2>8. UNCHANGED <<seen, files, past>>
    BY <1>3 DEF CutChunk
  <2>9. Len(job'.temp) <= Chunk
    BY <2>1, <2>5 DEF TypeOK, Idle
  <2> QED
    BY <2>4, <2>7, <2>8, <2>9, TypeKept DEF TypeOK
<1>4. ASSUME EndOfFile PROVE TypeOK' /\ Chunked'
  <2>1. job \in Running /\ job.at = "read"
    BY <1>0, <1>4 DEF EndOfFile
  <2>2. job' \in Running
    BY Zenon, <1>4, <2>1 DEF EndOfFile, Running
  <2>3. job'.at = "parse" /\ job'.last = TRUE /\ job'.temp = job.temp
    BY <1>4, <2>1 DEF EndOfFile, Running
  <2>4. UNCHANGED <<seen, files, past>>
    BY <1>4 DEF EndOfFile
  <2>5. Len(job'.temp) <= Chunk
    BY <2>1, <2>3 DEF TypeOK, Idle
  <2>6. Chunked'
    BY <2>3 DEF Chunked
  <2> QED
    BY <2>2, <2>4, <2>5, <2>6, TypeKept DEF TypeOK
<1>5. ASSUME ParseLine PROVE TypeOK' /\ Chunked'
  <2> DEFINE url == Head(job.temp)
             reqs == IF IsNew(url) THEN Append(job.reqs, url) ELSE job.reqs
  <2>1. job \in Running /\ job.at = "parse" /\ job.temp # <<>>
    BY <1>0, <1>5 DEF ParseLine
  <2>2. job.temp \in Seq(Url) /\ job.reqs \in Seq(Url)
    BY <2>1 DEF Running
  <2>3. url \in Url /\ Tail(job.temp) \in Seq(Url) /\ Len(Tail(job.temp)) = Len(job.temp) - 1
    BY <2>1, <2>2
  <2>4. reqs \in Seq(Url)
    BY <2>2, <2>3
  <2>5. job' = [job EXCEPT !.temp = Tail(job.temp), !.reqs = reqs]
        /\ seen' = seen \cup {url} /\ UNCHANGED <<files, past>>
    BY <1>5, <2>1 DEF ParseLine, Running
  <2> HIDE DEF reqs, url
  <2>6. job' \in Running
    BY Zenon, <2>1, <2>3, <2>4, <2>5 DEF Running
  <2>7. job'.at = "parse" /\ job'.floor = job.floor /\ job'.last = job.last
        /\ job'.temp = Tail(job.temp) /\ job'.lines = job.lines
    BY <2>1, <2>5 DEF Running
  <2>8. Len(job'.temp) <= Chunk
    BY <2>1, <2>2, <2>3, <2>7 DEF TypeOK, Idle
  <2>9. Chunked'
    BY <2>1, <2>7 DEF Chunked
  <2>10. seen' \subseteq Url
    BY <2>3, <2>5 DEF TypeOK
  <2> QED
    BY <2>5, <2>6, <2>8, <2>9, <2>10, TypeKept DEF TypeOK
<1>6. ASSUME WriteRows PROVE TypeOK' /\ Chunked'
  <2> DEFINE total == job.totalRow + Len(job.reqs)
             floor == IF job.last THEN job.floor ELSE job.floor + Chunk
             at == IF job.last THEN "size" ELSE "read"
  <2>1. job \in Running /\ job.at = "parse" /\ job.temp = <<>>
    BY <1>0, <1>6 DEF WriteRows
  <2>2. job.reqs \in Seq(Url) /\ job.totalRow \in Nat /\ job.floor \in Nat /\ job.path \in Path
        /\ job.last \in BOOLEAN /\ job.lines \in Seq(Url)
    BY <2>1 DEF Running
  <2>3. total \in Nat /\ floor \in Nat /\ at \in {"read", "parse", "size", "shrink", "cut"}
        /\ <<>> \in Seq(Url) /\ Len(<<>>) = 0
    BY <2>2
  <2>4. files' = [files EXCEPT ![job.path] = @ \o Rows(job.reqs)] /\ UNCHANGED <<seen, past>>
        /\ job' = [job EXCEPT !.totalRow = total, !.reqs = <<>>, !.floor = floor, !.at = at]
    BY <1>6, <2>1 DEF WriteRows, Appended, Running
  <2>5. files' \in [Path -> Seq([url : Url, by : Nat])]
    BY <2>2, <2>4, FilesTyped
  <2>6. at = "read" => ~job.last /\ floor = job.floor + Chunk
    BY <2>2
  <2>7. at # "parse"
    OBVIOUS
  <2> HIDE DEF total, floor, at
  <2>8. job' \in Running
    BY Zenon, <2>1, <2>3, <2>4 DEF Running
  <2>9. job'.at = at /\ job'.floor = floor /\ job'.temp = <<>> /\ job'.lines = job.lines
    BY <2>1, <2>4 DEF Running
  <2>10. Chunked'
    BY <2>1, <2>2, <2>3, <2>6, <2>7, <2>9 DEF Chunked
  <2>11. Len(job'.temp) <= Chunk /\ seen' \subseteq Url
    BY <2>3, <2>4, <2>9 DEF TypeOK
  <2> QED
    BY <2>4, <2>5, <2>8, <2>10, <2>11, TypeKept
<1>7. <<>> \in Seq(BlockType)
  OBVIOUS
<1>8. ASSUME ReadFails PROVE TypeOK' /\ Chunked'
  BY <1>0, <1>7, <1>8, TypeEnded DEF ReadFails, TypeOK
<1>9. ASSUME WriteFails PROVE TypeOK' /\ Chunked'
  <2>1. job \in Running /\ UNCHANGED seen /\ End("failed", <<>>)
    BY <1>0, <1>9 DEF WriteFails
  <2>2. PICK n \in 0 .. Len(job.reqs) :
          files' = [files EXCEPT ![job.path] = @ \o Rows(SubSeq(job.reqs, 1, n))]
    BY <1>9 DEF WriteFails
  <2>3. job.path \in Path /\ SubSeq(job.reqs, 1, n) \in Seq(Url)
    BY <2>1 DEF Running
  <2>4. files' \in [Path -> Seq([url : Url, by : Nat])]
    BY <2>2, <2>3, FilesTyped
  <2> QED
    BY <1>7, <2>1, <2>4, TypeEnded
<1>10. ASSUME NothingNew PROVE TypeOK' /\ Chunked'
  BY <1>0, <1>7, <1>10, TypeEnded DEF NothingNew, TypeOK
<1>11. ASSUME NEW rows \in Given, NEW slaves \in 0 .. MaxSlaves, ChooseRows(rows, slaves)
       PROVE TypeOK' /\ Chunked'
  <2> DEFINE modcount == IF slaves = 0 THEN 1 ELSE slaves
             quotient == job.totalRow \div modcount
  <2>1. job \in Running /\ UNCHANGED <<seen, files, past>>
    BY <1>0, <1>11 DEF ChooseRows
  <2>2. job.totalRow \in Nat
    BY <2>1 DEF Running
  <2>3. modcount \in Nat \ {0}
    OBVIOUS
  <2>4. quotient \in Int \cup {Null} /\ rows \in Int \cup {Null}
    BY <2>2, <2>3
  <2>5. \/ job' = [job EXCEPT !.at = "shrink", !.modcount = modcount, !.rowPerBlock = quotient]
        \/ job' = [job EXCEPT !.at = "cut", !.rowPerBlock = rows]
    BY <1>11 DEF ChooseRows
  <2> HIDE DEF modcount, quotient
  <2>6. job' \in Running
    <3>1. CASE job' = [job EXCEPT !.at = "shrink", !.modcount = modcount, !.rowPerBlock = quotient]
      BY Zenon, <2>1, <2>3, <2>4, <3>1 DEF Running
    <3>2. CASE job' = [job EXCEPT !.at = "cut", !.rowPerBlock = rows]
      BY Zenon, <2>1, <2>4, <3>2 DEF Running
    <3> QED
      BY <2>5, <3>1, <3>2
  <2>7. job'.at \in {"shrink", "cut"} /\ job'.temp = job.temp
    BY <2>1, <2>5 DEF Running
  <2>8. Len(job'.temp) <= Chunk
    BY <1>11, <2>7 DEF ChooseRows, TypeOK, Idle
  <2> QED
    BY <2>1, <2>6, <2>7, <2>8, TypeKept DEF TypeOK, Chunked
<1>12. ASSUME ShrinkRows PROVE TypeOK' /\ Chunked'
  <2> DEFINE quotient == job.rowPerBlock \div job.modcount
  <2>1. job \in Running /\ job.at = "shrink" /\ UNCHANGED <<seen, files, past>>
    BY <1>0, <1>12 DEF ShrinkRows
  <2>2. job.rowPerBlock \in Int /\ job.modcount \in Nat \ {0}
    BY <2>1 DEF Running, BlocksCut
  <2>3. quotient \in Int \cup {Null}
    BY <2>2
  <2>4. \/ job' = [job EXCEPT !.rowPerBlock = quotient]
        \/ job' = [job EXCEPT !.at = "cut"]
    BY <1>12, <2>1 DEF ShrinkRows, Running
  <2> HIDE DEF quotient
  <2>5. job' \in Running
    BY Zenon, <2>1, <2>3, <2>4 DEF Running
  <2>6. job'.at \in {"shrink", "cut"} /\ job'.temp = job.temp
    BY <2>1, <2>4 DEF Running
  <2>7. Len(job'.temp) <= Chunk
    BY <2>1, <2>6 DEF TypeOK, Idle
  <2> QED
    BY <2>1, <2>5, <2>6, <2>7, TypeKept DEF TypeOK, Chunked
<1>13. ASSUME QueueRefused PROVE TypeOK' /\ Chunked'
  BY <1>0, <1>7, <1>13, TypeEnded DEF QueueRefused, TypeOK
<1>14. ASSUME AddBlock PROVE TypeOK' /\ Chunked'
  <2> DEFINE blocks == Append(job.blocks, FullBlock(Len(job.blocks) + 1))
  <2>1. job \in Running /\ job.at = "cut" /\ UNCHANGED <<seen, files, past>>
    BY <1>0, <1>14 DEF AddBlock
  <2>2. job.rowPerBlock \in Int /\ job.blocks \in Seq(BlockType)
    BY <2>1 DEF Running, BlocksCut
  <2>3. FullBlock(Len(job.blocks) + 1) \in BlockType
    BY <2>2 DEF FullBlock, BlockType
  <2>4. blocks \in Seq(BlockType)
    BY <2>2, <2>3
  <2>5. job' = [job EXCEPT !.blocks = blocks]
    BY <1>14, <2>1 DEF AddBlock, Running
  <2> HIDE DEF blocks
  <2>6. job' \in Running
    BY Zenon, <2>1, <2>4, <2>5 DEF Running
  <2>7. job'.at = "cut" /\ job'.temp = job.temp
    BY <2>1, <2>5 DEF Running
  <2>8. Len(job'.temp) <= Chunk
    BY <2>1, <2>7 DEF TypeOK, Idle
  <2> QED
    BY <2>1, <2>6, <2>7, <2>8, TypeKept DEF TypeOK, Chunked
<1>15. ASSUME OutOfMemory PROVE TypeOK' /\ Chunked'
  BY <1>0, <1>7, <1>15, TypeEnded DEF OutOfMemory, TypeOK
<1>16. ASSUME AddLastBlock PROVE TypeOK' /\ Chunked'
  <2> DEFINE last == LastBlock(Len(job.blocks) * job.rowPerBlock)
  <2>1. job \in Running /\ job.at = "cut" /\ UNCHANGED <<seen, files>>
        /\ End("submitted", Append(job.blocks, last))
    BY <1>0, <1>16 DEF AddLastBlock
  <2>2. job.rowPerBlock \in Int /\ job.blocks \in Seq(BlockType) /\ job.totalRow \in Nat
    BY <2>1 DEF Running, BlocksCut
  <2>3. last \in BlockType
    BY <2>2 DEF LastBlock, BlockType
  <2>4. Append(job.blocks, last) \in Seq(BlockType)
    BY <2>2, <2>3
  <2> QED
    BY <2>1, <2>4, TypeEnded DEF TypeOK
<1>17. ASSUME UNCHANGED vars PROVE TypeOK' /\ Chunked'
  BY <1>17 DEF vars, TypeOK, Chunked
<1> QED
  BY <1>1, <1>2, <1>3, <1>4, <1>5, <1>6, <1>8, <1>9, <1>10, <1>11, <1>12, <1>13, <1>14,
     <1>15, <1>16, <1>17 DEF Next, Step

-----------------------------------------------------------------------------
(* The rows of the files, and the filter.                                  *)

\* What a step that writes the requests urls, all of them or the first ones,
\* does to the files.
Written(urls) ==
  /\ urls \in Seq(Url) /\ Len(urls) <= Len(job.reqs)
  /\ \A i \in 1 .. Len(urls) : urls[i] = job.reqs[i]
  /\ files' = [files EXCEPT ![job.path] = @ \o Rows(urls)]

LEMMA FilesWritten ==
  ASSUME TypeOK, job \in Running, NEW urls, Written(urls)
  PROVE  /\ \A p \in Path \ {job.path} : files'[p] = files[p]
         /\ Len(files'[job.path]) = Len(files[job.path]) + Len(urls)
         /\ \A i \in 1 .. Len(files[job.path]) : files'[job.path][i] = files[job.path][i]
         /\ \A i \in 1 .. Len(urls) :
              LET row == files'[job.path][Len(files[job.path]) + i]
              IN row.url = job.reqs[i] /\ row.by = Len(past) + 1
<1> DEFINE R == [url : Url, by : Nat]
           rows == Rows(urls)
           f == files[job.path]
<1>1. job.path \in Path
  BY DEF Running
<1>2. files \in [Path -> Seq(R)] /\ past \in Seq(Submission)
  BY DEF TypeOK
<1>3. f \in Seq(R)
  BY <1>1, <1>2
<1>4. rows \in Seq(R) /\ Len(rows) = Len(urls)
  BY <1>2, RowsTyped DEF Written
<1>5. \A i \in 1 .. Len(urls) : rows[i].url = job.reqs[i] /\ rows[i].by = Len(past) + 1
  BY <1>2, RowsTyped DEF Written
<1>6. files'[job.path] = f \o rows /\ \A p \in Path \ {job.path} : files'[p] = files[p]
  BY <1>1, <1>2 DEF Written
<1> HIDE DEF R, rows, f
<1>7. /\ Len(f \o rows) = Len(f) + Len(rows)
      /\ \A i \in 1 .. Len(f) + Len(rows) :
           (f \o rows)[i] = IF i <= Len(f) THEN f[i] ELSE rows[i - Len(f)]
  BY Zenon, <1>3, <1>4, ConcatProperties
<1>8. Len(f) \in Nat /\ Len(rows) \in Nat
  BY <1>3, <1>4
<1>9. \A i \in 1 .. Len(f) : (f \o rows)[i] = f[i]
  BY <1>7, <1>8
<1>10. ASSUME NEW i \in 1 .. Len(urls) PROVE (f \o rows)[Len(f) + i] = rows[i]
  BY <1>4, <1>7, <1>8
<1>11. ASSUME NEW i \in 1 .. Len(urls)
       PROVE  /\ files'[job.path][Len(f) + i].url = job.reqs[i]
              /\ files'[job.path][Len(f) + i].by = Len(past) + 1
  <2>1. files'[job.path][Len(f) + i] = rows[i]
    BY Zenon, <1>6, <1>10
  <2> QED
    BY Zenon, <1>5, <2>1
<1> QED
  BY <1>4, <1>6, <1>7, <1>9, <1>11 DEF f

LEMMA FilterWritten ==
  ASSUME TypeOK, job \in Running, Filtered, UrlOnce, NEW urls, Written(urls)
  PROVE  /\ \A p \in Path : \A i \in 1 .. Len(files'[p]) : files'[p][i].url \in seen
         /\ UrlOnce'
<1> DEFINE old == Len(files[job.path])
<1>1. job # Idle /\ job.path \in Path
  BY DEF Running, Idle
<1>2. old \in Nat /\ Len(urls) \in Nat /\ Len(urls) <= Len(job.reqs)
  BY <1>1 DEF TypeOK, Written
<1>3. ASSUME NEW p \in Path, NEW i \in 1 .. Len(files'[p])
      PROVE  \/ i \in 1 .. Len(files[p]) /\ files'[p][i] = files[p][i]
             \/ /\ p = job.path
                /\ i - old \in 1 .. Len(urls)
                /\ files'[p][i].url = job.reqs[i - old]
  <2>1. CASE p # job.path
    BY <1>3, <2>1, FilesWritten
  <2>2. CASE p = job.path /\ i <= old
    BY <1>2, <1>3, <2>2, FilesWritten
  <2>3. CASE p = job.path /\ i > old
    <3>1. i - old \in 1 .. Len(urls) /\ i = old + (i - old)
      BY <1>2, <1>3, <2>3, FilesWritten
    <3> QED
      BY <2>3, <3>1, FilesWritten
  <2> QED
    BY <1>2, <2>1, <2>2, <2>3
<1>4. \A i \in 1 .. Len(urls) : i \in 1 .. Len(job.reqs)
  BY <1>2 DEF Running
<1>5. \A p \in Path : \A i \in 1 .. Len(files'[p]) : files'[p][i].url \in seen
  BY <1>1, <1>3, <1>4 DEF Filtered
<1>6. ASSUME NEW p \in Path, NEW q \in Path, NEW i \in 1 .. Len(files'[p]),
             NEW j \in 1 .. Len(files'[q]), files'[p][i].url = files'[q][j].url
      PROVE  p = q /\ i = j
  <2>1. CASE /\ i \in 1 .. Len(files[p]) /\ files'[p][i] = files[p][i]
             /\ j \in 1 .. Len(files[q]) /\ files'[q][j] = files[q][j]
    BY <1>6, <2>1 DEF UrlOnce
  <2>2. CASE /\ i \in 1 .. Len(files[p]) /\ files'[p][i] = files[p][i]
             /\ j - old \in 1 .. Len(urls) /\ files'[q][j].url = job.reqs[j - old]
    BY <1>1, <1>4, <1>6, <2>2 DEF Filtered
  <2>3. CASE /\ i - old \in 1 .. Len(urls) /\ files'[p][i].url = job.reqs[i - old]
             /\ j \in 1 .. Len(files[q]) /\ files'[q][j] = files[q][j]
    BY <1>1, <1>4, <1>6, <2>3 DEF Filtered
  <2>4. CASE /\ p = job.path /\ i - old \in 1 .. Len(urls) /\ files'[p][i].url = job.reqs[i - old]
             /\ q = job.path /\ j - old \in 1 .. Len(urls) /\ files'[q][j].url = job.reqs[j - old]
    <3>1. i - old = j - old
      BY <1>1, <1>4, <1>6, <2>4 DEF Filtered
    <3> QED
      BY <1>2, <2>4, <3>1
  <2> QED
    BY <1>3, <2>1, <2>2, <2>3, <2>4
<1>7. UrlOnce'
  BY <1>6 DEF UrlOnce
<1> QED
  BY <1>5, <1>7

\* What the two steps write.
LEMMA WriteRowsWrites == ASSUME TypeOK, WriteRows PROVE job \in Running /\ Written(job.reqs)
<1>1. job \in Running
  BY DEF TypeOK, Idle, WriteRows
<1>2. job.reqs \in Seq(Url) /\ Len(job.reqs) \in Nat
  BY <1>1 DEF Running
<1> QED
  BY <1>1, <1>2 DEF WriteRows, Appended, Written

LEMMA WriteFailsWrites ==
  ASSUME TypeOK, WriteFails
  PROVE  job \in Running /\ \E urls \in Seq(Url) : Written(urls)
<1>1. job \in Running
  BY DEF TypeOK, Idle, WriteFails
<1>2. PICK n \in 0 .. Len(job.reqs) :
        files' = [files EXCEPT ![job.path] = @ \o Rows(SubSeq(job.reqs, 1, n))]
  BY DEF WriteFails
<1>3. job.reqs \in Seq(Url)
  BY <1>1 DEF Running
<1>4. /\ SubSeq(job.reqs, 1, n) \in Seq(Url) /\ Len(SubSeq(job.reqs, 1, n)) = n
      /\ \A i \in 1 .. n : SubSeq(job.reqs, 1, n)[i] = job.reqs[i]
  BY <1>3
<1>5. Written(SubSeq(job.reqs, 1, n))
  BY <1>2, <1>3, <1>4 DEF Written
<1> QED
  BY <1>1, <1>4, <1>5

LEMMA FilterKept ==
  ASSUME Filtered, UrlOnce, UNCHANGED <<seen, files>>, job' = Idle \/ (job # Idle /\ job'.reqs = job.reqs)
  PROVE  Filtered' /\ UrlOnce'
BY DEF Filtered, UrlOnce

LEMMA FilterStep == TypeOK /\ Filtered /\ UrlOnce /\ [Next]_vars => Filtered' /\ UrlOnce'
<1> SUFFICES ASSUME TypeOK, Filtered, UrlOnce, [Next]_vars PROVE Filtered' /\ UrlOnce'
  OBVIOUS
<1>0. job.at # "idle" => job \in Running /\ job # Idle
  BY DEF TypeOK, Idle
<1>1. ASSUME NEW p \in Path, SubmitTask(p) PROVE Filtered' /\ UrlOnce'
  <2>1. job'.reqs = <<>> /\ UNCHANGED <<seen, files>>
    BY <1>1 DEF SubmitTask
  <2> QED
    BY <2>1 DEF Filtered, UrlOnce
<1>2. ASSUME NEW url \in Url, ReadLine(url) \/ CutChunk(url) PROVE Filtered' /\ UrlOnce'
  BY <1>0, <1>2, FilterKept DEF ReadLine, CutChunk, Running
<1>3. ASSUME EndOfFile PROVE Filtered' /\ UrlOnce'
  BY <1>0, <1>3, FilterKept DEF EndOfFile, Running
<1>4. ASSUME ParseLine PROVE Filtered' /\ UrlOnce'
  <2> DEFINE url == Head(job.temp)
  <2>1. job \in Running /\ job # Idle
    BY <1>0, <1>4 DEF ParseLine
  <2>2. UNCHANGED files /\ seen' = seen \cup {url}
        /\ job'.reqs = IF IsNew(url) THEN Append(job.reqs, url) ELSE job.reqs
    BY <1>4, <2>1 DEF ParseLine, Running
  <2>3. UrlOnce'
    BY <2>2 DEF UrlOnce
  <2>4. \A p \in Path : \A i \in 1 .. Len(files'[p]) : files'[p][i].url \in seen'
    BY <2>2 DEF Filtered
  <2>5. job.reqs \in Seq(Url)
    BY <2>1 DEF Running
  <2>6. CASE IsNew(url)
    <3>1. url \notin seen
      BY <2>6 DEF IsNew
    <3>2. /\ Len(job'.reqs) = Len(job.reqs) + 1 /\ job'.reqs[Len(job.reqs) + 1] = url
          /\ \A i \in 1 .. Len(job.reqs) : job'.reqs[i] = job.reqs[i]
      BY <2>2, <2>5, <2>6
    <3>3. \A i \in 1 .. Len(job'.reqs) : i \in 1 .. Len(job.reqs) \/ i = Len(job.reqs) + 1
      BY <2>5, <3>2
    <3>4. \A i \in 1 .. Len(job'.reqs) : job'.reqs[i] \in seen'
      BY <2>1, <2>2, <3>2, <3>3 DEF Filtered
    <3>5. \A i, j \in 1 .. Len(job'.reqs) : job'.reqs[i] = job'.reqs[j] => i = j
      <4>1. \A i \in 1 .. Len(job.reqs) : job.reqs[i] \in seen
        BY <2>1 DEF Filtered
      <4>2. \A i, j \in 1 .. Len(job.reqs) : job.reqs[i] = job.reqs[j] => i = j
        BY <2>1 DEF Filtered
      <4>3. \A i \in 1 .. Len(job.reqs) : job'.reqs[i] # job'.reqs[Len(job.reqs) + 1]
        BY <3>1, <3>2, <4>1
      <4> QED
        BY <3>2, <3>3, <4>2, <4>3
    <3>6. \A i \in 1 .. Len(job'.reqs), p \in Path : \A j \in 1 .. Len(files'[p]) :
            files'[p][j].url # job'.reqs[i]
      BY <2>1, <2>2, <3>1, <3>2, <3>3 DEF Filtered
    <3> QED
      BY <2>3, <2>4, <3>4, <3>5, <3>6 DEF Filtered
  <2>7. CASE ~IsNew(url)
    <3>1. job'.reqs = job.reqs
      BY <2>2, <2>7
    <3> QED
      BY <2>1, <2>2, <2>3, <2>4, <3>1 DEF Filtered
  <2> QED
    BY <2>6, <2>7
<1>5. ASSUME WriteRows PROVE Filtered' /\ UrlOnce'
  <2>1. job \in Running /\ Written(job.reqs)
    BY <1>5, WriteRowsWrites
  <2>2. seen' = seen /\ job'.reqs = <<>>
    BY <1>5, <2>1 DEF WriteRows, Running
  <2> QED
    BY <2>1, <2>2, FilterWritten DEF Filtered
<1>6. ASSUME WriteFails PROVE Filtered' /\ UrlOnce'
  <2>1. seen' = seen /\ job' = Idle
    BY <1>6 DEF WriteFails, End
  <2> QED
    BY <1>6, <2>1, WriteFailsWrites, FilterWritten DEF Filtered
<1>7. ASSUME ReadFails \/ NothingNew \/ QueueRefused \/ OutOfMemory \/ AddLastBlock
      PROVE  Filtered' /\ UrlOnce'
  BY <1>7, FilterKept DEF ReadFails, NothingNew, QueueRefused, OutOfMemory, AddLastBlock, End
<1>8. ASSUME NEW rows \in Given, NEW slaves \in 0 .. MaxSlaves, ChooseRows(rows, slaves)
      PROVE  Filtered' /\ UrlOnce'
  BY <1>0, <1>8, FilterKept DEF ChooseRows, Running
<1>9. ASSUME ShrinkRows \/ AddBlock PROVE Filtered' /\ UrlOnce'
  BY <1>0, <1>9, FilterKept DEF ShrinkRows, AddBlock, Running
<1>10. ASSUME UNCHANGED vars PROVE Filtered' /\ UrlOnce'
  BY <1>10 DEF vars, Filtered, UrlOnce
<1> QED
  BY <1>1, <1>2, <1>3, <1>4, <1>5, <1>6, <1>7, <1>8, <1>9, <1>10 DEF Next, Step

-----------------------------------------------------------------------------
(* The pieces of the files.                                                *)

\* Steps that change neither files nor submissions, and keep what the running
\* constructor has counted.
LEMMA PiecesKept ==
  ASSUME Pieces, UNCHANGED <<files, past>>, job # Idle, job'.path = job.path,
         job'.offset = job.offset, job'.totalRow = job.totalRow
  PROVE  Pieces'
BY DEF Pieces, Piece

\* The constructor ends.
LEMMA PiecesEnded ==
  ASSUME TypeOK, Pieces, job \in Running, UNCHANGED files, NEW outcome, NEW blocks, End(outcome, blocks)
  PROVE  Pieces'
<1>1. job # Idle /\ past \in Seq(Submission)
  BY DEF TypeOK, Running, Idle
<1> DEFINE e == [path |-> job.path, outcome |-> outcome, blocks |-> blocks,
                 totalRow |-> job.totalRow, offset |-> job.offset,
                 urls |-> {job.lines[i] : i \in 1 .. Len(job.lines)}]
<1>2. past' = Append(past, e) /\ job' = Idle
  BY DEF End
<1>3. e.path = job.path /\ e.totalRow = job.totalRow /\ e.offset = job.offset
  OBVIOUS
<1> HIDE DEF e
<1>4. /\ Len(past') = Len(past) + 1 /\ past'[Len(past) + 1] = e
      /\ \A s \in 1 .. Len(past) : past'[s] = past[s]
  BY <1>1, <1>2
<1>5. ASSUME NEW s \in 1 .. Len(past'), past'[s].outcome = "submitted"
      PROVE  Piece(files'[past'[s].path], past'[s].offset, past'[s].totalRow, s)
  <2>1. CASE s \in 1 .. Len(past)
    BY <1>4, <1>5, <2>1 DEF Pieces, Piece
  <2>2. CASE s = Len(past) + 1
    BY <1>1, <1>3, <1>4, <2>2 DEF Pieces, Piece
  <2> QED
    BY <1>1, <1>4, <1>5, <2>1, <2>2
<1> QED
  BY <1>2, <1>5 DEF Pieces

\* Rows are added behind those that are there.
LEMMA PieceStays ==
  ASSUME NEW f, NEW g, NEW n \in Nat, NEW rows \in Nat, NEW s, Piece(f, n, rows, s),
         Len(f) \in Nat, Len(g) \in Nat, Len(f) <= Len(g), \A i \in 1 .. Len(f) : g[i] = f[i]
  PROVE  Piece(g, n, rows, s)
<1>1. ASSUME NEW r \in 1 .. rows PROVE g[n + r].by = s
  <2>1. n + r \in 1 .. Len(f)
    BY DEF Piece
  <2> QED
    BY <2>1 DEF Piece
<1> QED
  BY <1>1 DEF Piece

LEMMA PiecesWritten ==
  ASSUME TypeOK, Pieces, job \in Running, NEW urls, Written(urls)
  PROVE  \A s \in 1 .. Len(past) : past[s].outcome = "submitted" =>
           Piece(files'[past[s].path], past[s].offset, past[s].totalRow, s)
<1> SUFFICES ASSUME NEW s \in 1 .. Len(past), past[s].outcome = "submitted"
             PROVE  Piece(files'[past[s].path], past[s].offset, past[s].totalRow, s)
  OBVIOUS
<1>1. past[s] \in Submission
  BY DEF TypeOK
<1>2. past[s].path \in Path /\ past[s].offset \in Nat /\ past[s].totalRow \in Nat
  BY <1>1 DEF Submission
<1>3. Piece(files[past[s].path], past[s].offset, past[s].totalRow, s)
  BY DEF Pieces
<1>4. CASE past[s].path # job.path
  BY <1>2, <1>3, <1>4, FilesWritten
<1>5. CASE past[s].path = job.path
  <2>1. Len(files[job.path]) \in Nat /\ Len(urls) \in Nat
    BY <1>2, <1>5 DEF TypeOK, Written
  <2> DEFINE f == files[job.path]
             g == files'[job.path]
  <2>2. Len(g) = Len(f) + Len(urls) /\ \A i \in 1 .. Len(f) : g[i] = f[i]
    BY FilesWritten
  <2>3. Piece(f, past[s].offset, past[s].totalRow, s)
    BY <1>3, <1>5
  <2> HIDE DEF f, g
  <2>4. Len(f) \in Nat /\ Len(g) \in Nat /\ Len(f) <= Len(g)
    BY <2>1, <2>2 DEF f
  <2>5. Piece(g, past[s].offset, past[s].totalRow, s)
    BY <1>2, <2>2, <2>3, <2>4, PieceStays
  <2> QED
    BY <1>5, <2>5 DEF g
<1> QED
  BY <1>4, <1>5

LEMMA PieceStep == TypeOK /\ Pieces /\ [Next]_vars => Pieces'
<1> SUFFICES ASSUME TypeOK, Pieces, [Next]_vars PROVE Pieces'
  OBVIOUS
<1>0. job.at # "idle" => job \in Running /\ job # Idle
  BY DEF TypeOK, Idle
<1>1. ASSUME NEW p \in Path, SubmitTask(p) PROVE Pieces'
  <2>1. job'.path = p /\ job'.offset = Len(files[p]) /\ job'.totalRow = 0 /\ UNCHANGED <<files, past>>
    BY <1>1 DEF SubmitTask
  <2>2. Len(files[p]) \in Nat
    BY DEF TypeOK
  <2> QED
    BY <2>1, <2>2 DEF Pieces, Piece
<1>2. ASSUME NEW url \in Url, ReadLine(url) \/ CutChunk(url) PROVE Pieces'
  BY <1>0, <1>2, PiecesKept DEF ReadLine, CutChunk, Running
<1>3. ASSUME EndOfFile \/ ParseLine PROVE Pieces'
  BY <1>0, <1>3, PiecesKept DEF EndOfFile, ParseLine, Running
<1>4. ASSUME WriteRows PROVE Pieces'
  <2> DEFINE f == files[job.path]
             g == files'[job.path]
             n == job.offset
             old == job.totalRow
             k == Len(job.reqs)
  <2>1. job \in Running /\ Written(job.reqs) /\ job # Idle
    BY <1>4, WriteRowsWrites DEF Running, Idle
  <2>2. /\ job'.path = job.path /\ job'.offset = job.offset /\ UNCHANGED past
        /\ job'.totalRow = job.totalRow + k
    BY <1>4, <2>1 DEF WriteRows, Running
  <2>3. n \in Nat /\ old \in Nat /\ k \in Nat
    BY <2>1 DEF Running
  <2>4. Len(f) = n + old /\ \A r \in 1 .. old : f[n + r].by = Len(past) + 1
    BY <2>1 DEF Pieces, Piece
  <2>5. /\ Len(g) = Len(f) + k
        /\ \A i \in 1 .. Len(f) : g[i] = f[i]
        /\ \A i \in 1 .. k : g[Len(f) + i].by = Len(past) + 1
    BY <2>1, FilesWritten
  <2> HIDE DEF f, g, n, old, k
  <2>6. ASSUME NEW r \in 1 .. old + k PROVE g[n + r].by = Len(past) + 1
    <3>1. CASE r <= old
      <4>1. n + r \in 1 .. Len(f) /\ r \in 1 .. old
        BY <2>3, <2>4, <3>1
      <4> QED
        BY <2>4, <2>5, <4>1
    <3>2. CASE r > old
      <4>1. r - old \in 1 .. k /\ n + r = Len(f) + (r - old)
        BY <2>3, <2>4, <3>2
      <4> QED
        BY <2>5, <4>1
    <3> QED
      BY <2>3, <3>1, <3>2
  <2>7. Len(g) = n + (old + k) /\ Piece(g, n, old + k, Len(past) + 1)
    BY <2>3, <2>4, <2>5, <2>6 DEF Piece
  <2> QED
    BY <2>1, <2>2, <2>7, PiecesWritten DEF Pieces, g, n, old, k
<1>5. ASSUME WriteFails PROVE Pieces'
  <2>1. job \in Running /\ End("failed", <<>>)
    BY <1>5, WriteFailsWrites DEF WriteFails
  <2>2. PICK urls : Written(urls)
    BY <1>5, WriteFailsWrites
  <2>3. past \in Seq(Submission)
    BY DEF TypeOK
  <2>4. /\ Len(past') = Len(past) + 1 /\ past'[Len(past) + 1].outcome = "failed"
        /\ \A s \in 1 .. Len(past) : past'[s] = past[s]
    BY <2>1, <2>3 DEF End
  <2>5. job' = Idle
    BY <2>1 DEF End
  <2>6. \A s \in 1 .. Len(past') : s \in 1 .. Len(past) \/ s = Len(past) + 1
    BY <2>3, <2>4
  <2> QED
    BY <2>1, <2>2, <2>4, <2>5, <2>6, PiecesWritten DEF Pieces
<1>6. ASSUME ReadFails \/ NothingNew \/ QueueRefused \/ OutOfMemory \/ AddLastBlock PROVE Pieces'
  BY <1>0, <1>6, PiecesEnded DEF ReadFails, NothingNew, QueueRefused, OutOfMemory, AddLastBlock
<1>7. ASSUME NEW rows \in Given, NEW slaves \in 0 .. MaxSlaves, ChooseRows(rows, slaves) PROVE Pieces'
  BY <1>0, <1>7, PiecesKept DEF ChooseRows, Running
<1>8. ASSUME ShrinkRows \/ AddBlock PROVE Pieces'
  BY <1>0, <1>8, PiecesKept DEF ShrinkRows, AddBlock, Running
<1>9. ASSUME UNCHANGED vars PROVE Pieces'
  BY <1>9 DEF vars, Pieces, Piece
<1> QED
  BY <1>1, <1>2, <1>3, <1>4, <1>5, <1>6, <1>7, <1>8, <1>9 DEF Next, Step

-----------------------------------------------------------------------------
(* The blocks.                                                             *)

\* What BlocksTile says of one submission.
Tiles(bs, totalRow) ==
  /\ bs # <<>> /\ bs[1].start = 1 /\ bs[Len(bs)].end = totalRow
  /\ \A i \in 1 .. Len(bs) : bs[i].size = bs[i].end - bs[i].start + 1 /\ bs[i].size > 0
  /\ \A i \in 2 .. Len(bs) : bs[i].start = bs[i - 1].end + 1

\* Full blocks and the last one tile the rows.
LEMMA CutTiles ==
  ASSUME NEW full \in Seq(BlockType), NEW rows \in Nat \ {0}, NEW total \in Nat,
         Len(full) * rows < total,
         \A b \in 1 .. Len(full) :
            full[b] = [start |-> (b - 1) * rows + 1, end |-> b * rows, size |-> rows],
         NEW last,
         last = [start |-> Len(full) * rows + 1, end |-> total, size |-> total - Len(full) * rows]
  PROVE  Tiles(Append(full, last), total)
<1> DEFINE n == Len(full)
           bs == Append(full, last)
<1>1. n \in Nat /\ n * rows \in Nat
  OBVIOUS
<1>2. last.start = n * rows + 1 /\ last.end = total /\ last.size = total - n * rows
  OBVIOUS
<1>3. \A b \in 1 .. n : /\ full[b].start = (b - 1) * rows + 1 /\ full[b].end = b * rows
                        /\ full[b].size = rows
  <2> SUFFICES ASSUME NEW b \in 1 .. n
               PROVE  /\ full[b].start = (b - 1) * rows + 1 /\ full[b].end = b * rows
                      /\ full[b].size = rows
    OBVIOUS
  <2>1. full[b] = [start |-> (b - 1) * rows + 1, end |-> b * rows, size |-> rows]
    OBVIOUS
  <2> DEFINE s == (b - 1) * rows + 1
             e == b * rows
  <2>2. full[b] = [start |-> s, end |-> e, size |-> rows]
    BY <2>1
  <2> HIDE DEF s, e
  <2>3. full[b].start = s /\ full[b].end = e /\ full[b].size = rows
    BY ONLY <2>2
  <2> QED
    BY <2>3 DEF s, e
<1>4. Len(bs) = n + 1 /\ bs[n + 1] = last /\ \A b \in 1 .. n : bs[b] = full[b]
  OBVIOUS
<1> HIDE DEF n, bs
<1>5. bs # <<>> /\ bs[Len(bs)].end = total
  BY <1>1, <1>2, <1>4
<1>6. bs[1].start = 1
  <2>1. CASE n = 0
    BY <1>2, <1>4, <2>1
  <2>2. CASE n # 0
    <3>1. 1 \in 1 .. n
      BY <1>1, <2>2
    <3>2. bs[1].start = (1 - 1) * rows + 1
      BY <1>3, <1>4, <3>1
    <3> QED
      BY <3>2
  <2> QED
    BY <2>1, <2>2
<1>7. ASSUME NEW i \in 1 .. Len(bs)
      PROVE  bs[i].size = bs[i].end - bs[i].start + 1 /\ bs[i].size > 0
  <2>1. CASE i \in 1 .. n
    <3>1. bs[i].start = (i - 1) * rows + 1 /\ bs[i].end = i * rows /\ bs[i].size = rows
      BY <1>3, <1>4, <2>1
    <3>2. (i - 1) * rows = i * rows - rows /\ i * rows \in Int
      BY <1>1, <2>1
    <3> QED
      BY <3>1, <3>2
  <2>2. CASE i = n + 1
    <3>1. bs[i].start = n * rows + 1 /\ bs[i].end = total /\ bs[i].size = total - n * rows
      BY <1>2, <1>4, <2>2
    <3>2. n * rows < total
      BY DEF n
    <3> QED
      BY <1>1, <3>1, <3>2
  <2> QED
    BY <1>1, <1>4, <1>7, <2>1, <2>2
<1>8. ASSUME NEW i \in 2 .. Len(bs) PROVE bs[i].start = bs[i - 1].end + 1
  <2>1. i - 1 \in 1 .. n /\ bs[i - 1].end = (i - 1) * rows
    <3>1. i - 1 \in 1 .. n
      BY <1>1, <1>4, <1>8
    <3> QED
      BY Zenon, <1>3, <1>4, <3>1
  <2>2. CASE i \in 1 .. n
    BY <1>3, <1>4, <2>1, <2>2
  <2>3. CASE i = n + 1
    <3>1. bs[i].start = n * rows + 1 /\ i - 1 = n
      BY <1>1, <1>2, <1>4, <2>3
    <3> QED
      BY <2>1, <3>1
  <2> QED
    BY <1>1, <1>4, <1>8, <2>2, <2>3
<1>9. Tiles(bs, total)
  BY <1>5, <1>6, <1>7, <1>8 DEF Tiles
<1> QED
  BY <1>9 DEF bs

LEMMA TilesIsBlocksTile ==
  BlocksTile <=> \A s \in Submitted : Tiles(past[s].blocks, past[s].totalRow)
BY DEF BlocksTile, Tiles

\* The constructor ends, and if it has succeeded its blocks tile.
LEMMA TileEnded ==
  ASSUME TypeOK, BlocksTile, NEW outcome, NEW blocks, End(outcome, blocks),
         outcome = "submitted" => Tiles(blocks, job.totalRow)
  PROVE  BlocksTile'
<1> DEFINE e == [path |-> job.path, outcome |-> outcome, blocks |-> blocks,
                 totalRow |-> job.totalRow, offset |-> job.offset,
                 urls |-> {job.lines[i] : i \in 1 .. Len(job.lines)}]
<1>1. past \in Seq(Submission) /\ past' = Append(past, e)
  BY DEF TypeOK, End
<1>2. e.outcome = outcome /\ e.blocks = blocks /\ e.totalRow = job.totalRow
  OBVIOUS
<1> HIDE DEF e
<1>3. /\ Len(past') = Len(past) + 1 /\ past'[Len(past) + 1] = e
      /\ \A s \in 1 .. Len(past) : past'[s] = past[s]
  BY <1>1
<1>4. ASSUME NEW s \in 1 .. Len(past'), past'[s].outcome = "submitted"
      PROVE  Tiles(past'[s].blocks, past'[s].totalRow)
  <2>1. CASE s \in 1 .. Len(past)
    BY <1>3, <1>4, <2>1, TilesIsBlocksTile DEF Submitted
  <2>2. CASE s = Len(past) + 1
    BY <1>2, <1>3, <1>4, <2>2
  <2> QED
    BY <1>1, <1>3, <1>4, <2>1, <2>2
<1> QED
  BY <1>4 DEF BlocksTile, Submitted, Tiles

LEMMA BlockStep == TypeOK /\ BlocksCut /\ BlocksTile /\ [Next]_vars => BlocksCut' /\ BlocksTile'
<1> SUFFICES ASSUME TypeOK, BlocksCut, BlocksTile, [Next]_vars PROVE BlocksCut' /\ BlocksTile'
  OBVIOUS
<1> USE FileAssumption
<1>0. job.at # "idle" => job \in Running
  BY DEF TypeOK, Idle
<1>1. past' = past => BlocksTile'
  BY DEF BlocksTile, Submitted
<1>2. job' = Idle => BlocksCut'
  BY DEF BlocksCut, Idle
<1>3. ASSUME NEW p \in Path, SubmitTask(p) PROVE BlocksCut' /\ BlocksTile'
  <2>1. job'.at = "read" /\ job'.blocks = <<>> /\ past' = past
    BY <1>3 DEF SubmitTask
  <2> QED
    BY <1>1, <2>1 DEF BlocksCut
<1>4. ASSUME job \in Running, job.at \in {"read", "parse"}, past' = past,
             job'.at \in {"read", "parse", "size"}, job'.blocks = job.blocks
      PROVE  BlocksCut' /\ BlocksTile'
  BY <1>1, <1>4 DEF BlocksCut
<1>5. ASSUME NEW url \in Url, ReadLine(url) \/ CutChunk(url) PROVE BlocksCut' /\ BlocksTile'
  BY <1>0, <1>4, <1>5 DEF ReadLine, CutChunk, Running
<1>6. ASSUME EndOfFile \/ ParseLine PROVE BlocksCut' /\ BlocksTile'
  BY <1>0, <1>4, <1>6 DEF EndOfFile, ParseLine, Running
<1>7. ASSUME WriteRows PROVE BlocksCut' /\ BlocksTile'
  BY <1>0, <1>4, <1>7 DEF WriteRows, Running
<1>8. ASSUME ReadFails \/ WriteFails \/ NothingNew \/ QueueRefused \/ OutOfMemory
      PROVE  BlocksCut' /\ BlocksTile'
  <2>1. \E outcome \in {"failed", "finished", "untold"} : End(outcome, <<>>)
    BY <1>8 DEF ReadFails, WriteFails, NothingNew, QueueRefused, OutOfMemory
  <2>2. job' = Idle
    BY <2>1 DEF End
  <2> QED
    BY <1>2, <2>1, <2>2, TileEnded
<1>9. ASSUME NEW rows \in Given, NEW slaves \in 0 .. MaxSlaves, ChooseRows(rows, slaves)
      PROVE  BlocksCut' /\ BlocksTile'
  <2> DEFINE modcount == IF slaves = 0 THEN 1 ELSE slaves
             quotient == job.totalRow \div modcount
  <2>1. job \in Running /\ job.at = "size" /\ job.totalRow > 0 /\ past' = past
    BY <1>0, <1>9 DEF ChooseRows
  <2>2. job.blocks = <<>> /\ job.totalRow \in Nat
    BY <2>1 DEF BlocksCut, Running
  <2>3. quotient \in Int
    BY <2>2
  <2>4. \/ job' = [job EXCEPT !.at = "shrink", !.modcount = modcount, !.rowPerBlock = quotient]
        \/ job' = [job EXCEPT !.at = "cut", !.rowPerBlock = rows] /\ rows \in Int
    BY <1>9 DEF ChooseRows
  <2> HIDE DEF modcount, quotient
  <2>5. /\ job'.at \in {"shrink", "cut"} /\ job'.rowPerBlock \in Int
        /\ job'.blocks = <<>> /\ job'.totalRow = job.totalRow
    BY <2>1, <2>2, <2>3, <2>4 DEF Running
  <2>6. Len(<<>>) = 0 /\ 0 * job'.rowPerBlock = 0
    BY <2>5
  <2> QED
    BY <1>1, <2>1, <2>5, <2>6 DEF BlocksCut
<1>10. ASSUME ShrinkRows PROVE BlocksCut' /\ BlocksTile'
  <2> DEFINE quotient == job.rowPerBlock \div job.modcount
  <2>1. job \in Running /\ job.at = "shrink" /\ past' = past
    BY <1>0, <1>10 DEF ShrinkRows
  <2>2. /\ job.rowPerBlock \in Int /\ job.modcount \in Nat \ {0} /\ job.blocks = <<>>
        /\ job.totalRow > 0
    BY <2>1 DEF Running, BlocksCut
  <2>3. quotient \in Int
    BY <2>2
  <2>4. \/ job' = [job EXCEPT !.rowPerBlock = quotient]
        \/ job' = [job EXCEPT !.at = "cut"]
    BY <1>10, <2>1 DEF ShrinkRows, Running
  <2> HIDE DEF quotient
  <2>5. /\ job'.at \in {"shrink", "cut"} /\ job'.rowPerBlock \in Int
        /\ job'.blocks = <<>> /\ job'.totalRow = job.totalRow
    BY <2>1, <2>2, <2>3, <2>4 DEF Running
  <2>6. Len(<<>>) = 0 /\ 0 * job'.rowPerBlock = 0
    BY <2>5
  <2> QED
    BY <1>1, <2>1, <2>2, <2>5, <2>6 DEF BlocksCut
<1>11. ASSUME AddBlock PROVE BlocksCut' /\ BlocksTile'
  <2> DEFINE n == Len(job.blocks)
  <2>1. job \in Running /\ job.at = "cut" /\ past' = past /\ BlocksLeft
    BY <1>0, <1>11 DEF AddBlock
  <2>2. /\ job.rowPerBlock \in Int /\ job.blocks \in Seq(BlockType) /\ job.totalRow \in Nat
        /\ job.totalRow > 0 /\ \A b \in 1 .. n : job.blocks[b] = FullBlock(b)
    BY <2>1 DEF Running, BlocksCut
  <2>3. /\ job'.at = "cut" /\ job'.rowPerBlock = job.rowPerBlock /\ job'.totalRow = job.totalRow
        /\ job'.blocks = Append(job.blocks, FullBlock(n + 1))
    BY <1>11, <2>1 DEF AddBlock, Running
  <2>4. /\ Len(job'.blocks) = n + 1 /\ job'.blocks[n + 1] = FullBlock(n + 1)
        /\ \A b \in 1 .. n : job'.blocks[b] = job.blocks[b]
    BY <2>2, <2>3
  <2>5. \A b \in 1 .. Len(job'.blocks) : job'.blocks[b] = FullBlock(b)
    BY <2>2, <2>4
  <2>6. \A b \in 1 .. Len(job'.blocks) : job'.blocks[b] = FullBlock(b)'
    BY <2>3, <2>5 DEF FullBlock
  <2>7. job'.rowPerBlock > 0 => Len(job'.blocks) * job'.rowPerBlock < job'.totalRow
    BY <2>1, <2>3, <2>4 DEF BlocksLeft
  <2> QED
    BY <1>1, <2>1, <2>2, <2>3, <2>6, <2>7 DEF BlocksCut
<1>12. ASSUME AddLastBlock PROVE BlocksCut' /\ BlocksTile'
  <2> DEFINE last == LastBlock(Len(job.blocks) * job.rowPerBlock)
  <2>1. job \in Running /\ job.at = "cut" /\ job.rowPerBlock >= 0 /\ ~BlocksLeft
        /\ End("submitted", Append(job.blocks, last))
    BY <1>0, <1>12 DEF AddLastBlock
  <2>2. /\ job.rowPerBlock \in Int /\ job.blocks \in Seq(BlockType) /\ job.totalRow \in Nat
        /\ \A b \in 1 .. Len(job.blocks) : job.blocks[b] = FullBlock(b)
    BY <2>1 DEF Running, BlocksCut
  <2>3. job.rowPerBlock \in Nat \ {0}
    BY <2>1, <2>2 DEF BlocksLeft
  <2>4. Len(job.blocks) * job.rowPerBlock < job.totalRow
    BY <2>1, <2>3 DEF BlocksCut
  <2>5. Tiles(Append(job.blocks, last), job.totalRow)
    BY <2>2, <2>3, <2>4, CutTiles DEF FullBlock, LastBlock
  <2>6. job' = Idle
    BY <2>1 DEF End
  <2> HIDE DEF last
  <2> QED
    BY <1>2, <2>1, <2>5, <2>6, TileEnded
<1>13. ASSUME UNCHANGED vars PROVE BlocksCut' /\ BlocksTile'
  BY <1>1, <1>13 DEF vars, BlocksCut, FullBlock
<1> QED
  BY <1>3, <1>5, <1>6, <1>7, <1>8, <1>9, <1>10, <1>11, <1>12, <1>13 DEF Next, Step

-----------------------------------------------------------------------------
(* The theorems.                                                           *)

LEMMA InitInv == Init => Inv
<1> SUFFICES ASSUME Init PROVE Inv
  OBVIOUS
<1>1. /\ Idle.at = "idle" /\ job = Idle /\ past = <<>> /\ seen \subseteq Url
      /\ files = [p \in Path |-> <<>>]
  BY DEF Init, Idle
<1>2. <<>> \in Seq(Submission) /\ <<>> \in Seq([url : Url, by : Nat]) /\ Len(<<>>) = 0
  OBVIOUS
<1>3. TypeOK
  BY <1>1, <1>2 DEF TypeOK
<1>4. Chunked /\ BlocksCut
  BY <1>1 DEF Chunked, BlocksCut
<1>5. Filtered /\ UrlOnce
  BY <1>1, <1>2 DEF Filtered, UrlOnce
<1>6. Pieces /\ BlocksTile
  BY <1>1, <1>2 DEF Pieces, BlocksTile, Submitted
<1> QED
  BY <1>3, <1>4, <1>5, <1>6 DEF Inv

\* The invariant holds however often and with whatever files the constructor is
\* called, and wherever it fails.
THEOREM AlwaysInv == Spec => []Inv
<1>1. Inv /\ [Next]_vars => Inv'
  BY TypeStep, FilterStep, PieceStep, BlockStep DEF Inv
<1> QED
  BY <1>1, InitInv, PTL DEF Spec

\* Type correctness; a temporary file never has more lines than a chunk
\* (Task.java:94-118).
THEOREM FileTypeCorrect == Spec => []TypeOK
<1>1. Inv => TypeOK
  BY DEF Inv
<1> QED
  BY <1>1, AlwaysInv, PTL

\* No URL is a row twice, in whatever files and submissions it comes
\* (TaskFileParseProxyFacotry.java:61-71, BdbUriUniqFilter.java:250-263).
THEOREM UrlIsOneRow == Spec => []UrlOnce
<1>1. Inv => UrlOnce
  BY DEF Inv
<1> QED
  BY <1>1, AlwaysInv, PTL

\* The blocks of a task tile its rows, for every number of rows and every
\* block size (Task.java:153-180).
THEOREM BlocksTileRows == Spec => []BlocksTile
<1>1. Inv => BlocksTile
  BY DEF Inv
<1> QED
  BY <1>1, AlwaysInv, PTL

\* The rows of a task are one piece of its file and stay there
\* (Task.java:106-134).
THEOREM RowsAreOnePiece == Spec => []RowsStayTogether
<1>1. Inv => RowsStayTogether
  BY DEF Inv, Pieces, Piece, RowsStayTogether, Submitted
<1> QED
  BY <1>1, AlwaysInv, PTL
-----------------------------------------------------------------------------
(* The new URLs of a file.                                                 *)

UrlsOf(s) == {s[i] : i \in 1 .. Len(s)}

\* The URLs of the submission's rows, and of its lines that do not cut a chunk.
RowUrls  == {files[job.path][r].url : r \in job.offset + 1 .. Len(files[job.path])}
KeptUrls == {job.lines[i] : i \in {i \in 1 .. Len(job.lines) : ~Cut(i)}}

\* What was taken into the filter since the submission began is a row or waits
\* to be one, and it is, with the lines of the temporary file, what the kept
\* lines have.
Collected == job # Idle =>
  /\ job.known \subseteq seen
  /\ RowUrls \cup UrlsOf(job.reqs) = seen \ job.known
  /\ seen \cup UrlsOf(job.temp) = job.known \cup KeptUrls

\* Where the lines are: a chunk ends at a multiple of its size, the line after
\* it is the one that cuts it, and is already read when the next one begins.
LinesCut ==
  /\ job.at \in {"read", "parse"} => \E k \in Nat : job.floor = k * Chunk
  /\ job.at = "read" => /\ Len(job.lines) <= job.floor + Chunk
                        /\ job.floor = 0 \/ job.floor < Len(job.lines)
  /\ job.at = "parse" /\ ~job.last => Len(job.lines) = job.floor + Chunk + 1
  /\ job.at \in {"size", "shrink", "cut"} => job.temp = <<>> /\ job.reqs = <<>>

LEMMA UrlsOfSteps ==
  ASSUME NEW s \in Seq(Url), NEW url \in Url
  PROVE  /\ UrlsOf(Append(s, url)) = UrlsOf(s) \cup {url}
         /\ s # <<>> => UrlsOf(s) = {Head(s)} \cup UrlsOf(Tail(s))
         /\ UrlsOf(<<>>) = {}
<1>1. UrlsOf(Append(s, url)) = UrlsOf(s) \cup {url}
  <2> DEFINE t == Append(s, url)
  <2>1. /\ Len(t) = Len(s) + 1 /\ t[Len(s) + 1] = url /\ Len(s) \in Nat
        /\ \A i \in 1 .. Len(s) : t[i] = s[i]
    OBVIOUS
  <2> HIDE DEF t
  <2>2. ASSUME NEW u PROVE u \in UrlsOf(t) <=> u \in UrlsOf(s) \cup {url}
    <3>1. \A i \in 1 .. Len(t) : i \in 1 .. Len(s) \/ i = Len(s) + 1
      BY <2>1
    <3>2. (Len(s) + 1) \in 1 .. Len(t) /\ \A i \in 1 .. Len(s) : i \in 1 .. Len(t)
      BY <2>1
    <3> QED
      BY <2>1, <3>1, <3>2 DEF UrlsOf
  <2> QED
    BY <2>2 DEF t
<1>2. ASSUME s # <<>> PROVE UrlsOf(s) = {Head(s)} \cup UrlsOf(Tail(s))
  <2> DEFINE t == Tail(s)
  <2>1. /\ Len(t) = Len(s) - 1 /\ Head(s) = s[1] /\ Len(s) \in Nat \ {0}
        /\ \A i \in 1 .. Len(t) : t[i] = s[i + 1]
    BY <1>2
  <2> HIDE DEF t
  <2>2. ASSUME NEW i \in 1 .. Len(s) PROVE s[i] \in {Head(s)} \cup UrlsOf(t)
    <3>1. CASE i = 1
      BY <2>1, <3>1
    <3>2. CASE i # 1
      <4>1. (i - 1) \in 1 .. Len(t) /\ t[i - 1] = s[i]
        BY <2>1, <3>2
      <4> QED
        BY <4>1 DEF UrlsOf
    <3> QED
      BY <3>1, <3>2
  <2>3. ASSUME NEW i \in 1 .. Len(t) PROVE t[i] \in UrlsOf(s)
    <3>1. (i + 1) \in 1 .. Len(s) /\ t[i] = s[i + 1]
      BY <2>1
    <3> QED
      BY <3>1 DEF UrlsOf
  <2>4. Head(s) \in UrlsOf(s)
    BY <2>1 DEF UrlsOf
  <2> QED
    BY <2>2, <2>3, <2>4 DEF UrlsOf, t
<1>3. UrlsOf(<<>>) = {}
  BY DEF UrlsOf
<1> QED
  BY <1>1, <1>2, <1>3

\* A remainder is zero at the multiples, and between two of them it is not.
LEMMA Multiples ==
  ASSUME NEW k \in Nat, NEW j \in 0 .. Chunk - 1
  PROVE  (k * Chunk + j) % Chunk = 0 <=> j = 0
<1> DEFINE n == k * Chunk + j
           q == n \div Chunk
           r == n % Chunk
<1>1. Chunk \in Nat \ {0}
  BY FileAssumption
<1>2. k * Chunk \in Nat /\ n \in Nat
  BY <1>1
<1>3. q \in Int /\ r \in 0 .. Chunk - 1 /\ n = Chunk * q + r
  BY <1>1, <1>2
<1> HIDE DEF q, r
<1>4. j - r = (q - k) * Chunk
  BY <1>1, <1>3
<1>5. CASE q - k >= 1
  <2>1. (q - k) * Chunk >= Chunk
    BY <1>1, <1>3, <1>5
  <2> QED
    BY <1>1, <1>3, <1>4, <2>1
<1>6. CASE q - k <= -1
  <2>1. (q - k) * Chunk <= -Chunk
    BY <1>1, <1>3, <1>6
  <2> QED
    BY <1>1, <1>3, <1>4, <2>1
<1>7. CASE q - k = 0
  <2>1. j = r
    BY <1>1, <1>3, <1>4, <1>7
  <2> QED
    BY <2>1 DEF r
<1> QED
  BY <1>3, <1>5, <1>6, <1>7

\* A line that goes into the temporary file cuts no chunk; one that does not
\* cuts it.
LEMMA KeptOrCut ==
  ASSUME TypeOK, LinesCut, job.at = "read", job \in Running
  PROVE  /\ InChunk => ~Cut(No)
         /\ ~InChunk => Cut(No) /\ No = job.floor + Chunk + 1
<1>1. Chunk \in Nat \ {0} /\ Len(job.lines) \in Nat
  BY FileAssumption DEF Running
<1>2. PICK k \in Nat : job.floor = k * Chunk
  BY DEF LinesCut
<1>3. /\ job.floor \in Nat /\ Len(job.lines) <= job.floor + Chunk
      /\ job.floor = 0 \/ job.floor < Len(job.lines)
  BY DEF LinesCut, Running
<1>4. CASE InChunk
  <2>1. CASE No = 1
    BY <1>4, <2>1 DEF Cut
  <2>2. CASE No # 1
    <3> DEFINE j == No - 1 - job.floor
    <3>1. j \in 0 .. Chunk - 1 /\ j # 0 /\ No - 1 = k * Chunk + j
      BY <1>1, <1>2, <1>3, <1>4, <2>2 DEF InChunk, No
    <3> HIDE DEF j
    <3>2. (k * Chunk + j) % Chunk # 0
      BY <3>1, Multiples
    <3> QED
      BY <1>4, <3>1, <3>2 DEF Cut
  <2> QED
    BY <2>1, <2>2
<1>5. CASE ~InChunk
  <2>1. No = job.floor + Chunk + 1
    BY <1>1, <1>3, <1>5 DEF InChunk, No
  <2>2. k + 1 \in Nat /\ 0 \in 0 .. Chunk - 1 /\ No - 1 = (k + 1) * Chunk + 0 /\ No > 1
    BY <1>1, <1>2, <1>3, <2>1
  <2>3. ((k + 1) * Chunk + 0) % Chunk = 0
    BY <2>2, Multiples
  <2> QED
    BY <1>5, <2>1, <2>2, <2>3 DEF Cut
<1> QED
  BY <1>4, <1>5

\* A line is added to those of the file.
LEMMA LineAdded ==
  ASSUME TypeOK, job \in Running, NEW url \in Url, job' \in Running, job'.lines = Append(job.lines, url)
  PROVE  KeptUrls' = KeptUrls \cup (IF Cut(No) THEN {} ELSE {url})
<1> DEFINE s == job.lines
           t == job'.lines
<1>1. /\ Len(t) = Len(s) + 1 /\ t[Len(s) + 1] = url /\ Len(s) \in Nat /\ No = Len(s) + 1
      /\ \A i \in 1 .. Len(s) : t[i] = s[i]
  <2>1. job.lines \in Seq(Url) /\ No = Len(job.lines) + 1
    BY DEF Running, No
  <2> DEFINE l == job.lines
  <2>2. t = Append(l, url)
    OBVIOUS
  <2>3. l \in Seq(Url)
    BY <2>1
  <2> HIDE DEF l, t
  <2>4. /\ Len(t) = Len(l) + 1 /\ t[Len(l) + 1] = url /\ Len(l) \in Nat
        /\ \A i \in 1 .. Len(l) : t[i] = l[i]
    BY <2>2, <2>3
  <2> QED
    BY <2>1, <2>4 DEF l, t
<1>2. /\ KeptUrls = {s[i] : i \in {i \in 1 .. Len(s) : ~Cut(i)}}
      /\ KeptUrls' = {t[i] : i \in {i \in 1 .. Len(t) : ~Cut(i)}}
  BY DEF KeptUrls
<1> HIDE DEF s, t
<1>3. \A i \in 1 .. Len(t) : i \in 1 .. Len(s) \/ i = No
  BY <1>1
<1>4. No \in 1 .. Len(t) /\ \A i \in 1 .. Len(s) : i \in 1 .. Len(t)
  BY <1>1
<1>5. \A u \in KeptUrls' : u \in KeptUrls \cup (IF Cut(No) THEN {} ELSE {url})
  BY <1>1, <1>2, <1>3
<1>6. \A u \in KeptUrls : u \in KeptUrls'
  BY <1>1, <1>2, <1>4
<1>7. ~Cut(No) => url \in KeptUrls'
  BY <1>1, <1>2, <1>4
<1> QED
  BY <1>5, <1>6, <1>7

\* The chunk's requests become rows.
LEMMA RowsAdded ==
  ASSUME TypeOK, Pieces, job \in Running, Written(job.reqs), job'.path = job.path, job'.offset = job.offset
  PROVE  RowUrls' = RowUrls \cup UrlsOf(job.reqs)
<1> DEFINE f == files[job.path]
           g == files'[job.path]
           n == job.offset
           reqs == job.reqs
<1>1. /\ n \in Nat /\ n <= Len(f) /\ Len(f) \in Nat /\ Len(reqs) \in Nat
      /\ RowUrls = {f[r].url : r \in n + 1 .. Len(f)} /\ RowUrls' = {g[r].url : r \in n + 1 .. Len(g)}
  <2>1. job # Idle /\ job.totalRow \in Nat /\ job.offset \in Nat /\ job.path \in Path /\ reqs \in Seq(Url)
    BY DEF Running, Idle
  <2>2. Len(f) = job.offset + job.totalRow
    BY <2>1 DEF Pieces
  <2> QED
    BY <2>1, <2>2 DEF RowUrls
<1>2. /\ Len(g) = Len(f) + Len(reqs)
      /\ \A i \in 1 .. Len(f) : g[i] = f[i]
      /\ \A i \in 1 .. Len(reqs) : g[Len(f) + i].url = reqs[i]
  BY FilesWritten
<1> HIDE DEF f, g, n, reqs
<1>3. ASSUME NEW r \in n + 1 .. Len(g) PROVE g[r].url \in RowUrls \cup UrlsOf(reqs)
  <2>1. CASE r <= Len(f)
    <3>1. r \in n + 1 .. Len(f) /\ r \in 1 .. Len(f)
      BY <1>1, <2>1
    <3> QED
      BY <1>1, <1>2, <3>1
  <2>2. CASE r > Len(f)
    <3>1. r - Len(f) \in 1 .. Len(reqs) /\ r = Len(f) + (r - Len(f))
      BY <1>1, <1>2, <2>2
    <3> QED
      BY <1>2, <3>1 DEF UrlsOf
  <2> QED
    BY <1>1, <2>1, <2>2
<1>4. ASSUME NEW r \in n + 1 .. Len(f) PROVE f[r].url \in RowUrls'
  <2>1. r \in n + 1 .. Len(g) /\ g[r] = f[r]
    BY <1>1, <1>2
  <2> QED
    BY <1>1, <2>1
<1>5. ASSUME NEW i \in 1 .. Len(reqs) PROVE reqs[i] \in RowUrls'
  <2>1. Len(f) + i \in n + 1 .. Len(g) /\ g[Len(f) + i].url = reqs[i]
    BY <1>1, <1>2
  <2> QED
    BY <1>1, <2>1
<1>6. \A u \in RowUrls' : u \in RowUrls \cup UrlsOf(reqs)
  BY <1>1, <1>3
<1>7. \A u \in RowUrls : u \in RowUrls'
  BY <1>1, <1>4
<1>8. \A u \in UrlsOf(reqs) : u \in RowUrls'
  BY <1>5 DEF UrlsOf
<1> QED
  BY <1>6, <1>7, <1>8 DEF reqs

\* A step that keeps all that Collected is about.
LEMMA CollectedKept ==
  ASSUME Collected, job # Idle, UNCHANGED <<seen, files>>, job'.path = job.path, job'.offset = job.offset,
         job'.known = job.known, job'.lines = job.lines, job'.temp = job.temp, job'.reqs = job.reqs
  PROVE  Collected'
BY DEF Collected, RowUrls, KeptUrls, UrlsOf

LEMMA NewUrlsStep ==
  ASSUME TypeOK, TypeOK', Pieces, Collected, LinesCut, [Next]_vars
  PROVE  Collected' /\ LinesCut'
<1> USE FileAssumption
<1>0. job.at # "idle" => job \in Running /\ job # Idle
  BY DEF TypeOK, Idle
<1>1. ASSUME job' = Idle PROVE Collected' /\ LinesCut'
  BY <1>1 DEF Collected, LinesCut, Idle
<1>2. ASSUME NEW p \in Path, SubmitTask(p) PROVE Collected' /\ LinesCut'
  <2>1. /\ job'.at = "read" /\ job'.path = p /\ job'.offset = Len(files[p]) /\ job'.known = seen
        /\ job'.lines = <<>> /\ job'.floor = 0 /\ job'.temp = <<>> /\ job'.reqs = <<>>
        /\ seen' = seen /\ files' = files
    BY Zenon, <1>2 DEF SubmitTask
  <2>2. RowUrls' = {} /\ KeptUrls' = {} /\ UrlsOf(<<>>) = {}
    <3>1. Len(files[p]) \in Nat
      BY DEF TypeOK
    <3>2. \A r \in Len(files[p]) + 1 .. Len(files[p]) : FALSE
      BY <3>1
    <3>3. \A i \in 1 .. Len(<<>>) : FALSE
      OBVIOUS
    <3> QED
      BY <2>1, <3>2, <3>3 DEF RowUrls, KeptUrls, UrlsOf
  <2>3. Collected'
    BY <2>1, <2>2 DEF Collected
  <2>4. 0 \in Nat /\ 0 = 0 * Chunk /\ Len(<<>>) <= 0 + Chunk
    OBVIOUS
  <2> QED
    BY <2>1, <2>3, <2>4 DEF LinesCut
<1>3. ASSUME NEW url \in Url, ReadLine(url) \/ CutChunk(url) PROVE Collected' /\ LinesCut'
  <2>1. job \in Running /\ job # Idle /\ job.at = "read"
    BY <1>0, <1>3 DEF ReadLine, CutChunk
  <2>2. /\ job' \in Running
        /\ job'.path = job.path /\ job'.offset = job.offset /\ job'.known = job.known
        /\ job'.reqs = job.reqs /\ job'.floor = job.floor /\ job'.last = job.last
        /\ job'.lines = Append(job.lines, url) /\ seen' = seen /\ files' = files
        /\ job'.at = IF InChunk THEN "read" ELSE "parse"
        /\ job'.temp = IF InChunk THEN Append(job.temp, url) ELSE job.temp
    <3>1. /\ job'.path = job.path /\ job'.offset = job.offset /\ job'.known = job.known
          /\ job'.reqs = job.reqs /\ job'.floor = job.floor /\ job'.last = job.last
          /\ job'.lines = Append(job.lines, url) /\ seen' = seen /\ files' = files
          /\ job'.at = IF InChunk THEN "read" ELSE "parse"
          /\ job'.temp = IF InChunk THEN Append(job.temp, url) ELSE job.temp
      BY <1>3, <2>1 DEF ReadLine, CutChunk, Running
    <3>2. job'.at # "idle"
      BY <3>1
    <3> QED
      BY <3>1, <3>2 DEF TypeOK, Idle
  <2>3. /\ InChunk => ~Cut(No)
        /\ ~InChunk => Cut(No) /\ No = job.floor + Chunk + 1
    BY <2>1, KeptOrCut
  <2>4. KeptUrls' = KeptUrls \cup (IF InChunk THEN {url} ELSE {})
    BY <2>1, <2>2, <2>3, LineAdded
  <2>5. UrlsOf(job'.temp) = UrlsOf(job.temp) \cup (IF InChunk THEN {url} ELSE {})
    <3>1. job.temp \in Seq(Url)
      BY <2>1 DEF Running
    <3> QED
      BY <2>2, <3>1, UrlsOfSteps
  <2>6. RowUrls' = RowUrls
    BY <2>2 DEF RowUrls
  <2>7. Collected'
    BY <2>1, <2>2, <2>4, <2>5, <2>6 DEF Collected
  <2>8. /\ Len(job'.lines) = Len(job.lines) + 1 /\ No = Len(job.lines) + 1 /\ Len(job.lines) \in Nat
        /\ job.floor \in Nat
    BY <2>1, <2>2 DEF No, Running
  <2>9. LinesCut'
    <3>1. PICK k \in Nat : job.floor = k * Chunk
      BY <2>1 DEF LinesCut
    <3>2. \E n \in Nat : job'.floor = n * Chunk
      BY <2>2, <3>1
    <3>3. job'.at = "read" => /\ Len(job'.lines) <= job'.floor + Chunk
                              /\ job'.floor = 0 \/ job'.floor < Len(job'.lines)
      BY <2>2, <2>8 DEF InChunk
    <3>4. job'.at = "parse" => Len(job'.lines) = job'.floor + Chunk + 1
      BY <2>2, <2>3, <2>8
    <3>5. job'.at \in {"read", "parse"}
      BY <2>2
    <3> QED
      BY <3>2, <3>3, <3>4, <3>5 DEF LinesCut
  <2> QED
    BY <2>7, <2>9
<1>4. ASSUME EndOfFile PROVE Collected' /\ LinesCut'
  <2>1. job \in Running /\ job # Idle /\ job.at = "read"
    BY <1>0, <1>4 DEF EndOfFile
  <2>2. /\ job'.path = job.path /\ job'.offset = job.offset /\ job'.known = job.known
        /\ job'.lines = job.lines /\ job'.temp = job.temp /\ job'.reqs = job.reqs
        /\ job'.floor = job.floor /\ job'.at = "parse" /\ job'.last = TRUE
        /\ UNCHANGED <<seen, files>>
    BY <1>4, <2>1 DEF EndOfFile, Running
  <2>3. LinesCut'
    BY <2>1, <2>2 DEF LinesCut
  <2> QED
    BY <2>1, <2>2, <2>3, CollectedKept
<1>5. ASSUME ParseLine PROVE Collected' /\ LinesCut'
  <2> DEFINE url == Head(job.temp)
  <2>1. job \in Running /\ job # Idle /\ job.at = "parse" /\ job.temp # <<>>
    BY <1>0, <1>5 DEF ParseLine
  <2>2. /\ job'.path = job.path /\ job'.offset = job.offset /\ job'.known = job.known
        /\ job'.lines = job.lines /\ job'.temp = Tail(job.temp)
        /\ job'.reqs = IF url \notin seen THEN Append(job.reqs, url) ELSE job.reqs
        /\ job'.floor = job.floor /\ job'.at = job.at /\ job'.last = job.last
        /\ seen' = seen \cup {url} /\ files' = files
    BY <1>5, <2>1 DEF ParseLine, IsNew, Running
  <2>3. job.temp \in Seq(Url) /\ job.reqs \in Seq(Url) /\ url \in Url
    BY <2>1 DEF Running
  <2> HIDE DEF url
  <2>4. UrlsOf(job.temp) = {url} \cup UrlsOf(job'.temp)
    BY <2>1, <2>2, <2>3, UrlsOfSteps DEF url
  <2>5. UrlsOf(job'.reqs) = UrlsOf(job.reqs) \cup (IF url \notin seen THEN {url} ELSE {})
    BY <2>2, <2>3, UrlsOfSteps
  <2>6. RowUrls' = RowUrls /\ KeptUrls' = KeptUrls
    BY <2>2 DEF RowUrls, KeptUrls
  <2>7. Collected'
    BY <2>1, <2>2, <2>4, <2>5, <2>6 DEF Collected
  <2>8. LinesCut'
    BY <2>1, <2>2 DEF LinesCut
  <2> QED
    BY <2>7, <2>8
<1>6. ASSUME WriteRows PROVE Collected' /\ LinesCut'
  <2>1. job \in Running /\ job # Idle /\ job.at = "parse" /\ job.temp = <<>> /\ Written(job.reqs)
    BY <1>0, <1>6, WriteRowsWrites DEF WriteRows
  <2>2. /\ job'.path = job.path /\ job'.offset = job.offset /\ job'.known = job.known
        /\ job'.lines = job.lines /\ job'.temp = <<>> /\ job'.reqs = <<>>
        /\ job'.floor = (IF job.last THEN job.floor ELSE job.floor + Chunk)
        /\ job'.at = (IF job.last THEN "size" ELSE "read")
        /\ seen' = seen
    BY <1>6, <2>1 DEF WriteRows, Running
  <2>3. RowUrls' = RowUrls \cup UrlsOf(job.reqs)
    BY <2>1, <2>2, RowsAdded
  <2>4. KeptUrls' = KeptUrls /\ UrlsOf(<<>>) = {}
    BY <2>2 DEF KeptUrls, UrlsOf
  <2>5. Collected'
    BY <2>1, <2>2, <2>3, <2>4 DEF Collected
  <2>6. CASE job.last
    <3>1. LinesCut'
      BY <2>2, <2>6 DEF LinesCut
    <3> QED
      BY <2>5, <3>1
  <2>7. CASE ~job.last
    <3>1. PICK k \in Nat : job.floor = k * Chunk
      BY <2>1 DEF LinesCut
    <3>2. k + 1 \in Nat /\ job.floor + Chunk = (k + 1) * Chunk /\ job.floor \in Nat
      BY <2>1, <3>1 DEF Running
    <3>3. Len(job.lines) = job.floor + Chunk + 1
      BY <2>1, <2>7 DEF LinesCut
    <3>4. job'.at = "read" /\ job'.floor = job.floor + Chunk
      BY <2>2, <2>7
    <3>5. Len(job'.lines) <= job'.floor + Chunk /\ job'.floor < Len(job'.lines)
      BY <2>2, <3>2, <3>3, <3>4
    <3>6. \E n \in Nat : job'.floor = n * Chunk
      BY <3>2, <3>4
    <3> QED
      BY <2>5, <3>4, <3>5, <3>6 DEF LinesCut
  <2> QED
    BY <2>5, <2>6, <2>7
<1>7. ASSUME NEW rows \in Given, NEW slaves \in 0 .. MaxSlaves, ChooseRows(rows, slaves)
      PROVE  Collected' /\ LinesCut'
  <2>1. job \in Running /\ job # Idle /\ job.at \in {"size", "shrink", "cut"}
    BY <1>0, <1>7 DEF ChooseRows
  <2>2. /\ job'.path = job.path /\ job'.offset = job.offset /\ job'.known = job.known
        /\ job'.lines = job.lines /\ job'.temp = job.temp /\ job'.reqs = job.reqs
        /\ job'.at \in {"shrink", "cut"} /\ UNCHANGED <<seen, files>>
    BY <1>7, <2>1 DEF ChooseRows, Running
  <2>3. LinesCut'
    BY <2>1, <2>2 DEF LinesCut
  <2> QED
    BY <2>1, <2>2, <2>3, CollectedKept
<1>8. ASSUME ShrinkRows \/ AddBlock PROVE Collected' /\ LinesCut'
  <2>1. job \in Running /\ job # Idle /\ job.at \in {"size", "shrink", "cut"}
    BY <1>0, <1>8 DEF ShrinkRows, AddBlock
  <2>2. /\ job'.path = job.path /\ job'.offset = job.offset /\ job'.known = job.known
        /\ job'.lines = job.lines /\ job'.temp = job.temp /\ job'.reqs = job.reqs
        /\ job'.at \in {"shrink", "cut"} /\ UNCHANGED <<seen, files>>
    BY <1>8, <2>1 DEF ShrinkRows, AddBlock, Running
  <2>3. LinesCut'
    BY <2>1, <2>2 DEF LinesCut
  <2> QED
    BY <2>1, <2>2, <2>3, CollectedKept
<1>9. ASSUME ReadFails \/ WriteFails \/ NothingNew \/ QueueRefused \/ OutOfMemory \/ AddLastBlock
      PROVE  Collected' /\ LinesCut'
  BY <1>1, <1>9 DEF ReadFails, WriteFails, NothingNew, QueueRefused, OutOfMemory, AddLastBlock, End
<1>10. ASSUME UNCHANGED vars PROVE Collected' /\ LinesCut'
  BY <1>10 DEF vars, Collected, LinesCut, RowUrls, KeptUrls, UrlsOf
<1> QED
  BY <1>2, <1>3, <1>4, <1>5, <1>6, <1>7, <1>8, <1>9, <1>10 DEF Next, Step

\* The rows of a submission are the URLs of its file's lines that the filter
\* had not seen, except the line that each full chunk cuts off
\* (Task.java:94-134, TaskFileParseProxyFacotry.java:49-75).
THEOREM NewUrlsAreRows == Spec => []NewUrlsBecomeRows
<1> DEFINE NewInv == Collected /\ LinesCut
<1>1. Init => NewInv
  BY DEF Init, Idle, Collected, LinesCut
<1>2. Inv /\ Inv' /\ NewInv /\ [Next]_vars => NewInv'
  BY NewUrlsStep DEF Inv
<1>3. Inv /\ NewInv => NewUrlsBecomeRows
  <2> SUFFICES ASSUME Inv, Collected, LinesCut, job.at \in {"size", "shrink", "cut"}
               PROVE  RowUrls = KeptUrls \ job.known
    BY DEF NewUrlsBecomeRows, RowUrls, KeptUrls
  <2>1. job # Idle /\ job.temp = <<>> /\ job.reqs = <<>> /\ UrlsOf(<<>>) = {}
    BY DEF LinesCut, Idle, UrlsOf
  <2>2. RowUrls = seen \ job.known /\ seen = job.known \cup KeptUrls
    BY <2>1 DEF Collected
  <2> QED
    BY <2>2
<1> QED
  BY <1>1, <1>2, <1>3, AlwaysInv, PTL DEF Spec

-----------------------------------------------------------------------------
(* The constructor leaves what the methods begin with.                     *)

\* The blocks of a number of rows, cut to a size.
CutInto(bs, total, rows) ==
  /\ Len(bs) = (total + rows - 1) \div rows
  /\ \A b \in 1 .. Len(bs) : bs[b].size = IF b = Len(bs) THEN total - (Len(bs) - 1) * rows ELSE rows

\* They are those of TaskRecord.
LEMMA CutIntoBlocks ==
  ASSUME NEW bs, CutInto(bs, TotalRow, RowPerBlock)
  PROVE  Len(bs) = BlockCount /\ \A b \in Block : bs[b].size = Size(b)
BY DEF CutInto, BlockCount, Block, Size

IsRecord(bs, total) == total \in Nat \ {0} /\ \E rows \in Nat \ {0} : CutInto(bs, total, rows)

SubmittedAreRecords == \A s \in Submitted : IsRecord(past[s].blocks, past[s].totalRow)

\* The rounded-up quotient is the only number of blocks of which all but the
\* last leave rows and the last leaves none.
LEMMA Ceiling ==
  ASSUME NEW n \in Nat \ {0}, NEW rows \in Nat \ {0}, NEW total \in Nat,
         (n - 1) * rows < total, total <= n * rows
  PROVE  (total + rows - 1) \div rows = n
<1> DEFINE X == total + rows - 1
           Q == X \div rows
           R == X % rows
           A == n * rows
           B == Q * rows
<1>1. X \in Nat /\ Q \in Int /\ R \in 0 .. rows - 1 /\ X = B + R
  OBVIOUS
<1>2. A \in Int /\ B \in Int /\ (n - 1) * rows = A - rows
  BY <1>1
<1>3. A <= X /\ X < A + rows
  BY <1>2
<1>4. A < B + rows /\ B < A + rows
  <2> HIDE DEF X, Q, R, A, B
  <2> QED
    BY <1>1, <1>2, <1>3
<1>5. (Q + 1) * rows = B + rows /\ (n + 1) * rows = A + rows
  BY <1>1
<1> HIDE DEF X, Q, R
<1>6. ~(Q >= n + 1)
  <2>1. Q >= n + 1 => Q * rows >= (n + 1) * rows
    BY <1>1
  <2> QED
    BY <1>1, <1>2, <1>4, <1>5, <2>1
<1>7. ~(n >= Q + 1)
  <2>1. n >= Q + 1 => n * rows >= (Q + 1) * rows
    BY <1>1
  <2> QED
    BY <1>1, <1>2, <1>4, <1>5, <2>1
<1> QED
  BY <1>1, <1>6, <1>7 DEF Q, X

LEMMA CutIsRecord ==
  ASSUME NEW full \in Seq(BlockType), NEW rows \in Nat \ {0}, NEW total \in Nat, NEW last \in BlockType,
         Len(full) * rows < total, total <= (Len(full) + 1) * rows,
         \A b \in 1 .. Len(full) : full[b].size = rows,
         last.size = total - Len(full) * rows
  PROVE  IsRecord(Append(full, last), total)
<1> DEFINE n == Len(full) + 1
           bs == Append(full, last)
<1>1. n \in Nat \ {0} /\ Len(full) = n - 1 /\ Len(bs) = n
  OBVIOUS
<1>2. bs[n] = last /\ \A b \in 1 .. n - 1 : bs[b] = full[b]
  OBVIOUS
<1> HIDE DEF n, bs
<1>3. (n - 1) * rows \in Nat
  BY <1>1
<1>4. total \in Nat \ {0}
  BY <1>1, <1>3
<1>5. (total + rows - 1) \div rows = n
  <2>1. total <= n * rows
    BY DEF n
  <2> QED
    BY <1>1, <2>1, Ceiling
<1>6. ASSUME NEW b \in 1 .. n
      PROVE  bs[b].size = IF b = n THEN total - (n - 1) * rows ELSE rows
  BY <1>1, <1>2, <1>6
<1> QED
  BY <1>1, <1>4, <1>5, <1>6 DEF IsRecord, CutInto, bs

LEMMA RecordsKept ==
  ASSUME TypeOK, SubmittedAreRecords, NEW outcome, NEW blocks, End(outcome, blocks),
         outcome = "submitted" => IsRecord(blocks, job.totalRow)
  PROVE  SubmittedAreRecords'
<1> DEFINE e == [path |-> job.path, outcome |-> outcome, blocks |-> blocks,
                 totalRow |-> job.totalRow, offset |-> job.offset,
                 urls |-> {job.lines[i] : i \in 1 .. Len(job.lines)}]
<1>1. past \in Seq(Submission) /\ past' = Append(past, e)
  BY DEF TypeOK, End
<1>2. e.outcome = outcome /\ e.blocks = blocks /\ e.totalRow = job.totalRow
  OBVIOUS
<1> HIDE DEF e
<1>3. /\ Len(past') = Len(past) + 1 /\ past'[Len(past) + 1] = e
      /\ \A s \in 1 .. Len(past) : past'[s] = past[s]
  BY <1>1
<1>4. ASSUME NEW s \in 1 .. Len(past'), past'[s].outcome = "submitted"
      PROVE  IsRecord(past'[s].blocks, past'[s].totalRow)
  <2>1. CASE s \in 1 .. Len(past)
    BY <1>3, <1>4, <2>1 DEF SubmittedAreRecords, Submitted
  <2>2. CASE s = Len(past) + 1
    BY <1>2, <1>3, <1>4, <2>2
  <2> QED
    BY <1>1, <1>3, <1>4, <2>1, <2>2
<1> QED
  BY <1>4 DEF SubmittedAreRecords, Submitted

LEMMA RecordsStep == Inv /\ SubmittedAreRecords /\ [Next]_vars => SubmittedAreRecords'
<1> SUFFICES ASSUME Inv, SubmittedAreRecords, [Next]_vars PROVE SubmittedAreRecords'
  OBVIOUS
<1>1. TypeOK /\ BlocksCut
  BY DEF Inv
<1>2. past' = past => SubmittedAreRecords'
  BY DEF SubmittedAreRecords, Submitted
<1>3. ASSUME ReadFails \/ WriteFails \/ NothingNew \/ QueueRefused \/ OutOfMemory
      PROVE  SubmittedAreRecords'
  <2>1. \E outcome \in {"failed", "finished", "untold"} : End(outcome, <<>>)
    BY <1>3 DEF ReadFails, WriteFails, NothingNew, QueueRefused, OutOfMemory
  <2> QED
    BY <1>1, <2>1, RecordsKept
<1>4. ASSUME AddLastBlock PROVE SubmittedAreRecords'
  <2> DEFINE last == LastBlock(Len(job.blocks) * job.rowPerBlock)
  <2>1. job \in Running /\ job.at = "cut" /\ job.rowPerBlock >= 0 /\ ~BlocksLeft
        /\ End("submitted", Append(job.blocks, last))
    BY <1>1, <1>4 DEF AddLastBlock, TypeOK, Idle
  <2>2. /\ job.rowPerBlock \in Int /\ job.blocks \in Seq(BlockType) /\ job.totalRow \in Nat
        /\ \A b \in 1 .. Len(job.blocks) : job.blocks[b].size = job.rowPerBlock
    <3>1. job.rowPerBlock \in Int /\ job.blocks \in Seq(BlockType) /\ job.totalRow \in Nat
      BY <1>1, <2>1 DEF Running, BlocksCut
    <3>2. \A b \in 1 .. Len(job.blocks) : job.blocks[b] = FullBlock(b)
      BY <1>1, <2>1 DEF BlocksCut
    <3>3. \A b : FullBlock(b).size = job.rowPerBlock
      BY DEF FullBlock
    <3> QED
      BY <3>1, <3>2, <3>3
  <2>3. job.rowPerBlock \in Nat \ {0}
    BY <2>1, <2>2 DEF BlocksLeft
  <2>4. /\ Len(job.blocks) * job.rowPerBlock < job.totalRow
        /\ job.totalRow <= (Len(job.blocks) + 1) * job.rowPerBlock
    <3>1. Len(job.blocks) * job.rowPerBlock < job.totalRow
      BY <1>1, <2>1, <2>3 DEF BlocksCut
    <3>2. (Len(job.blocks) + 1) * job.rowPerBlock \in Nat
      BY <2>2, <2>3
    <3>3. ~((Len(job.blocks) + 1) * job.rowPerBlock < job.totalRow)
      BY <2>1, <2>3 DEF BlocksLeft
    <3> QED
      BY <2>2, <3>1, <3>2, <3>3
  <2>5. Len(job.blocks) * job.rowPerBlock \in Nat
    BY <2>2, <2>3
  <2>6. last \in BlockType /\ last.size = job.totalRow - Len(job.blocks) * job.rowPerBlock
    BY <2>2, <2>5 DEF LastBlock, BlockType
  <2> HIDE DEF last
  <2>7. IsRecord(Append(job.blocks, last), job.totalRow)
    BY <2>2, <2>3, <2>4, <2>6, CutIsRecord
  <2> QED
    BY <1>1, <2>1, <2>7, RecordsKept
<1>5. ASSUME \/ \E p \in Path : SubmitTask(p)
             \/ \E url \in Url : ReadLine(url) \/ CutChunk(url)
             \/ \E rows \in Given, slaves \in 0 .. MaxSlaves : ChooseRows(rows, slaves)
             \/ EndOfFile \/ ParseLine \/ WriteRows \/ ShrinkRows \/ AddBlock \/ UNCHANGED vars
      PROVE  past' = past
  BY <1>5 DEF SubmitTask, ReadLine, CutChunk, ChooseRows, EndOfFile, ParseLine, WriteRows, ShrinkRows,
       AddBlock, vars
<1> QED
  BY <1>2, <1>3, <1>4, <1>5 DEF Next, Step

\* Every submitted task has what TaskRecord assumes, at least one row and one
\* row per block, and the number of its blocks and their sizes are the ones that
\* TaskRecord computes (CutIntoBlocks): the theorems about the methods are about
\* every task that the constructor makes (Task.java:139-180).
THEOREM SubmittedTasksAreRecords == Spec => []SubmittedAreRecords
<1>1. Init => SubmittedAreRecords
  BY DEF Init, SubmittedAreRecords, Submitted
<1> QED
  BY <1>1, AlwaysInv, RecordsStep, PTL DEF Spec
=============================================================================
