------------------------ MODULE CrawlCluster_proofs --------------------------
(***************************************************************************)
(* Theorems about the way of the blocks, for every set of machines and of  *)
(* tasks and every number of rows, spiders and crashes.                    *)
(***************************************************************************)
EXTENDS CrawlCluster, TaskRecord_proofs

-----------------------------------------------------------------------------
(* The rows of a queue's entries.                                          *)

Weight(q, S, i) == IF i \in S THEN q[i].rows ELSE 0

\* f has the sums of the first 0 to n entries.
SumsTo(f, q, S, n) ==
  /\ f \in [0 .. n -> Nat]
  /\ f[0] = 0
  /\ \A i \in 1 .. n : f[i] = f[i - 1] + Weight(q, S, i)

LEMMA WeightType ==
  ASSUME NEW q \in Seq(Queued), NEW S, NEW i \in 1 .. Len(q)
  PROVE  Weight(q, S, i) \in Nat
<1>1. q[i] \in Queued
  OBVIOUS
<1>2. q[i].rows \in Nat
  BY <1>1, RowAssumption DEF Queued
<1> QED
  BY <1>2 DEF Weight

LEMMA SumsExist ==
  ASSUME NEW q \in Seq(Queued), NEW S
  PROVE  \E f : SumsTo(f, q, S, Len(q))
<1> DEFINE G == {n \in 0 .. Len(q) : \E f : SumsTo(f, q, S, n)}
<1>1. Len(q) \in Nat
  OBVIOUS
<1>2. 0 \in G
  <2>1. SumsTo([i \in 0 .. 0 |-> 0], q, S, 0)
    BY DEF SumsTo
  <2> QED
    BY <1>1, <2>1
<1>3. ASSUME NEW n \in 0 .. Len(q) - 1, n \in G PROVE n + 1 \in G
  <2>1. PICK f : SumsTo(f, q, S, n)
    BY <1>3
  <2> DEFINE g == [i \in 0 .. n + 1 |-> IF i = n + 1 THEN f[n] + Weight(q, S, n + 1) ELSE f[i]]
  <2>2. n \in Nat /\ n + 1 \in 1 .. Len(q) /\ Weight(q, S, n + 1) \in Nat /\ n \in 0 .. n
    BY <1>1, WeightType
  <2>3. f \in [0 .. n -> Nat] /\ f[0] = 0 /\ \A i \in 1 .. n : f[i] = f[i - 1] + Weight(q, S, i)
    BY <2>1 DEF SumsTo
  <2>4. g \in [0 .. n + 1 -> Nat]
    BY <2>2, <2>3
  <2>5. g[0] = 0
    BY <2>2, <2>3
  <2>6. ASSUME NEW i \in 1 .. n + 1 PROVE g[i] = g[i - 1] + Weight(q, S, i)
    <3>1. CASE i = n + 1
      BY <2>2, <3>1
    <3>2. CASE i # n + 1
      <4>1. i \in 1 .. n /\ i \in 0 .. n + 1 /\ i - 1 \in 0 .. n + 1 /\ i - 1 # n + 1
        BY <2>2, <3>2
      <4> QED
        BY <2>3, <4>1
    <3> QED
      BY <3>1, <3>2
  <2>7. SumsTo(g, q, S, n + 1)
    BY <2>4, <2>5, <2>6 DEF SumsTo
  <2> QED
    BY <2>2, <2>7
<1>4. 0 .. Len(q) \subseteq G
  <2> HIDE DEF G
  <2> QED
    BY <1>1, <1>2, <1>3, UpTo
<1> QED
  BY <1>1, <1>4

LEMMA RowsOverSums ==
  ASSUME NEW q \in Seq(Queued), NEW S
  PROVE  \E f : SumsTo(f, q, S, Len(q)) /\ RowsOver(q, S) = f[Len(q)]
<1> DEFINE Eq(f) == f = [i \in 0 .. Len(q) |->
                            IF i = 0 THEN 0 ELSE f[i - 1] + (IF i \in S THEN q[i].rows ELSE 0)]
           sum == CHOOSE f : Eq(f)
<1>1. Len(q) \in Nat
  OBVIOUS
<1>2. \E f : Eq(f)
  <2>1. PICK f : SumsTo(f, q, S, Len(q))
    BY SumsExist
  <2>2. f \in [0 .. Len(q) -> Nat] /\ f[0] = 0 /\ \A i \in 1 .. Len(q) : f[i] = f[i - 1] + Weight(q, S, i)
    BY <2>1 DEF SumsTo
  <2>3. \A i \in 0 .. Len(q) : i = 0 \/ i \in 1 .. Len(q)
    BY <1>1
  <2>4. \A i \in 0 .. Len(q) :
           f[i] = IF i = 0 THEN 0 ELSE f[i - 1] + (IF i \in S THEN q[i].rows ELSE 0)
    BY <2>2, <2>3 DEF Weight
  <2>5. Eq(f)
    BY <2>2, <2>4
  <2> QED
    BY <2>5
<1>3. Eq(sum)
  <2> HIDE DEF Eq
  <2> QED
    BY <1>2
<1>4. RowsOver(q, S) = sum[Len(q)]
  BY DEF RowsOver
<1> HIDE DEF sum
<1>5. sum[0] = 0 /\ \A i \in 1 .. Len(q) : sum[i] = sum[i - 1] + Weight(q, S, i)
  BY <1>1, <1>3 DEF Weight
<1>6. sum \in [0 .. Len(q) -> Nat]
  <2> DEFINE G == {n \in 0 .. Len(q) : sum[n] \in Nat}
  <2>1. 0 \in G
    BY <1>1, <1>5
  <2>2. ASSUME NEW n \in 0 .. Len(q) - 1, n \in G PROVE n + 1 \in G
    <3>1. n + 1 \in 1 .. Len(q) /\ n + 1 \in 0 .. Len(q) /\ (n + 1) - 1 = n
      BY <1>1
    <3>2. sum[n + 1] = sum[n] + Weight(q, S, n + 1) /\ sum[n] \in Nat
      BY <1>5, <2>2, <3>1
    <3> QED
      BY <3>1, <3>2, WeightType
  <2>3. 0 .. Len(q) \subseteq G
    <3> HIDE DEF G
    <3> QED
      BY <1>1, <2>1, <2>2, UpTo
  <2>4. \A n \in 0 .. Len(q) : sum[n] \in Nat
    BY <2>3
  <2> QED
    BY <1>3, <2>4
<1> QED
  BY <1>4, <1>5, <1>6 DEF SumsTo

LEMMA RowsOverType ==
  ASSUME NEW q \in Seq(Queued), NEW S
  PROVE  RowsOver(q, S) \in Nat
<1>1. PICK f : SumsTo(f, q, S, Len(q)) /\ RowsOver(q, S) = f[Len(q)]
  BY RowsOverSums
<1> QED
  BY <1>1 DEF SumsTo

\* Entries that are among those of another queue, k places further on, and no
\* larger than there, have no more rows.
LEMMA RowsOverLeq ==
  ASSUME NEW q \in Seq(Queued), NEW r \in Seq(Queued), NEW S, NEW T, NEW k \in Nat,
         Len(q) + k >= Len(r),
         \A i \in 1 .. Len(q) : i \in S => i + k \in 1 .. Len(r) /\ i + k \in T /\ q[i].rows <= r[i + k].rows
  PROVE  RowsOver(q, S) <= RowsOver(r, T)
<1>1. PICK f : SumsTo(f, q, S, Len(q)) /\ RowsOver(q, S) = f[Len(q)]
  BY RowsOverSums
<1>2. PICK g : SumsTo(g, r, T, Len(r)) /\ RowsOver(r, T) = g[Len(r)]
  BY RowsOverSums
<1> DEFINE l == Len(q)
           n == Len(r)
           At(j) == g[IF j <= n THEN j ELSE n]
           G == {i \in 0 .. l : f[i] <= At(i + k)}
<1>3. l \in Nat /\ n \in Nat /\ l + k >= n
  OBVIOUS
<1>4. /\ f \in [0 .. l -> Nat] /\ f[0] = 0 /\ \A i \in 1 .. l : f[i] = f[i - 1] + Weight(q, S, i)
      /\ g \in [0 .. n -> Nat] /\ g[0] = 0 /\ \A i \in 1 .. n : g[i] = g[i - 1] + Weight(r, T, i)
  BY <1>1, <1>2 DEF SumsTo
<1>5. ASSUME NEW j \in Nat PROVE At(j) \in Nat
  <2>1. (IF j <= n THEN j ELSE n) \in 0 .. n
    BY <1>3
  <2> QED
    BY <1>4, <2>1
<1>6. ASSUME NEW j \in Nat PROVE At(j) <= At(j + 1)
  <2>1. CASE j + 1 <= n
    <3>1. j + 1 \in 1 .. n /\ j \in 0 .. n /\ (j + 1) - 1 = j
      BY <1>3, <2>1
    <3>2. g[j + 1] = g[j] + Weight(r, T, j + 1) /\ Weight(r, T, j + 1) \in Nat /\ g[j] \in Nat
      BY <1>4, <3>1, WeightType
    <3> QED
      BY <2>1, <3>1, <3>2
  <2>2. CASE j + 1 > n
    <3>1. At(j + 1) = g[n] /\ At(j) = g[n]
      BY <1>3, <2>2
    <3> QED
      BY <1>5, <3>1
  <2> QED
    BY <1>3, <2>1, <2>2
<1>7. 0 \in G
  BY <1>3, <1>4, <1>5
<1>8. ASSUME NEW i \in 0 .. l - 1, i \in G PROVE i + 1 \in G
  <2>1. i \in Nat /\ i + 1 \in 1 .. l /\ i + 1 \in 0 .. l /\ (i + 1) - 1 = i /\ i \in 0 .. l
    BY <1>3
  <2>2. f[i + 1] = f[i] + Weight(q, S, i + 1) /\ f[i] \in Nat
    BY <1>4, <2>1
  <2>3. f[i] <= At(i + k) /\ At(i + k) \in Nat /\ At(i + 1 + k) \in Nat
    BY <1>5, <1>8, <2>1
  <2>4. CASE i + 1 \in S
    <3>1. /\ i + 1 + k \in 1 .. n /\ i + 1 + k \in T
          /\ q[i + 1].rows <= r[i + 1 + k].rows
      BY <2>1, <2>4
    <3>2. Weight(q, S, i + 1) = q[i + 1].rows /\ Weight(r, T, i + 1 + k) = r[i + 1 + k].rows
      BY <2>4, <3>1 DEF Weight
    <3>3. Weight(q, S, i + 1) \in Nat /\ Weight(r, T, i + 1 + k) \in Nat
      BY <2>1, <3>1, WeightType
    <3>4. g[i + 1 + k] = g[i + k] + Weight(r, T, i + 1 + k)
      <4>1. (i + 1 + k) - 1 = i + k
        BY <2>1
      <4> QED
        BY <1>4, <3>1, <4>1
    <3>5. At(i + k) = g[i + k] /\ At(i + 1 + k) = g[i + 1 + k]
      BY <1>3, <2>1, <3>1
    <3>6. f[i + 1] <= At(i + 1 + k)
      <4> HIDE DEF At
      <4> QED
        BY <2>2, <2>3, <3>1, <3>2, <3>3, <3>4, <3>5
    <3> QED
      BY <2>1, <3>6
  <2>5. CASE i + 1 \notin S
    <3>1. Weight(q, S, i + 1) = 0
      BY <2>5 DEF Weight
    <3>2. At(i + k) <= At(i + k + 1) /\ i + k + 1 = i + 1 + k
      <4>1. i + k \in Nat /\ i + k + 1 = i + 1 + k
        BY <2>1
      <4> HIDE DEF At
      <4> QED
        BY <1>6, <4>1
    <3>3. f[i + 1] <= At(i + 1 + k)
      <4> HIDE DEF At
      <4> QED
        BY <2>2, <2>3, <3>1, <3>2
    <3> QED
      BY <2>1, <3>3
  <2> QED
    BY <2>4, <2>5
<1>9. 0 .. l \subseteq G
  <2> HIDE DEF G, l
  <2> QED
    BY <1>3, <1>7, <1>8, UpTo
<1>10. f[l] <= At(l + k)
  BY <1>3, <1>9
<1>11. At(l + k) = g[n]
  <2>1. (IF l + k <= n THEN l + k ELSE n) = n
    BY <1>3
  <2> QED
    BY <2>1
<1> QED
  BY <1>1, <1>2, <1>10, <1>11

-----------------------------------------------------------------------------
(* The tasks.                                                              *)

AllConsistent == tasks \in [Task -> TaskType] /\ \A t \in Task : Consistent(tasks[t])

\* What the follower of a machine does on its own: no task changes.
FollowerStep(m) ==
  \/ SendHeartBeat(m) \/ LoseAnswer(m) \/ Obey(m) \/ Sleep(m)
  \/ LoadStep(m) \/ DownloadStep(m) \/ ParseStep(m) \/ CrawlStep(m) \/ Crash(m)

LEMMA StepCases ==
  ASSUME [Next]_vars
  PROVE  \/ \E t \in Task : SubmitTask(t)
         \/ \E m \in Machine : HandleHeartBeat(m) \/ ReleaseResource(m) \/ Restart(m) \/ FollowerStep(m)
         \/ UNCHANGED vars
BY DEF Next, BeatStep, FollowerStep

LEMMA FollowerKeepsTasks ==
  ASSUME NEW m \in Machine, FollowerStep(m)
  PROVE  UNCHANGED <<tasks, progress, isJar, robbed>>
<1>1. ASSUME NEW c, NEW s, ObeyNewTask(m, c) \/ LoadFails(m, c) \/ ObeyLoad(m, c, s)
      PROVE  UNCHANGED <<tasks, progress, isJar, robbed>>
  BY <1>1 DEF ObeyNewTask, LoadFails, ObeyLoad, masterVars, history
<1>2. ASSUME NEW s, PutSpider(m, s) \/ RegisterSpider(m, s) \/ CrawlRow(m, s)
      PROVE  UNCHANGED <<tasks, progress, isJar, robbed>>
  BY <1>2 DEF PutSpider, RegisterSpider, CrawlRow, masterVars, history
<1>3. ASSUME NEW d, OpenFile(m, d) \/ FinishDownload(m, d) \/ LoseDownload(m, d) \/ Parse(m, d)
      PROVE  UNCHANGED <<tasks, progress, isJar, robbed>>
  BY <1>3 DEF OpenFile, FinishDownload, LoseDownload, Parse, masterVars, history
<1>4. ASSUME SendHeartBeat(m) \/ LoseAnswer(m) \/ Sleep(m) \/ Crash(m)
      PROVE  UNCHANGED <<tasks, progress, isJar, robbed>>
  BY <1>4 DEF SendHeartBeat, LoseAnswer, Sleep, Crash, masterVars, history
<1> QED
  BY <1>1, <1>2, <1>3, <1>4 DEF FollowerStep, Obey, LoadStep, DownloadStep, ParseStep, CrawlStep

\* A step leaves a task alone, or is one call of checkAndPoll or of
\* returnCrawlTask on it, perhaps with calls on others.
LEMMA TaskSteps ==
  ASSUME AllConsistent, [Next]_vars
  PROVE  /\ tasks' = [t \in Task |-> tasks'[t]]
         /\ \A t \in Task :
              \/ tasks'[t] = tasks[t]
              \/ \E m \in Machine : \/ HandleHeartBeat(m) /\ tasks'[t] = CheckAndPoll(tasks[t], m)
                                    \/ ReleaseResource(m) /\ tasks'[t] = ReturnCrawlTask(tasks[t], m)
<1> USE DEF AllConsistent
<1>1. ASSUME UNCHANGED tasks
      PROVE  tasks' = [t \in Task |-> tasks'[t]] /\ \A t \in Task : tasks'[t] = tasks[t]
  BY <1>1
<1>2. ASSUME NEW m \in Machine, HandleHeartBeat(m)
      PROVE  /\ tasks' = [t \in Task |-> tasks'[t]]
             /\ \A t \in Task : tasks'[t] = tasks[t] \/ tasks'[t] = CheckAndPoll(tasks[t], m)
  BY Zenon, <1>2 DEF HandleHeartBeat
<1>3. ASSUME NEW m \in Machine, ReleaseResource(m)
      PROVE  /\ tasks' = [t \in Task |-> tasks'[t]]
             /\ \A t \in Task : tasks'[t] = tasks[t] \/ tasks'[t] = ReturnCrawlTask(tasks[t], m)
  BY Zenon, <1>3 DEF ReleaseResource
<1>4. ASSUME \/ \E t \in Task : SubmitTask(t)
             \/ \E m \in Machine : Restart(m)
             \/ UNCHANGED vars
      PROVE  UNCHANGED tasks
  BY <1>4 DEF SubmitTask, Restart, vars, masterVars
<1> QED
  BY <1>1, <1>2, <1>3, <1>4, StepCases, FollowerKeepsTasks

LEMMA AllConsistentStep == AllConsistent /\ [Next]_vars => AllConsistent'
<1> SUFFICES ASSUME AllConsistent, [Next]_vars PROVE AllConsistent'
  OBVIOUS
<1>1. ASSUME NEW t \in Task PROVE Consistent(tasks'[t])
  BY TaskSteps, PollConsistent, ReturnConsistent DEF AllConsistent
<1>2. \A t \in Task : tasks'[t] \in TaskType
  BY <1>1 DEF Consistent
<1> QED
  BY <1>1, <1>2, TaskSteps DEF AllConsistent

LEMMA AllConsistentInit == Init => AllConsistent
<1>1. Consistent(NewTask) /\ NewTask \in TaskType
  BY NewTaskConsistent DEF Consistent
<1> QED
  BY <1>1 DEF Init, AllConsistent

-----------------------------------------------------------------------------
(* Type correctness, component by component.                               *)

LEMMA NextBlockType ==
  ASSUME AllConsistent, NEW t \in Task
  PROVE  /\ NextBlock(tasks[t]) \in Block \cup {NoBlock}
         /\ \A m \in Machine : tasks[t].distributeLog[m] \in Block \cup {NoBlock}
<1>1. Consistent(tasks[t]) /\ tasks[t] \in TaskType /\ Partitioned(tasks[t])
  BY DEF AllConsistent, Consistent
<1>2. tasks[t].taskQueue # <<>> => Head(tasks[t].taskQueue) \in Block
  BY <1>1, QueueHead
<1>3. \A m \in Machine : tasks[t].distributeLog[m] \in Block \cup {NoBlock}
  BY <1>1 DEF TaskType
<1> QED
  BY <1>2, <1>3 DEF NextBlock

LEMMA LoggedType ==
  ASSUME AllConsistent, NEW m \in Machine, NEW ts \in SUBSET Task
  PROVE  Logged(m, ts) \subseteq Task \X Block
BY NextBlockType DEF Logged

LEMMA SizeFits == \A b \in Block : Size(b) \in 1 .. RowPerBlock
BY BlockCountCovers, RowAssumption DEF Size, Block

LEMMA BeatTyped ==
  ASSUME TypeOK, AllConsistent, [Next]_vars
  PROVE  beat' \in [Machine -> Beat]
<1>0. beat \in [Machine -> Beat]
  BY DEF TypeOK
<1>1. ASSUME NEW m \in Machine, NEW c \in Command, beat[m].at \in {"answered", "obey"}, beat' = Obeyed(m, c)
      PROVE  beat' \in [Machine -> Beat]
  <2>1. beat[m].cmds \subseteq Command
    BY <1>0, <1>1 DEF Beat, Sleeping
  <2>2. [at |-> "obey", cmds |-> beat[m].cmds \ {c}] \in Beat
    BY <2>1 DEF Beat
  <2> QED
    BY <1>0, <1>1, <2>2 DEF Obeyed
<1>2. ASSUME NEW m \in Machine, beat' = [beat EXCEPT ![m] = Sleeping]
      PROVE  beat' \in [Machine -> Beat]
  BY <1>0, <1>2 DEF Beat
<1>3. ASSUME NEW m \in Machine, SendHeartBeat(m) PROVE beat' \in [Machine -> Beat]
  <2> DEFINE left == IF monitor[m] = NoSpider THEN 0 ELSE RowsIn(queue[m][monitor[m]])
             parsing == {<<p.task, p.block>> : p \in parsers[m]}
             found == monitor[m] # NoSpider
  <2>1. left \in Nat
    <3>1. CASE monitor[m] # NoSpider
      <4>1. queue[m][monitor[m]] \in Seq(Queued)
        BY <3>1 DEF TypeOK
      <4> QED
        BY <3>1, <4>1, RowsOverType DEF RowsIn
    <3> QED
      BY <3>1
  <2>2. parsing \in SUBSET (Task \X Block)
    <3>1. parsers[m] \subseteq Parser
      BY DEF TypeOK
    <3> QED
      BY <3>1 DEF Parser
  <2>3. beat' = [beat EXCEPT ![m] =
                   [at |-> "sent", report |-> [found |-> found, left |-> left, parsing |-> parsing]]]
    BY <1>3 DEF SendHeartBeat
  <2>4. found \in BOOLEAN
    OBVIOUS
  <2> HIDE DEF left, parsing, found
  <2>5. [found |-> found, left |-> left, parsing |-> parsing] \in Report
    BY <2>1, <2>2, <2>4 DEF Report
  <2>6. [at |-> "sent", report |-> [found |-> found, left |-> left, parsing |-> parsing]] \in Beat
    BY <2>5 DEF Beat
  <2> QED
    BY <1>0, <2>3, <2>6
<1>4. ASSUME NEW m \in Machine, HandleHeartBeat(m) PROVE beat' \in [Machine -> Beat]
  <2>1. PICK cmds : /\ cmds \subseteq {Crawl(t, NextBlock(tasks[t])) : t \in {t \in Task : NextBlock(tasks[t]) # NoBlock}}
                                       \cup {Load(t) : t \in Task}
                    /\ beat' = [beat EXCEPT ![m] = [at |-> "answered", cmds |-> cmds]]
    <3> DEFINE report == beat[m].report
               open == {t \in progress : ~tasks[t].over}
               polled == {t \in open : report.found /\ NearlyIdle(report)}
               cmds == {Crawl(t, NextBlock(tasks[t])) : t \in {t \in polled : NextBlock(tasks[t]) # NoBlock}}
                       \cup {Load(t) : t \in {t \in open : ~report.found}}
    <3>1. beat' = [beat EXCEPT ![m] = [at |-> "answered", cmds |-> cmds]]
      BY <1>4 DEF HandleHeartBeat
    <3>2. progress \subseteq Task
      BY DEF TypeOK
    <3>3. cmds \subseteq {Crawl(t, NextBlock(tasks[t])) : t \in {t \in Task : NextBlock(tasks[t]) # NoBlock}}
                          \cup {Load(t) : t \in Task}
      BY <3>2
    <3> HIDE DEF cmds
    <3> QED
      BY <3>1, <3>3
  <2>2. cmds \subseteq Command
    <3>1. \A t \in Task : Load(t) \in Command
      BY DEF Load, Command
    <3>2. \A t \in Task : NextBlock(tasks[t]) # NoBlock => Crawl(t, NextBlock(tasks[t])) \in Command
      BY NextBlockType DEF Crawl, Command
    <3> QED
      BY <2>1, <3>1, <3>2
  <2>3. [at |-> "answered", cmds |-> cmds] \in Beat
    BY <2>2 DEF Beat
  <2> QED
    BY <1>0, <2>1, <2>3
<1>5. ASSUME NEW m \in Machine, NEW c \in Command, NEW s, ObeyNewTask(m, c) \/ LoadFails(m, c) \/ ObeyLoad(m, c, s)
      PROVE  beat' \in [Machine -> Beat]
  BY <1>1, <1>5 DEF ObeyNewTask, LoadFails, ObeyLoad
<1>6. ASSUME NEW m \in Machine, LoseAnswer(m) \/ Sleep(m) \/ Crash(m)
      PROVE  beat' \in [Machine -> Beat]
  BY <1>2, <1>6 DEF LoseAnswer, Sleep, Crash
<1>7. ASSUME \/ \E t \in Task : SubmitTask(t)
             \/ \E m \in Machine : ReleaseResource(m) \/ Restart(m)
             \/ \E m \in Machine, s \in Spider : PutSpider(m, s) \/ RegisterSpider(m, s) \/ CrawlRow(m, s)
             \/ \E m \in Machine, d \in Download : OpenFile(m, d) \/ FinishDownload(m, d) \/ LoseDownload(m, d)
             \/ \E m \in Machine, p \in Parser : Parse(m, p)
             \/ UNCHANGED vars
      PROVE  beat' = beat
  BY <1>7 DEF SubmitTask, ReleaseResource, Restart, PutSpider, RegisterSpider, CrawlRow, OpenFile,
       FinishDownload, LoseDownload, Parse, vars
<1> QED
  BY <1>0, <1>3, <1>4, <1>5, <1>6, <1>7, StepCases
    DEF FollowerStep, Obey, LoadStep, DownloadStep, ParseStep, CrawlStep

LEMMA SpidersTyped ==
  ASSUME TypeOK, [Next]_vars
  PROVE  /\ spiders' \in [Machine -> Spider \cup {NoSpider}]
         /\ monitor' \in [Machine -> Spider \cup {NoSpider}]
         /\ loaders' \in [Machine -> SUBSET Loader]
<1>0. /\ spiders \in [Machine -> Spider \cup {NoSpider}]
      /\ monitor \in [Machine -> Spider \cup {NoSpider}]
      /\ loaders \in [Machine -> SUBSET Loader]
  BY DEF TypeOK
<1>1. \A s \in Spider, put \in BOOLEAN : [spider |-> s, put |-> put] \in Loader
  BY DEF Loader
<1>2. ASSUME NEW m \in Machine, NEW s \in Spider, NEW c, ObeyLoad(m, c, s) \/ PutSpider(m, s) \/ RegisterSpider(m, s)
      PROVE  /\ spiders' \in [Machine -> Spider \cup {NoSpider}]
             /\ monitor' \in [Machine -> Spider \cup {NoSpider}]
             /\ loaders' \in [Machine -> SUBSET Loader]
  <2> DEFINE l == [spider |-> s, put |-> FALSE]
             k == [spider |-> s, put |-> TRUE]
  <2>1. l \in Loader /\ k \in Loader
    BY <1>1
  <2>2. /\ spiders' = spiders \/ spiders' = [spiders EXCEPT ![m] = s]
        /\ monitor' = monitor \/ monitor' = [monitor EXCEPT ![m] = IF @ = NoSpider THEN s ELSE @]
        /\ \/ loaders' = [loaders EXCEPT ![m] = @ \cup {l}]
           \/ loaders' = [loaders EXCEPT ![m] = (@ \ {l}) \cup {k}]
           \/ loaders' = [loaders EXCEPT ![m] = @ \ {k}]
    BY <1>2 DEF ObeyLoad, PutSpider, RegisterSpider
  <2> HIDE DEF l, k
  <2> QED
    BY <1>0, <2>1, <2>2
<1>3. ASSUME NEW m \in Machine, Crash(m)
      PROVE  /\ spiders' \in [Machine -> Spider \cup {NoSpider}]
             /\ monitor' \in [Machine -> Spider \cup {NoSpider}]
             /\ loaders' \in [Machine -> SUBSET Loader]
  BY <1>0, <1>3 DEF Crash
<1>4. ASSUME \/ \E t \in Task : SubmitTask(t)
             \/ \E m \in Machine : \/ ReleaseResource(m) \/ Restart(m) \/ HandleHeartBeat(m) \/ SendHeartBeat(m)
                                   \/ LoseAnswer(m) \/ Sleep(m)
                                   \/ \E c \in Command : ObeyNewTask(m, c) \/ LoadFails(m, c)
             \/ \E m \in Machine, s \in Spider : CrawlRow(m, s)
             \/ \E m \in Machine, d \in Download : OpenFile(m, d) \/ FinishDownload(m, d) \/ LoseDownload(m, d)
             \/ \E m \in Machine, p \in Parser : Parse(m, p)
             \/ UNCHANGED vars
      PROVE  UNCHANGED spiderVars
  BY <1>4 DEF SubmitTask, ReleaseResource, Restart, HandleHeartBeat, SendHeartBeat, LoseAnswer, Sleep,
       ObeyNewTask, LoadFails, CrawlRow, OpenFile, FinishDownload, LoseDownload, Parse, vars
<1> QED
  BY <1>0, <1>2, <1>3, <1>4, StepCases
    DEF spiderVars, FollowerStep, Obey, LoadStep, DownloadStep, ParseStep, CrawlStep

\* What a parse thread finds goes to the spider, and is all of the block or an
\* excuse.
LEMMA ParseEffect ==
  ASSUME NEW m \in Machine, NEW p \in Parser, Parse(m, p)
  PROVE  \E rows \in 0 .. Size(p.block) :
           /\ rows = 0 \/ spiders[m] = NoSpider => queue' = queue
           /\ rows # 0 /\ spiders[m] # NoSpider =>
                queue' = [queue EXCEPT ![m] = [queue[m] EXCEPT ![spiders[m]] =
                    Append(queue[m][spiders[m]], [task |-> p.task, block |-> p.block, rows |-> rows])]]
           /\ rows = Size(p.block) /\ spiders[m] # NoSpider => <<p.task, p.block>> \in scheduled'
           /\ rows # Size(p.block) => <<p.task, p.block>> \in excused'
<1>1. PICK rows \in Found(m, p) :
     /\ queue' = IF rows = 0 \/ spiders[m] = NoSpider THEN queue ELSE
          [queue EXCEPT ![m][spiders[m]] = Append(@, [task |-> p.task, block |-> p.block, rows |-> rows])]
     /\ scheduled' = IF rows = Size(p.block) /\ spiders[m] # NoSpider
                     THEN scheduled \cup {<<p.task, p.block>>} ELSE scheduled
     /\ excused' = IF rows = Size(p.block) THEN excused ELSE excused \cup {<<p.task, p.block>>}
  BY DEF Parse
<1>2. rows \in 0 .. Size(p.block)
  <2>1. p.block \in Block
    BY DEF Parser
  <2>2. Size(p.block) \in 1 .. RowPerBlock
    BY <2>1, SizeFits
  <2>3. Size(p.block) \in 0 .. Size(p.block)
    BY <2>2, RowAssumption
  <2> QED
    BY <1>1, <2>3 DEF Found
<1> QED
  BY <1>1, <1>2

\* The queue after a row is taken: its entries are those of the queue, k places
\* further on.
LEMMA RowTakenEffect ==
  ASSUME NEW q \in Seq(Queued), q # <<>>
  PROVE  /\ RowTaken(q) \in Seq(Queued)
         /\ \E k \in {0, 1} :
              /\ Len(RowTaken(q)) + k = Len(q)
              /\ \A i \in 1 .. Len(RowTaken(q)) :
                   /\ RowTaken(q)[i].task = q[i + k].task /\ RowTaken(q)[i].block = q[i + k].block
                   /\ RowTaken(q)[i].rows <= q[i + k].rows
<1> DEFINE x == q[1]
<1>1. x \in Queued /\ Len(q) \in Nat \ {0} /\ \A i \in 1 .. Len(q) : q[i] \in Queued
  OBVIOUS
<1>2. \A e \in Queued : e.rows \in 1 .. RowPerBlock /\ e.rows \in Nat
  BY RowAssumption DEF Queued
<1>3. CASE x.rows = 1
  <2> DEFINE r == Tail(q)
  <2>1. RowTaken(q) = r
    BY <1>3 DEF RowTaken
  <2>2. r \in Seq(Queued) /\ Len(r) + 1 = Len(q) /\ \A i \in 1 .. Len(r) : r[i] = q[i + 1]
    BY <1>1
  <2>3. \A i \in 1 .. Len(r) : i + 1 \in 1 .. Len(q)
    BY <1>1, <2>2
  <2> HIDE DEF r
  <2>4. \A i \in 1 .. Len(r) : r[i].rows <= q[i + 1].rows
    BY <1>1, <1>2, <2>2, <2>3
  <2> QED
    BY <2>1, <2>2, <2>4
<1>4. CASE x.rows # 1
  <2> DEFINE y == [x EXCEPT !.rows = x.rows - 1]
             r == [q EXCEPT ![1] = y]
  <2>1. RowTaken(q) = r
    BY <1>4 DEF RowTaken
  <2>2. y \in Queued /\ y.task = x.task /\ y.block = x.block /\ y.rows <= x.rows
    BY <1>1, <1>4, RowAssumption DEF Queued
  <2> HIDE DEF y
  <2>3. /\ r \in Seq(Queued) /\ Len(r) + 0 = Len(q)
        /\ \A i \in 1 .. Len(r) : r[i] = (IF i = 1 THEN y ELSE q[i])
    BY <1>1, <2>2
  <2> HIDE DEF r
  <2>4. \A i \in 1 .. Len(r) :
          r[i].task = q[i + 0].task /\ r[i].block = q[i + 0].block /\ r[i].rows <= q[i + 0].rows
    BY <1>1, <1>2, <2>2, <2>3
  <2> QED
    BY <2>1, <2>3, <2>4
<1> QED
  BY <1>3, <1>4

LEMMA QueueTyped ==
  ASSUME TypeOK, [Next]_vars
  PROVE  queue' \in [Machine -> [Spider -> Seq(Queued)]]
<1>0. queue \in [Machine -> [Spider -> Seq(Queued)]] /\ spiders \in [Machine -> Spider \cup {NoSpider}]
  BY DEF TypeOK
<1>1. ASSUME NEW m \in Machine, NEW s \in Spider, NEW q \in Seq(Queued),
             queue' = [queue EXCEPT ![m] = [queue[m] EXCEPT ![s] = q]]
      PROVE  queue' \in [Machine -> [Spider -> Seq(Queued)]]
  <2>1. [queue[m] EXCEPT ![s] = q] \in [Spider -> Seq(Queued)]
    BY <1>0
  <2> QED
    BY <1>0, <1>1, <2>1
<1>2. ASSUME NEW m \in Machine, NEW p \in Parser, Parse(m, p)
      PROVE  queue' \in [Machine -> [Spider -> Seq(Queued)]]
  <2>1. PICK rows \in 0 .. Size(p.block) :
           /\ rows = 0 \/ spiders[m] = NoSpider => queue' = queue
           /\ rows # 0 /\ spiders[m] # NoSpider =>
                queue' = [queue EXCEPT ![m] = [queue[m] EXCEPT ![spiders[m]] =
                    Append(queue[m][spiders[m]], [task |-> p.task, block |-> p.block, rows |-> rows])]]
           /\ rows = Size(p.block) /\ spiders[m] # NoSpider => <<p.task, p.block>> \in scheduled'
           /\ rows # Size(p.block) => <<p.task, p.block>> \in excused'
    BY <1>2, ParseEffect
  <2>2. CASE rows # 0 /\ spiders[m] # NoSpider
    <3> DEFINE e == [task |-> p.task, block |-> p.block, rows |-> rows]
    <3>1. p.task \in Task /\ p.block \in Block
      BY DEF Parser
    <3>2. rows \in 1 .. RowPerBlock
      BY <2>2, <3>1, SizeFits, RowAssumption
    <3>3. e \in Queued
      BY <3>1, <3>2 DEF Queued
    <3>4. spiders[m] \in Spider /\ queue[m][spiders[m]] \in Seq(Queued)
      BY <1>0, <2>2
    <3> HIDE DEF e
    <3>5. Append(queue[m][spiders[m]], e) \in Seq(Queued)
      BY <3>3, <3>4
    <3>6. queue' = [queue EXCEPT ![m] = [queue[m] EXCEPT ![spiders[m]] = Append(queue[m][spiders[m]], e)]]
      BY <2>1, <2>2 DEF e
    <3> QED
      BY <1>1, <3>4, <3>5, <3>6
  <2> QED
    BY <1>0, <2>1, <2>2
<1>3. ASSUME NEW m \in Machine, NEW s \in Spider, CrawlRow(m, s)
      PROVE  queue' \in [Machine -> [Spider -> Seq(Queued)]]
  <2>1. queue[m][s] \in Seq(Queued) /\ queue[m][s] # <<>>
    BY <1>0, <1>3 DEF CrawlRow
  <2>2. queue' = [queue EXCEPT ![m] = [queue[m] EXCEPT ![s] = RowTaken(queue[m][s])]]
    BY <1>3 DEF CrawlRow
  <2> QED
    BY <1>1, <2>1, <2>2, RowTakenEffect
<1>4. ASSUME NEW m \in Machine, Crash(m)
      PROVE  queue' \in [Machine -> [Spider -> Seq(Queued)]]
  <2>1. queue' = [queue EXCEPT ![m] = [s \in Spider |-> <<>>]]
    BY <1>4 DEF Crash
  <2>2. [s \in Spider |-> <<>>] \in [Spider -> Seq(Queued)]
    OBVIOUS
  <2> QED
    BY <1>0, <2>1, <2>2
<1>5. ASSUME \/ \E t \in Task : SubmitTask(t)
             \/ \E m \in Machine : \/ ReleaseResource(m) \/ Restart(m) \/ HandleHeartBeat(m) \/ SendHeartBeat(m)
                                   \/ LoseAnswer(m) \/ Sleep(m)
                                   \/ \E c \in Command : \/ ObeyNewTask(m, c) \/ LoadFails(m, c)
                                                         \/ \E s \in Spider : ObeyLoad(m, c, s)
             \/ \E m \in Machine, s \in Spider : PutSpider(m, s) \/ RegisterSpider(m, s)
             \/ \E m \in Machine, d \in Download : OpenFile(m, d) \/ FinishDownload(m, d) \/ LoseDownload(m, d)
             \/ UNCHANGED vars
      PROVE  UNCHANGED queue
  BY <1>5 DEF SubmitTask, ReleaseResource, Restart, HandleHeartBeat, SendHeartBeat, LoseAnswer, Sleep,
       ObeyNewTask, LoadFails, ObeyLoad, PutSpider, RegisterSpider, OpenFile, FinishDownload, LoseDownload, vars
<1> QED
  BY <1>0, <1>2, <1>3, <1>4, <1>5, StepCases
    DEF FollowerStep, Obey, LoadStep, DownloadStep, ParseStep, CrawlStep

\* Files, downloads and parse threads.
FilesType ==
  /\ downloads \in [Machine -> SUBSET Download] /\ parsers \in [Machine -> SUBSET Parser]
  /\ taskFilePathCache \in [Machine -> SUBSET Task]
  /\ taskFile \in [Machine -> [Task -> [whole : BOOLEAN, opener : Block \cup {NoBlock}]]]

LEMMA FilesTyped ==
  ASSUME TypeOK, [Next]_vars
  PROVE  FilesType'
<1>0. FilesType
  BY DEF TypeOK, FilesType
<1>1. ASSUME NEW m \in Machine, NEW c \in Command, ObeyNewTask(m, c) PROVE FilesType'
  <2> DEFINE d == [task |-> c.task, block |-> c.block, opened |-> FALSE]
             cached == c.task \in taskFilePathCache[m]
             p == [task |-> c.task, block |-> c.block, ready |-> cached]
  <2>1. c.task \in Task /\ c.block \in Block
    BY <1>1 DEF ObeyNewTask, Command
  <2>2. d \in Download /\ p \in Parser
    BY <2>1 DEF Download, Parser
  <2>3. /\ parsers' = [parsers EXCEPT ![m] = @ \cup {p}]
        /\ downloads' = downloads \/ downloads' = [downloads EXCEPT ![m] = @ \cup {d}]
        /\ UNCHANGED <<taskFilePathCache, taskFile>>
    BY <1>1 DEF ObeyNewTask
  <2> HIDE DEF d, p
  <2> QED
    BY <1>0, <2>2, <2>3 DEF FilesType
<1>2. ASSUME NEW m \in Machine, NEW d \in Download, OpenFile(m, d) PROVE FilesType'
  <2> DEFINE o == [d EXCEPT !.opened = TRUE]
             f == [whole |-> FALSE, opener |-> d.block]
  <2>1. o \in Download /\ f \in [whole : BOOLEAN, opener : Block \cup {NoBlock}] /\ d.task \in Task
    BY DEF Download
  <2>2. /\ downloads' = [downloads EXCEPT ![m] = (@ \ {d}) \cup {o}]
        /\ taskFile' = [taskFile EXCEPT ![m] = [taskFile[m] EXCEPT ![d.task] = f]]
        /\ UNCHANGED <<parsers, taskFilePathCache>>
    BY <1>2 DEF OpenFile
  <2> HIDE DEF o, f
  <2> QED
    BY <1>0, <2>1, <2>2 DEF FilesType
<1>3. ASSUME NEW m \in Machine, NEW d \in Download, FinishDownload(m, d) PROVE FilesType'
  <2> DEFINE ps == {IF p.task = d.task /\ p.block = d.block THEN [p EXCEPT !.ready = TRUE] ELSE p : p \in parsers[m]}
             was == taskFile[m][d.task]
  <2>1. was \in [whole : BOOLEAN, opener : Block \cup {NoBlock}] /\ d.task \in Task
    BY <1>0 DEF FilesType, Download
  <2>2. ps \subseteq Parser
    <3>1. \A p \in Parser : [p EXCEPT !.ready = TRUE] \in Parser
      BY DEF Parser
    <3>2. parsers[m] \subseteq Parser
      BY <1>0 DEF FilesType
    <3> QED
      BY <3>1, <3>2
  <2>3. PICK whole \in Completed(m, d) : taskFile' = [taskFile EXCEPT ![m][d.task].whole = whole]
    BY <1>3 DEF FinishDownload
  <2>4. whole \in BOOLEAN
    BY <2>1 DEF Completed
  <2> DEFINE f == [was EXCEPT !.whole = whole]
  <2>5. f \in [whole : BOOLEAN, opener : Block \cup {NoBlock}]
    BY <2>1, <2>4
  <2>6. taskFile' = [taskFile EXCEPT ![m] = [taskFile[m] EXCEPT ![d.task] = f]]
    BY <2>3
  <2>7. /\ downloads' = [downloads EXCEPT ![m] = @ \ {d}]
        /\ parsers' = [parsers EXCEPT ![m] = ps]
        /\ taskFilePathCache' = [taskFilePathCache EXCEPT ![m] = @ \cup {d.task}]
    BY <1>3 DEF FinishDownload
  <2> HIDE DEF ps, f
  <2> QED
    BY <1>0, <2>1, <2>2, <2>5, <2>6, <2>7 DEF FilesType
<1>4. ASSUME NEW m \in Machine, \/ \E d \in Download : LoseDownload(m, d)
                                \/ \E p \in Parser : Parse(m, p)
      PROVE  FilesType'
  BY <1>0, <1>4 DEF FilesType, LoseDownload, Parse
<1>5. ASSUME NEW m \in Machine, Crash(m) PROVE FilesType'
  BY <1>0, <1>5 DEF FilesType, Crash
<1>6. ASSUME \/ \E t \in Task : SubmitTask(t)
             \/ \E m \in Machine : \/ ReleaseResource(m) \/ Restart(m) \/ HandleHeartBeat(m) \/ SendHeartBeat(m)
                                   \/ LoseAnswer(m) \/ Sleep(m)
                                   \/ \E c \in Command : \/ LoadFails(m, c)
                                                         \/ \E s \in Spider : ObeyLoad(m, c, s)
             \/ \E m \in Machine, s \in Spider : PutSpider(m, s) \/ RegisterSpider(m, s) \/ CrawlRow(m, s)
             \/ UNCHANGED vars
      PROVE  UNCHANGED fileVars
  BY <1>6 DEF SubmitTask, ReleaseResource, Restart, HandleHeartBeat, SendHeartBeat, LoseAnswer, Sleep,
       LoadFails, ObeyLoad, PutSpider, RegisterSpider, CrawlRow, vars
<1>7. UNCHANGED fileVars => FilesType'
  BY <1>0 DEF FilesType, fileVars
<1> QED
  BY <1>1, <1>2, <1>3, <1>4, <1>5, <1>6, <1>7, StepCases
    DEF FollowerStep, Obey, LoadStep, DownloadStep, ParseStep, CrawlStep

\* What is told, excused, robbed and scheduled is only added to.
LEMMA HistoryGrows ==
  ASSUME [Next]_vars
  PROVE  scheduled \subseteq scheduled' /\ excused \subseteq excused' /\ robbed \subseteq robbed'
<1>1. ASSUME NEW m \in Machine, HandleHeartBeat(m) \/ ReleaseResource(m) \/ LoseAnswer(m) \/ Crash(m)
      PROVE  scheduled \subseteq scheduled' /\ excused \subseteq excused' /\ robbed \subseteq robbed'
  BY <1>1 DEF HandleHeartBeat, ReleaseResource, LoseAnswer, Crash
<1>2. ASSUME NEW m \in Machine, NEW p \in Parser, Parse(m, p)
      PROVE  scheduled \subseteq scheduled' /\ excused \subseteq excused' /\ robbed \subseteq robbed'
  BY <1>2 DEF Parse
<1>3. ASSUME \/ \E t \in Task : SubmitTask(t)
             \/ \E m \in Machine : \/ Restart(m) \/ SendHeartBeat(m) \/ Sleep(m)
                                   \/ \E c \in Command : \/ LoadFails(m, c) \/ ObeyNewTask(m, c)
                                                         \/ \E s \in Spider : ObeyLoad(m, c, s)
             \/ \E m \in Machine, s \in Spider : PutSpider(m, s) \/ RegisterSpider(m, s) \/ CrawlRow(m, s)
             \/ \E m \in Machine, d \in Download : OpenFile(m, d) \/ FinishDownload(m, d) \/ LoseDownload(m, d)
             \/ UNCHANGED vars
      PROVE  UNCHANGED history
  BY <1>3 DEF SubmitTask, Restart, SendHeartBeat, Sleep, LoadFails, ObeyNewTask, ObeyLoad, PutSpider,
       RegisterSpider, CrawlRow, OpenFile, FinishDownload, LoseDownload, vars
<1> QED
  BY <1>1, <1>2, <1>3, StepCases
    DEF history, FollowerStep, Obey, LoadStep, DownloadStep, ParseStep, CrawlStep

LEMMA RestTyped ==
  ASSUME TypeOK, AllConsistent, [Next]_vars
  PROVE  /\ progress' \subseteq Task /\ isJar' \in BOOLEAN
         /\ up' \subseteq Machine /\ crashes' \in 0 .. MaxCrash /\ released' \in [Machine -> BOOLEAN]
         /\ scheduled' \subseteq Task \X Block
         /\ excused' \subseteq Task \X Block /\ robbed' \subseteq Task \X Block
<1> DEFINE Rest == /\ progress \subseteq Task /\ isJar \in BOOLEAN
                   /\ up \subseteq Machine /\ crashes \in 0 .. MaxCrash /\ released \in [Machine -> BOOLEAN]
                   /\ scheduled \subseteq Task \X Block
                   /\ excused \subseteq Task \X Block /\ robbed \subseteq Task \X Block
<1> SUFFICES Rest'
  OBVIOUS
<1>0. Rest
  BY DEF TypeOK
<1>1. ASSUME NEW m \in Machine, HandleHeartBeat(m) PROVE Rest'
  <2> DEFINE polled == {t \in {t \in progress : ~tasks[t].over} : beat[m].report.found /\ NearlyIdle(beat[m].report)}
  <2>1. polled \in SUBSET Task
    BY <1>0
  <2>2. Logged(m, polled) \subseteq Task \X Block
    BY <2>1, LoggedType
  <2>3. excused' \subseteq excused \cup Logged(m, polled)
    BY Zenon, <1>1 DEF HandleHeartBeat
  <2>4. UNCHANGED <<progress, isJar, nodeVars, scheduled, robbed>>
    BY <1>1 DEF HandleHeartBeat
  <2> HIDE DEF polled
  <2> QED
    BY <1>0, <2>2, <2>3, <2>4 DEF nodeVars
<1>2. ASSUME NEW m \in Machine, LoseAnswer(m) PROVE Rest'
  <2>1. beat[m].cmds \subseteq Command
    <3>1. beat[m] \in Beat /\ beat[m].at = "answered"
      BY <1>2 DEF LoseAnswer, TypeOK
    <3> QED
      BY <3>1 DEF Beat, Sleeping
  <2>2. {<<c.task, c.block>> : c \in {c \in beat[m].cmds : c.cmd = "crawl"}} \subseteq Task \X Block
    BY <2>1 DEF Command
  <2> QED
    BY <1>0, <1>2, <2>2 DEF LoseAnswer, masterVars, nodeVars
<1>3. ASSUME NEW m \in Machine, ReleaseResource(m) PROVE Rest'
  <2>1. Logged(m, progress) \subseteq Task \X Block
    BY <1>0, LoggedType
  <2> QED
    BY <1>0, <1>3, <2>1 DEF ReleaseResource
<1>4. ASSUME NEW m \in Machine, Crash(m) PROVE Rest'
  <2>1. Logged(m, progress) \subseteq Task \X Block
    BY <1>0, LoggedType
  <2> QED
    BY <1>0, <1>4, <2>1, ClusterAssumption DEF Crash, masterVars
<1>5. ASSUME NEW m \in Machine, NEW p \in Parser, Parse(m, p) PROVE Rest'
  <2>1. <<p.task, p.block>> \in Task \X Block
    BY DEF Parser
  <2>2. /\ scheduled' \subseteq scheduled \cup {<<p.task, p.block>>}
        /\ excused' \subseteq excused \cup {<<p.task, p.block>>}
        /\ UNCHANGED <<progress, isJar, up, crashes, released, robbed>>
    BY <1>5 DEF Parse, masterVars, nodeVars
  <2> QED
    BY <1>0, <2>1, <2>2
<1>6. ASSUME \/ \E t \in Task : SubmitTask(t)
             \/ \E m \in Machine : Restart(m)
      PROVE  Rest'
  BY <1>0, <1>6 DEF SubmitTask, Restart, masterVars, nodeVars, history
<1>7. ASSUME \/ \E m \in Machine : \/ SendHeartBeat(m) \/ Sleep(m)
                                   \/ \E c \in Command : \/ LoadFails(m, c) \/ ObeyNewTask(m, c)
                                                         \/ \E s \in Spider : ObeyLoad(m, c, s)
             \/ \E m \in Machine, s \in Spider : PutSpider(m, s) \/ RegisterSpider(m, s) \/ CrawlRow(m, s)
             \/ \E m \in Machine, d \in Download : OpenFile(m, d) \/ FinishDownload(m, d) \/ LoseDownload(m, d)
             \/ UNCHANGED vars
      PROVE  UNCHANGED <<masterVars, nodeVars, history>>
  BY <1>7 DEF SendHeartBeat, Sleep, LoadFails, ObeyNewTask, ObeyLoad, PutSpider,
       RegisterSpider, CrawlRow, OpenFile, FinishDownload, LoseDownload, vars
<1>8. UNCHANGED <<masterVars, nodeVars, history>> => Rest'
  BY <1>0 DEF masterVars, nodeVars, history
<1> HIDE DEF Rest
<1>9. ASSUME NEW m \in Machine, FollowerStep(m) PROVE Rest'
  BY <1>2, <1>4, <1>5, <1>7, <1>8, <1>9
    DEF FollowerStep, Obey, LoadStep, DownloadStep, ParseStep, CrawlStep
<1> QED
  BY <1>1, <1>3, <1>6, <1>7, <1>8, <1>9, StepCases

Formed == TypeOK /\ AllConsistent

LEMMA FormedStep == Formed /\ [Next]_vars => Formed'
<1> SUFFICES ASSUME Formed, [Next]_vars PROVE Formed'
  OBVIOUS
<1>1. AllConsistent'
  BY AllConsistentStep DEF Formed
<1>2. tasks' \in [Task -> TaskType]
  BY <1>1 DEF AllConsistent
<1> QED
  BY <1>1, <1>2, BeatTyped, SpidersTyped, QueueTyped, FilesTyped, RestTyped DEF Formed, TypeOK, FilesType

LEMMA FormedInit == Init => Formed
<1> SUFFICES ASSUME Init PROVE Formed
  OBVIOUS
<1>1. AllConsistent
  BY AllConsistentInit
<1>2. tasks \in [Task -> TaskType]
  BY <1>1 DEF AllConsistent
<1>3. beat \in [Machine -> Beat]
  BY DEF Init, Beat
<1>4. queue \in [Machine -> [Spider -> Seq(Queued)]]
  <2>1. [s \in Spider |-> <<>>] \in [Spider -> Seq(Queued)]
    OBVIOUS
  <2> QED
    BY <2>1 DEF Init
<1>5. taskFile \in [Machine -> [Task -> [whole : BOOLEAN, opener : Block \cup {NoBlock}]]]
  <2>1. NoFile \in [whole : BOOLEAN, opener : Block \cup {NoBlock}]
    BY DEF NoFile
  <2> QED
    BY <2>1 DEF Init
<1> QED
  BY <1>1, <1>2, <1>3, <1>4, <1>5, ClusterAssumption DEF Init, Formed, TypeOK

\* The master's tasks and the followers are well formed, for any machines and
\* tasks and any number of spiders and crashes.
THEOREM ClusterTypeCorrect == Spec => []TypeOK
<1>1. Formed => TypeOK
  BY DEF Formed
<1> QED
  BY <1>1, FormedInit, FormedStep, PTL DEF Spec

-----------------------------------------------------------------------------
(* Each task implements the ledger, whatever the followers do.              *)

LedgerOf(t) == INSTANCE BlockLedger WITH place <- PlaceOf(tasks[t]), finished <- tasks[t].over

LEMMA LedgerStep ==
  ASSUME NEW t \in Task, AllConsistent, [Next]_vars
  PROVE  [LedgerOf(t)!Next]_(LedgerOf(t)!vars)
<1>0. tasks \in [Task -> TaskType] /\ Consistent(tasks[t])
  BY DEF AllConsistent
<1>1. ASSUME tasks'[t] = tasks[t]
      PROVE  UNCHANGED LedgerOf(t)!vars
  BY <1>1 DEF LedgerOf!vars
<1>2. ASSUME NEW m \in Machine, tasks'[t] = CheckAndPoll(tasks[t], m)
      PROVE  LedgerOf(t)!Next
  <2>1. LedgerOf(t)!TurnIn(m) \/ \E b \in Block : LedgerOf(t)!Exchange(m, b)
    BY <1>0, <1>2, PollPlaces DEF LedgerOf!TurnIn, LedgerOf!Exchange, TurnedIn, Exchanged, AllCredited
  <2> QED
    BY <2>1 DEF LedgerOf!Next
<1>3. ASSUME NEW m \in Machine, tasks'[t] = ReturnCrawlTask(tasks[t], m)
      PROVE  LedgerOf(t)!Next
  <2>1. LedgerOf(t)!GiveBack(m)
    BY <1>0, <1>3, ReturnPlaces DEF LedgerOf!GiveBack
  <2> QED
    BY <2>1 DEF LedgerOf!Next
<1>4. \/ tasks'[t] = tasks[t]
      \/ \E m \in Machine : tasks'[t] \in {CheckAndPoll(tasks[t], m), ReturnCrawlTask(tasks[t], m)}
  BY <1>0, TaskSteps
<1> QED
  BY <1>1, <1>2, <1>3, <1>4

\* To each task whatever happens in the cluster, lost answers and crashes included,
\* is a turn-in, an exchange or a give-back of its own ledger.
THEOREM ClusterTasksImplementLedgers == Spec => \A t \in Task : LedgerOf(t)!Spec
<1> SUFFICES ASSUME NEW t \in Task PROVE Spec => LedgerOf(t)!Spec
  OBVIOUS
<1>1. Init => LedgerOf(t)!Init
  BY NewTaskPlaces DEF Init, LedgerOf!Init
<1>2. Init => AllConsistent
  BY AllConsistentInit
<1>3. AllConsistent /\ [Next]_vars => AllConsistent'
  BY AllConsistentStep
<1>4. AllConsistent /\ [Next]_vars => [LedgerOf(t)!Next]_(LedgerOf(t)!vars)
  BY LedgerStep
<1> QED
  BY <1>1, <1>2, <1>3, <1>4, PTL DEF Spec, LedgerOf!Spec

-----------------------------------------------------------------------------
(* What a machine has to do with a block, and the invariant of one         *)
(* machine.                                                                *)

\* The answer that the heartbeat thread is working through sends it the block.
Told(m, t, b)     == beat[m].at \in {"answered", "obey"} /\ Crawl(t, b) \in beat[m].cmds
Involved(m, t, b) == Told(m, t, b) \/ WorksOn(m, t, b)

\* The spider is put into the map before it is registered.
SpiderFirst(m) ==
  /\ monitor[m] # NoSpider => spiders[m] # NoSpider
  /\ \A s \in Spider : [spider |-> s, put |-> TRUE] \in loaders[m] => spiders[m] # NoSpider

\* Before a spider is registered no block comes to the machine, and the master is
\* not told of one.
NothingBefore(m) ==
  monitor[m] = NoSpider =>
    /\ \A t \in Task, b \in Block : ~Involved(m, t, b)
    /\ beat[m].at = "sent" => ~beat[m].report.found

\* A spider that is still to be put into the map is not the registered one.
LoadedOnce(m) ==
  \A s \in Spider : [spider |-> s, put |-> FALSE] \in loaders[m] =>
    s # monitor[m] /\ [spider |-> s, put |-> TRUE] \notin loaders[m]

\* While the spider in the map is the registered one it alone has rows.
OneQueue(m) == monitor[m] = spiders[m] => \A s \in Spider \ {monitor[m]} : queue[m][s] = <<>>

\* Until the master has it a report stays an upper bound: a block that was not
\* being parsed when it was written has no more rows than it says.
ReportHolds(m) ==
  beat[m].at = "sent" =>
    \A t \in Task, b \in Block : <<t, b>> \notin beat[m].report.parsing =>
      /\ ~Parses(m, t, b)
      /\ beat[m].report.found => RowsOfBlock(queue[m][monitor[m]], t, b) <= beat[m].report.left

DownIsEmpty(m) == m \notin up => beat[m] = Sleeping /\ monitor[m] = NoSpider /\ loaders[m] = {}

NodeInv(m) ==
  SpiderFirst(m) /\ NothingBefore(m) /\ LoadedOnce(m) /\ OneQueue(m) /\ ReportHolds(m) /\ DownIsEmpty(m)

NodesInv == \A m \in Machine : NodeInv(m)

-----------------------------------------------------------------------------
(* A step of one machine leaves the others alone.                          *)

SameNode(n) ==
  /\ UNCHANGED <<beat[n], spiders[n], monitor[n], loaders[n], queue[n], parsers[n]>>
  /\ n \in up <=> n \in up'

LEMMA OthersRest ==
  ASSUME Formed, NEW m \in Machine, NEW n \in Machine, n # m,
         FollowerStep(m) \/ HandleHeartBeat(m) \/ Restart(m)
  PROVE  SameNode(n)
<1>0. /\ beat \in [Machine -> Beat]
      /\ spiders \in [Machine -> Spider \cup {NoSpider}] /\ monitor \in [Machine -> Spider \cup {NoSpider}]
      /\ loaders \in [Machine -> SUBSET Loader] /\ queue \in [Machine -> [Spider -> Seq(Queued)]]
      /\ parsers \in [Machine -> SUBSET Parser]
  BY DEF Formed, TypeOK
<1>1. ASSUME HandleHeartBeat(m) \/ SendHeartBeat(m) \/ LoseAnswer(m) \/ Sleep(m) PROVE SameNode(n)
  BY <1>0, <1>1 DEF HandleHeartBeat, SendHeartBeat, LoseAnswer, Sleep, SameNode, spiderVars,
     fileVars, nodeVars
<1>2. ASSUME NEW c, NEW s, ObeyNewTask(m, c) \/ LoadFails(m, c) \/ ObeyLoad(m, c, s) PROVE SameNode(n)
  BY <1>0, <1>2 DEF ObeyNewTask, LoadFails, ObeyLoad, Obeyed, SameNode, spiderVars, fileVars, nodeVars
<1>3. ASSUME NEW s, PutSpider(m, s) \/ RegisterSpider(m, s) PROVE SameNode(n)
  BY <1>0, <1>3 DEF PutSpider, RegisterSpider, SameNode, fileVars, nodeVars
<1>4. ASSUME NEW d, OpenFile(m, d) \/ FinishDownload(m, d) \/ LoseDownload(m, d) PROVE SameNode(n)
  BY <1>0, <1>4 DEF OpenFile, FinishDownload, LoseDownload, SameNode, spiderVars, nodeVars
<1>5. ASSUME NEW p, Parse(m, p) PROVE SameNode(n)
  BY <1>0, <1>5 DEF Parse, SameNode, spiderVars, nodeVars
<1>6. ASSUME NEW s, CrawlRow(m, s) PROVE SameNode(n)
  BY <1>0, <1>6 DEF CrawlRow, SameNode, spiderVars, fileVars, nodeVars
<1>7. ASSUME Crash(m) PROVE SameNode(n)
  BY <1>0, <1>7 DEF Crash, SameNode
<1>8. ASSUME Restart(m) PROVE SameNode(n)
  BY <1>0, <1>8 DEF Restart, SameNode, spiderVars, fileVars
<1> QED
  BY <1>1, <1>2, <1>3, <1>4, <1>5, <1>6, <1>7, <1>8
    DEF FollowerStep, Obey, LoadStep, DownloadStep, ParseStep, CrawlStep

LEMMA SameInvolved ==
  ASSUME NEW n \in Machine, SameNode(n), NEW t \in Task, NEW b \in Block
  PROVE  /\ Told(n, t, b)' <=> Told(n, t, b)
         /\ Parses(n, t, b)' <=> Parses(n, t, b)
         /\ Crawls(n, t, b)' <=> Crawls(n, t, b)
         /\ Involved(n, t, b)' <=> Involved(n, t, b)
<1>1. /\ Told(n, t, b)' <=> Told(n, t, b)
      /\ Parses(n, t, b)' <=> Parses(n, t, b)
  BY DEF SameNode, Told, Parses
<1>2. Crawls(n, t, b)' <=> Crawls(n, t, b)
  BY DEF SameNode, Crawls
<1> QED
  BY <1>1, <1>2 DEF Involved, WorksOn

LEMMA SameNodeInv ==
  ASSUME NEW n \in Machine, SameNode(n), NodeInv(n)
  PROVE  NodeInv(n)'
<1>0. /\ beat'[n] = beat[n] /\ spiders'[n] = spiders[n] /\ monitor'[n] = monitor[n]
      /\ loaders'[n] = loaders[n] /\ queue'[n] = queue[n]
      /\ n \in up <=> n \in up'
  BY DEF SameNode
<1>1. SpiderFirst(n)' /\ LoadedOnce(n)' /\ DownIsEmpty(n)' /\ OneQueue(n)'
  BY <1>0 DEF NodeInv, SpiderFirst, LoadedOnce, DownIsEmpty, OneQueue
<1>2. NothingBefore(n)'
  BY <1>0, SameInvolved DEF NodeInv, NothingBefore
<1>3. ReportHolds(n)'
  <2> SUFFICES ASSUME beat[n].at = "sent", NEW t \in Task, NEW b \in Block, <<t, b>> \notin beat[n].report.parsing
               PROVE  /\ ~Parses(n, t, b)'
                      /\ beat[n].report.found =>
                           RowsOfBlock(queue[n][monitor[n]], t, b) <= beat[n].report.left
    BY <1>0 DEF ReportHolds
  <2> QED
    BY SameInvolved DEF NodeInv, ReportHolds
<1> QED
  BY <1>1, <1>2, <1>3 DEF NodeInv

-----------------------------------------------------------------------------
(* Queues.                                                                 *)

\* A queue without entries of a block has no rows of it.
LEMMA NoRows ==
  ASSUME NEW q \in Seq(Queued), NEW t, NEW b, EntriesOf(q, t, b) = {}
  PROVE  RowsOfBlock(q, t, b) = 0
<1>1. RowsOver(q, {}) \in Nat
  BY RowsOverType
<1>2. <<>> \in Seq(Queued) /\ Len(<<>>) = 0
  OBVIOUS
<1>3. PICK f : SumsTo(f, <<>>, {}, Len(<<>>)) /\ RowsOver(<<>>, {}) = f[Len(<<>>)]
  BY <1>2, RowsOverSums
<1>4. RowsOver(<<>>, {}) = 0
  BY <1>2, <1>3 DEF SumsTo
<1>5. Len(q) \in Nat /\ Len(q) + 0 >= Len(<<>>)
  BY <1>2
<1>6. RowsOver(q, {}) <= RowsOver(<<>>, {})
  BY <1>2, <1>5, RowsOverLeq
<1> QED
  BY <1>1, <1>4, <1>6 DEF RowsOfBlock

LEMMA EmptyQueue ==
  ASSUME NEW q \in Seq(Queued)
  PROVE  /\ q = <<>> => \A t, b : EntriesOf(q, t, b) = {}
         /\ q # <<>> => \E t \in Task, b \in Block : EntriesOf(q, t, b) # {}
<1>1. ASSUME q # <<>> PROVE \E t \in Task, b \in Block : EntriesOf(q, t, b) # {}
  <2>1. 1 \in 1 .. Len(q) /\ q[1] \in Queued
    BY <1>1
  <2>2. q[1].task \in Task /\ q[1].block \in Block
    BY <2>1 DEF Queued
  <2>3. 1 \in EntriesOf(q, q[1].task, q[1].block)
    BY <2>1 DEF EntriesOf
  <2> QED
    BY <2>2, <2>3
<1> QED
  BY <1>1 DEF EntriesOf

\* A queue and what follows it: no more entries, or rows, of a block.
Shrinks(q, r) ==
  /\ q = <<>> => r = <<>>
  /\ \A t, b : EntriesOf(q, t, b) = {} => EntriesOf(r, t, b) = {}
  /\ \A t, b : RowsOfBlock(r, t, b) <= RowsOfBlock(q, t, b)

LEMMA SameShrinks ==
  ASSUME NEW q \in Seq(Queued)
  PROVE  Shrinks(q, q) /\ Shrinks(q, <<>>)
<1>1. \A t, b : RowsOfBlock(q, t, b) \in Nat
  BY RowsOverType DEF RowsOfBlock
<1>2. <<>> \in Seq(Queued)
  OBVIOUS
<1>3. \A t, b : EntriesOf(<<>>, t, b) = {}
  BY <1>2, EmptyQueue
<1>4. \A t, b : RowsOfBlock(<<>>, t, b) = 0
  BY <1>2, <1>3, NoRows
<1> QED
  BY <1>1, <1>3, <1>4 DEF Shrinks

LEMMA TakenShrinks ==
  ASSUME NEW q \in Seq(Queued), q # <<>>
  PROVE  Shrinks(q, RowTaken(q))
<1> DEFINE r == RowTaken(q)
<1>1. r \in Seq(Queued)
  BY RowTakenEffect
<1>2. PICK k \in {0, 1} :
              /\ Len(r) + k = Len(q)
              /\ \A i \in 1 .. Len(r) :
                   /\ r[i].task = q[i + k].task /\ r[i].block = q[i + k].block
                   /\ r[i].rows <= q[i + k].rows
  BY RowTakenEffect
<1> HIDE DEF r
<1>3. Len(r) \in Nat /\ Len(q) \in Nat /\ k \in Nat
  BY <1>1
<1>4. \A i \in 1 .. Len(r) : i + k \in 1 .. Len(q)
  BY <1>2, <1>3
<1>5. ASSUME NEW t, NEW b, NEW i \in EntriesOf(r, t, b)
      PROVE  i \in 1 .. Len(r) /\ i + k \in EntriesOf(q, t, b)
  BY <1>2, <1>4, <1>5 DEF EntriesOf
<1>6. ASSUME NEW t, NEW b PROVE RowsOfBlock(r, t, b) <= RowsOfBlock(q, t, b)
  BY <1>1, <1>2, <1>3, <1>4, <1>5, RowsOverLeq DEF RowsOfBlock
<1>7. ASSUME NEW t, NEW b, EntriesOf(q, t, b) = {} PROVE EntriesOf(r, t, b) = {}
  BY <1>5, <1>7
<1> QED
  BY <1>6, <1>7 DEF Shrinks, r

LEMMA AppendedShrinks ==
  ASSUME NEW q \in Seq(Queued), NEW e \in Queued, NEW t, NEW b, e.task # t \/ e.block # b
  PROVE  /\ RowsOfBlock(Append(q, e), t, b) <= RowsOfBlock(q, t, b)
         /\ EntriesOf(q, t, b) = {} => EntriesOf(Append(q, e), t, b) = {}
<1> DEFINE r == Append(q, e)
<1>1. r \in Seq(Queued) /\ Len(r) = Len(q) + 1 /\ Len(q) \in Nat
  OBVIOUS
<1>2. r[Len(q) + 1] = e /\ \A i \in 1 .. Len(q) : r[i] = q[i]
  OBVIOUS
<1> HIDE DEF r
<1>3. ASSUME NEW i \in EntriesOf(r, t, b) PROVE i \in 1 .. Len(r) /\ i \in 1 .. Len(q) /\ i \in EntriesOf(q, t, b)
  BY <1>1, <1>2, <1>3 DEF EntriesOf
<1>4. \A i \in 1 .. Len(q) : q[i].rows <= q[i].rows /\ i + 0 = i
  <2>1. \A i \in 1 .. Len(q) : q[i] \in Queued
    OBVIOUS
  <2> QED
    BY <2>1, RowAssumption DEF Queued
<1>5. RowsOver(r, EntriesOf(r, t, b)) <= RowsOver(q, EntriesOf(q, t, b))
  <2>1. Len(r) + 0 >= Len(q) /\ 0 \in Nat
    BY <1>1
  <2>2. \A i \in 1 .. Len(r) : i \in EntriesOf(r, t, b) =>
          i + 0 \in 1 .. Len(q) /\ i + 0 \in EntriesOf(q, t, b) /\ r[i].rows <= q[i + 0].rows
    BY <1>2, <1>3, <1>4
  <2> QED
    BY <1>1, <2>1, <2>2, RowsOverLeq
<1>6. EntriesOf(q, t, b) = {} => EntriesOf(r, t, b) = {}
  BY <1>3
<1> QED
  BY <1>5, <1>6 DEF RowsOfBlock, r

-----------------------------------------------------------------------------
(* What the step of a follower does to a block.                            *)

\* What a follower's step does to one of its queues.
LEMMA QueueFlow ==
  ASSUME Formed, NEW m \in Machine, FollowerStep(m), NEW s \in Spider
  PROVE  \/ Shrinks(queue[m][s], queue'[m][s])
         \/ /\ s = spiders[m]
            /\ \E e \in Queued : Parses(m, e.task, e.block) /\ queue'[m][s] = Append(queue[m][s], e)
<1>0. /\ queue \in [Machine -> [Spider -> Seq(Queued)]] /\ spiders \in [Machine -> Spider \cup {NoSpider}]
      /\ queue[m][s] \in Seq(Queued)
  BY DEF Formed, TypeOK
<1>1. ASSUME UNCHANGED queue PROVE Shrinks(queue[m][s], queue'[m][s])
  BY <1>0, <1>1, SameShrinks
<1>2. ASSUME NEW p \in Parser, Parse(m, p)
      PROVE  \/ Shrinks(queue[m][s], queue'[m][s])
             \/ /\ s = spiders[m]
                /\ \E e \in Queued : Parses(m, e.task, e.block) /\ queue'[m][s] = Append(queue[m][s], e)
  <2>1. PICK rows \in 0 .. Size(p.block) :
           /\ rows = 0 \/ spiders[m] = NoSpider => queue' = queue
           /\ rows # 0 /\ spiders[m] # NoSpider =>
                queue' = [queue EXCEPT ![m] = [queue[m] EXCEPT ![spiders[m]] =
                    Append(queue[m][spiders[m]], [task |-> p.task, block |-> p.block, rows |-> rows])]]
           /\ rows = Size(p.block) /\ spiders[m] # NoSpider => <<p.task, p.block>> \in scheduled'
           /\ rows # Size(p.block) => <<p.task, p.block>> \in excused'
    BY <1>2, ParseEffect
  <2>2. CASE rows # 0 /\ spiders[m] # NoSpider
    <3> DEFINE e == [task |-> p.task, block |-> p.block, rows |-> rows]
    <3>1. p.task \in Task /\ p.block \in Block
      BY DEF Parser
    <3>2. rows \in 1 .. RowPerBlock
      BY <2>2, <3>1, SizeFits, RowAssumption
    <3>3. e \in Queued /\ e.task = p.task /\ e.block = p.block
      BY <3>1, <3>2 DEF Queued
    <3>4. Parses(m, p.task, p.block)
      BY <1>2 DEF Parse, Parses
    <3>5. queue' = [queue EXCEPT ![m] = [queue[m] EXCEPT ![spiders[m]] = Append(queue[m][spiders[m]], e)]]
      BY <2>1, <2>2
    <3> HIDE DEF e
    <3>6. queue'[m] = [queue[m] EXCEPT ![spiders[m]] = Append(queue[m][spiders[m]], e)]
      BY <1>0, <3>5
    <3>7. CASE s = spiders[m]
      <4>1. queue'[m][s] = Append(queue[m][s], e)
        BY <1>0, <3>6, <3>7
      <4> QED
        BY <3>3, <3>4, <3>7, <4>1
    <3>8. CASE s # spiders[m]
      <4>1. queue'[m][s] = queue[m][s]
        BY <1>0, <3>6, <3>8
      <4> QED
        BY <1>0, <4>1, SameShrinks
    <3> QED
      BY <3>7, <3>8
  <2> QED
    BY <1>1, <2>1, <2>2
<1>3. ASSUME NEW x \in Spider, CrawlRow(m, x) PROVE Shrinks(queue[m][s], queue'[m][s])
  <2>1. queue[m][x] \in Seq(Queued) /\ queue[m][x] # <<>>
    BY <1>0, <1>3 DEF CrawlRow
  <2>2. queue' = [queue EXCEPT ![m] = [queue[m] EXCEPT ![x] = RowTaken(queue[m][x])]]
    BY <1>3 DEF CrawlRow
  <2>3. queue'[m] = [queue[m] EXCEPT ![x] = RowTaken(queue[m][x])]
    BY <1>0, <2>2
  <2>4. queue'[m][s] = IF s = x THEN RowTaken(queue[m][x]) ELSE queue[m][s]
    BY <1>0, <2>3
  <2> QED
    BY <1>0, <2>1, <2>4, TakenShrinks, SameShrinks
<1>4. ASSUME Crash(m) PROVE Shrinks(queue[m][s], queue'[m][s])
  <2>1. queue'[m][s] = <<>>
    BY <1>0, <1>4 DEF Crash
  <2> QED
    BY <1>0, <2>1, SameShrinks
<1>5. ASSUME \/ SendHeartBeat(m) \/ LoseAnswer(m) \/ Sleep(m)
             \/ \E c \in Command : \/ ObeyNewTask(m, c) \/ LoadFails(m, c)
                                   \/ \E x \in Spider : ObeyLoad(m, c, x)
             \/ \E x \in Spider : PutSpider(m, x) \/ RegisterSpider(m, x)
             \/ \E d \in Download : OpenFile(m, d) \/ FinishDownload(m, d) \/ LoseDownload(m, d)
      PROVE  UNCHANGED queue
  BY <1>5 DEF SendHeartBeat, LoseAnswer, Sleep, ObeyNewTask, LoadFails, ObeyLoad, PutSpider,
       RegisterSpider, OpenFile, FinishDownload, LoseDownload
<1> QED
  BY <1>1, <1>2, <1>3, <1>4, <1>5
    DEF FollowerStep, Obey, LoadStep, DownloadStep, ParseStep, CrawlStep

\* No block is on a machine that was not there before, and its rows there grow
\* only when it is parsed.
LEMMA BlockFlow ==
  ASSUME Formed, NEW m \in Machine, FollowerStep(m), NEW t, NEW b
  PROVE  /\ Told(m, t, b)' => Told(m, t, b)
         /\ Parses(m, t, b)' => Parses(m, t, b) \/ Told(m, t, b)
         /\ Crawls(m, t, b)' => Crawls(m, t, b) \/ Parses(m, t, b)
         /\ \A s \in Spider : RowsOfBlock(queue'[m][s], t, b) <= RowsOfBlock(queue[m][s], t, b)
                              \/ Parses(m, t, b)
<1>0. /\ beat \in [Machine -> Beat] /\ parsers \in [Machine -> SUBSET Parser]
      /\ queue \in [Machine -> [Spider -> Seq(Queued)]]
  BY DEF Formed, TypeOK
<1>1. ASSUME NEW s \in Spider
      PROVE  /\ RowsOfBlock(queue'[m][s], t, b) <= RowsOfBlock(queue[m][s], t, b) \/ Parses(m, t, b)
             /\ EntriesOf(queue'[m][s], t, b) # {} => EntriesOf(queue[m][s], t, b) # {} \/ Parses(m, t, b)
  <2>1. queue[m][s] \in Seq(Queued)
    BY <1>0
  <2>2. CASE Shrinks(queue[m][s], queue'[m][s])
    BY <2>2 DEF Shrinks
  <2>3. ASSUME NEW e \in Queued, Parses(m, e.task, e.block), queue'[m][s] = Append(queue[m][s], e)
        PROVE  /\ RowsOfBlock(queue'[m][s], t, b) <= RowsOfBlock(queue[m][s], t, b) \/ Parses(m, t, b)
               /\ EntriesOf(queue'[m][s], t, b) # {} => EntriesOf(queue[m][s], t, b) # {} \/ Parses(m, t, b)
    <3>1. CASE e.task = t /\ e.block = b
      BY <2>3, <3>1
    <3>2. CASE e.task # t \/ e.block # b
      BY <2>1, <2>3, <3>2, AppendedShrinks
    <3> QED
      BY <3>1, <3>2
  <2> QED
    BY <2>2, <2>3, QueueFlow
<1>2. Crawls(m, t, b)' => Crawls(m, t, b) \/ Parses(m, t, b)
  BY <1>1 DEF Crawls
<1>3. ASSUME NEW c, NEW s, ObeyNewTask(m, c) \/ LoadFails(m, c) \/ ObeyLoad(m, c, s)
      PROVE  /\ Told(m, t, b)' => Told(m, t, b)
             /\ Parses(m, t, b)' => Parses(m, t, b) \/ Told(m, t, b)
  <2>1. /\ beat[m].at \in {"answered", "obey"} /\ c \in beat[m].cmds
        /\ beat'[m].cmds = beat[m].cmds \ {c}
    BY <1>0, <1>3 DEF ObeyNewTask, LoadFails, ObeyLoad, Obeyed
  <2>2. Told(m, t, b)' => Told(m, t, b)
    BY <2>1 DEF Told
  <2>3. CASE c.cmd = "crawl" /\ ObeyNewTask(m, c)
    <3>1. c \in Command
      BY <1>0, <2>1 DEF Beat, Sleeping
    <3>2. c = Crawl(c.task, c.block)
      BY <2>3, <3>1 DEF Command, Crawl
    <3>3. Told(m, c.task, c.block)
      BY <2>1, <3>2 DEF Told
    <3>4. parsers'[m] = parsers[m] \cup
            {[task |-> c.task, block |-> c.block, ready |-> c.task \in taskFilePathCache[m]]}
      BY <1>0, <2>3 DEF ObeyNewTask
    <3> QED
      BY <2>2, <3>3, <3>4 DEF Parses
  <2>4. CASE ~ObeyNewTask(m, c)
    BY <1>3, <2>2, <2>4 DEF LoadFails, ObeyLoad, fileVars, Parses
  <2> QED
    BY <2>3, <2>4 DEF ObeyNewTask
<1>4. ASSUME LoseAnswer(m) \/ Sleep(m) \/ Crash(m) \/ SendHeartBeat(m)
      PROVE  /\ Told(m, t, b)' => Told(m, t, b)
             /\ Parses(m, t, b)' => Parses(m, t, b) \/ Told(m, t, b)
  <2>1. beat'[m].at \in {"sleep", "sent"}
    BY <1>0, <1>4 DEF LoseAnswer, Sleep, Crash, SendHeartBeat, Sleeping
  <2>2. parsers' = parsers \/ parsers'[m] = {}
    BY <1>0, <1>4 DEF LoseAnswer, Sleep, Crash, SendHeartBeat, fileVars
  <2> QED
    BY <2>1, <2>2 DEF Told, Parses
<1>5. ASSUME NEW s, PutSpider(m, s) \/ RegisterSpider(m, s) \/ CrawlRow(m, s)
      PROVE  Told(m, t, b)' = Told(m, t, b) /\ Parses(m, t, b)' = Parses(m, t, b)
  BY <1>5 DEF PutSpider, RegisterSpider, CrawlRow, fileVars, Told, Parses
<1>6. ASSUME NEW d, OpenFile(m, d) \/ LoseDownload(m, d) \/ Parse(m, d)
      PROVE  /\ Told(m, t, b)' => Told(m, t, b)
             /\ Parses(m, t, b)' => Parses(m, t, b) \/ Told(m, t, b)
  <2>1. UNCHANGED beat /\ parsers'[m] \subseteq parsers[m]
    BY <1>0, <1>6 DEF OpenFile, LoseDownload, Parse
  <2> QED
    BY <2>1 DEF Told, Parses
<1>7. ASSUME NEW d, FinishDownload(m, d)
      PROVE  Told(m, t, b)' = Told(m, t, b) /\ (Parses(m, t, b)' => Parses(m, t, b))
  <2>1. UNCHANGED beat
    BY <1>7 DEF FinishDownload
  <2>2. parsers'[m] = {IF p.task = d.task /\ p.block = d.block THEN [p EXCEPT !.ready = TRUE] ELSE p : p \in parsers[m]}
    BY <1>0, <1>7 DEF FinishDownload
  <2>3. \A p \in parsers[m] : LET r == [p EXCEPT !.ready = TRUE] IN r.task = p.task /\ r.block = p.block
    BY <1>0 DEF Parser
  <2>4. Parses(m, t, b)' => Parses(m, t, b)
    BY <2>2, <2>3 DEF Parses
  <2> QED
    BY <2>1, <2>4 DEF Told
<1> QED
  BY <1>1, <1>2, <1>3, <1>4, <1>5, <1>6, <1>7
    DEF FollowerStep, Obey, LoadStep, DownloadStep, ParseStep, CrawlStep

-----------------------------------------------------------------------------
(* Every step keeps the invariant of a machine.                            *)

LEMMA ParserHasSpider ==
  ASSUME Formed, NEW m \in Machine, SpiderFirst(m), NothingBefore(m), parsers[m] # {}
  PROVE  monitor[m] # NoSpider /\ spiders[m] # NoSpider
<1>1. PICK p \in parsers[m] : p \in Parser
  BY DEF Formed, TypeOK
<1>2. p.task \in Task /\ p.block \in Block /\ Parses(m, p.task, p.block)
  BY <1>1 DEF Parser, Parses
<1> QED
  BY <1>2 DEF NothingBefore, SpiderFirst, Involved, WorksOn

\* Which spiders a machine has after a step of its follower.
SpidersStep(m) ==
  \/ UNCHANGED <<spiders[m], monitor[m], loaders[m]>>
  \/ \E s \in Spider :
       \/ /\ UNCHANGED <<spiders[m], monitor[m]>>
          /\ s # spiders[m] /\ s # monitor[m] /\ [spider |-> s, put |-> TRUE] \notin loaders[m]
          /\ loaders'[m] = loaders[m] \cup {[spider |-> s, put |-> FALSE]}
          /\ beat[m].at \in {"answered", "obey"}
       \/ /\ [spider |-> s, put |-> FALSE] \in loaders[m]
          /\ spiders'[m] = s /\ monitor'[m] = monitor[m]
          /\ loaders'[m] = (loaders[m] \ {[spider |-> s, put |-> FALSE]}) \cup {[spider |-> s, put |-> TRUE]}
       \/ /\ [spider |-> s, put |-> TRUE] \in loaders[m]
          /\ monitor'[m] = (IF monitor[m] = NoSpider THEN s ELSE monitor[m]) /\ spiders'[m] = spiders[m]
          /\ loaders'[m] = loaders[m] \ {[spider |-> s, put |-> TRUE]}
          /\ queue' = queue

LEMMA SpidersFlow ==
  ASSUME Formed, NEW m \in Machine, FollowerStep(m), ~Crash(m)
  PROVE  SpidersStep(m)
<1>0. /\ spiders \in [Machine -> Spider \cup {NoSpider}] /\ monitor \in [Machine -> Spider \cup {NoSpider}]
      /\ loaders \in [Machine -> SUBSET Loader]
  BY DEF Formed, TypeOK
<1>1. ASSUME NEW s \in Spider, NEW c, ObeyLoad(m, c, s) PROVE SpidersStep(m)
  <2> DEFINE k == [spider |-> s, put |-> TRUE]
             l == [spider |-> s, put |-> FALSE]
  <2>1. /\ s \notin {x.spider : x \in loaders[m]} /\ s # spiders[m] /\ s # monitor[m]
        /\ loaders' = [loaders EXCEPT ![m] = @ \cup {l}]
        /\ UNCHANGED <<spiders, monitor>> /\ beat[m].at \in {"answered", "obey"}
    BY <1>1 DEF ObeyLoad
  <2>2. k \notin loaders[m]
    BY <2>1
  <2> HIDE DEF k, l
  <2>3. loaders'[m] = loaders[m] \cup {l}
    BY <1>0, <2>1
  <2> QED
    BY <2>1, <2>2, <2>3 DEF SpidersStep, k, l
<1>2. ASSUME NEW s \in Spider, PutSpider(m, s) PROVE SpidersStep(m)
  <2> DEFINE k == [spider |-> s, put |-> TRUE]
             l == [spider |-> s, put |-> FALSE]
  <2>1. /\ l \in loaders[m] /\ spiders' = [spiders EXCEPT ![m] = s] /\ UNCHANGED monitor
        /\ loaders' = [loaders EXCEPT ![m] = (@ \ {l}) \cup {k}]
    BY <1>2 DEF PutSpider
  <2> HIDE DEF k, l
  <2>2. loaders'[m] = (loaders[m] \ {l}) \cup {k} /\ spiders'[m] = s /\ monitor'[m] = monitor[m]
    BY <1>0, <2>1
  <2> QED
    BY <2>1, <2>2 DEF SpidersStep, k, l
<1>3. ASSUME NEW s \in Spider, RegisterSpider(m, s) PROVE SpidersStep(m)
  <2> DEFINE k == [spider |-> s, put |-> TRUE]
  <2>1. /\ k \in loaders[m] /\ UNCHANGED <<spiders, queue>>
        /\ monitor' = [monitor EXCEPT ![m] = IF @ = NoSpider THEN s ELSE @]
        /\ loaders' = [loaders EXCEPT ![m] = @ \ {k}]
    BY <1>3 DEF RegisterSpider
  <2> HIDE DEF k
  <2>2. /\ loaders'[m] = loaders[m] \ {k} /\ spiders'[m] = spiders[m]
        /\ monitor'[m] = IF monitor[m] = NoSpider THEN s ELSE monitor[m]
    BY <1>0, <2>1
  <2> QED
    BY <2>1, <2>2 DEF SpidersStep, k
<1>4. ASSUME \/ SendHeartBeat(m) \/ LoseAnswer(m) \/ Sleep(m)
             \/ \E c \in Command : ObeyNewTask(m, c) \/ LoadFails(m, c)
             \/ \E d \in Download : OpenFile(m, d) \/ FinishDownload(m, d) \/ LoseDownload(m, d)
             \/ \E p \in Parser : Parse(m, p)
             \/ \E x \in Spider : CrawlRow(m, x)
      PROVE  UNCHANGED <<spiders, monitor, loaders>>
  BY <1>4 DEF SendHeartBeat, LoseAnswer, Sleep, ObeyNewTask, LoadFails, CrawlRow, Parse,
       OpenFile, FinishDownload, LoseDownload, spiderVars
<1>5. UNCHANGED <<spiders, monitor, loaders>> => SpidersStep(m)
  BY DEF SpidersStep
<1> QED
  BY <1>1, <1>2, <1>3, <1>4, <1>5
    DEF FollowerStep, Obey, LoadStep, DownloadStep, ParseStep, CrawlStep

\* The heartbeat of a machine after a step of its follower.
LEMMA BeatFlow ==
  ASSUME Formed, NEW m \in Machine, FollowerStep(m), beat'[m] # beat[m]
  PROVE  SendHeartBeat(m) \/ (beat'[m].at \in {"sleep", "obey"} /\ m \in up)
         \/ (beat[m].at \in {"answered", "obey"} /\ beat'[m].at \in {"sleep", "obey"})
<1>0. beat \in [Machine -> Beat]
  BY DEF Formed, TypeOK
<1>1. ASSUME NEW c, NEW s, ObeyNewTask(m, c) \/ LoadFails(m, c) \/ ObeyLoad(m, c, s)
      PROVE  beat[m].at \in {"answered", "obey"} /\ beat'[m].at = "obey"
  BY <1>0, <1>1 DEF ObeyNewTask, LoadFails, ObeyLoad, Obeyed
<1>2. ASSUME LoseAnswer(m) \/ Sleep(m)
      PROVE  beat[m].at \in {"answered", "obey"} /\ beat'[m].at = "sleep"
  BY <1>0, <1>2 DEF LoseAnswer, Sleep, Sleeping
<1>3. ASSUME Crash(m) PROVE m \in up /\ beat'[m].at = "sleep"
  BY <1>0, <1>3 DEF Crash, Sleeping
<1>4. ASSUME \/ \E d \in Download : OpenFile(m, d) \/ FinishDownload(m, d) \/ LoseDownload(m, d)
             \/ \E p \in Parser : Parse(m, p)
             \/ \E x \in Spider : CrawlRow(m, x) \/ PutSpider(m, x) \/ RegisterSpider(m, x)
      PROVE  UNCHANGED beat
  BY <1>4 DEF CrawlRow, PutSpider, RegisterSpider, Parse, OpenFile, FinishDownload, LoseDownload
<1> QED
  BY <1>1, <1>2, <1>3, <1>4
    DEF FollowerStep, Obey, LoadStep, DownloadStep, ParseStep, CrawlStep

LEMMA CrashedNode ==
  ASSUME Formed, NEW m \in Machine, Crash(m)
  PROVE  NodeInv(m)'
<1>1. /\ beat'[m] = Sleeping /\ spiders'[m] = NoSpider /\ monitor'[m] = NoSpider /\ loaders'[m] = {}
      /\ parsers'[m] = {} /\ \A s \in Spider : queue'[m][s] = <<>>
  BY DEF Formed, TypeOK, Crash
<1>2. \A t \in Task, b \in Block : ~Involved(m, t, b)'
  <2>1. <<>> \in Seq(Queued)
    OBVIOUS
  <2>2. \A t, b : EntriesOf(<<>>, t, b) = {}
    BY <2>1, EmptyQueue
  <2>3. ASSUME NEW t, NEW b PROVE ~Told(m, t, b)' /\ ~Parses(m, t, b)' /\ ~Crawls(m, t, b)'
    <3>1. ~Crawls(m, t, b)'
      BY <1>1, <2>2 DEF Crawls
    <3> QED
      BY <1>1, <3>1 DEF Told, Parses, Sleeping
  <2> QED
    BY <2>3 DEF Involved, WorksOn
<1>3. SpiderFirst(m)' /\ LoadedOnce(m)' /\ OneQueue(m)' /\ DownIsEmpty(m)'
  BY <1>1 DEF SpiderFirst, LoadedOnce, OneQueue, DownIsEmpty
<1>4. NothingBefore(m)' /\ ReportHolds(m)'
  BY <1>1, <1>2 DEF NothingBefore, ReportHolds, Sleeping
<1> QED
  BY <1>3, <1>4 DEF NodeInv

\* The tasks that are polled when the heartbeat of a machine is handled.
Polled(m) == {t \in {t \in progress : ~tasks[t].over} : beat[m].report.found /\ NearlyIdle(beat[m].report)}

LEMMA HandleTells ==
  ASSUME Formed, NEW m \in Machine, HandleHeartBeat(m), NEW t, NEW b \in Block
  PROVE  /\ beat[m].at = "sent" /\ beat'[m].at = "answered"
         /\ Told(m, t, b)' <=> t \in Polled(m) /\ b = NextBlock(tasks[t])
<1> DEFINE crawls == {Crawl(u, NextBlock(tasks[u])) : u \in {u \in Polled(m) : NextBlock(tasks[u]) # NoBlock}}
           loads == {Load(u) : u \in {u \in {u \in progress : ~tasks[u].over} : ~beat[m].report.found}}
<1>1. /\ beat[m].at = "sent"
      /\ beat' = [beat EXCEPT ![m] = [at |-> "answered", cmds |-> crawls \cup loads]]
  BY Zenon DEF HandleHeartBeat, Polled
<1> HIDE DEF crawls, loads
<1>2. beat'[m] = [at |-> "answered", cmds |-> crawls \cup loads]
  BY <1>1 DEF Formed, TypeOK
<1>3. Crawl(t, b) \notin loads
  BY DEF loads, Crawl, Load
<1>4. Crawl(t, b) \in crawls <=> t \in Polled(m) /\ b = NextBlock(tasks[t])
  <2>1. \A u, c : Crawl(t, b) = Crawl(u, c) => t = u /\ b = c
    BY DEF Crawl
  <2>2. b # NoBlock
    BY DEF Block, NoBlock
  <2> QED
    BY <2>1, <2>2 DEF crawls
<1> QED
  BY <1>1, <1>2, <1>3, <1>4 DEF Told

LEMMA AnsweredNode ==
  ASSUME Formed, NEW m \in Machine, HandleHeartBeat(m), NodeInv(m)
  PROVE  NodeInv(m)'
<1>1. /\ UNCHANGED <<spiders, monitor, loaders, queue, parsers, up>>
      /\ beat[m].at = "sent"
  BY DEF HandleHeartBeat, spiderVars, fileVars, nodeVars
<1>2. SpiderFirst(m)' /\ LoadedOnce(m)' /\ OneQueue(m)'
  BY <1>1 DEF NodeInv, SpiderFirst, LoadedOnce, OneQueue
<1>3. DownIsEmpty(m)'
  BY <1>1 DEF NodeInv, DownIsEmpty, Sleeping
<1>4. ReportHolds(m)'
  BY HandleTells DEF ReportHolds, HandleHeartBeat, Formed, TypeOK
<1>5. NothingBefore(m)'
  <2>1. ASSUME monitor[m] = NoSpider, NEW t \in Task, NEW b \in Block
        PROVE  ~Involved(m, t, b)'
    <3>1. ~beat[m].report.found /\ ~Involved(m, t, b)
      BY <1>1, <2>1 DEF NodeInv, NothingBefore
    <3>2. ~Told(m, t, b)'
      BY <3>1, HandleTells DEF Polled
    <3>3. Parses(m, t, b)' = Parses(m, t, b) /\ Crawls(m, t, b)' = Crawls(m, t, b)
      BY <1>1 DEF Parses, Crawls
    <3> QED
      BY <3>1, <3>2, <3>3 DEF Involved, WorksOn
  <2>2. beat'[m].at # "sent"
    BY DEF Formed, TypeOK, HandleHeartBeat
  <2> QED
    BY <1>1, <2>1, <2>2 DEF NothingBefore
<1> QED
  BY <1>2, <1>3, <1>4, <1>5 DEF NodeInv

LEMMA RestartedNode ==
  ASSUME NEW m \in Machine, Restart(m), NodeInv(m)
  PROVE  NodeInv(m)'
<1>1. UNCHANGED <<beat, spiders, monitor, loaders, queue, parsers>> /\ m \in up'
  BY DEF Restart, spiderVars, fileVars
<1>2. SpiderFirst(m)' /\ LoadedOnce(m)' /\ OneQueue(m)' /\ DownIsEmpty(m)'
  BY <1>1 DEF NodeInv, SpiderFirst, LoadedOnce, OneQueue, DownIsEmpty
<1>3. \A t, b : Involved(m, t, b)' = Involved(m, t, b) /\ Parses(m, t, b)' = Parses(m, t, b)
  BY <1>1 DEF Involved, WorksOn, Told, Parses, Crawls
<1>4. NothingBefore(m)'
  BY <1>1, <1>3 DEF NodeInv, NothingBefore
<1>5. ReportHolds(m)'
  BY <1>1, <1>3 DEF NodeInv, ReportHolds
<1> QED
  BY <1>2, <1>4, <1>5 DEF NodeInv

LEMMA SentReport ==
  ASSUME Formed, NEW m \in Machine, SendHeartBeat(m)
  PROVE  /\ beat'[m].at = "sent" /\ m \in up
         /\ beat'[m].report.found <=> monitor[m] # NoSpider
         /\ ReportHolds(m)'
<1> DEFINE found == monitor[m] # NoSpider
           left == IF monitor[m] = NoSpider THEN 0 ELSE RowsIn(queue[m][monitor[m]])
           parsing == {<<p.task, p.block>> : p \in parsers[m]}
<1>1. /\ beat' = [beat EXCEPT ![m] =
                    [at |-> "sent", report |-> [found |-> found, left |-> left, parsing |-> parsing]]]
      /\ m \in up /\ UNCHANGED <<monitor, queue, parsers>>
  BY DEF SendHeartBeat, spiderVars, fileVars
<1> HIDE DEF found, left, parsing
<1>2. beat'[m] = [at |-> "sent", report |-> [found |-> found, left |-> left, parsing |-> parsing]]
  BY <1>1 DEF Formed, TypeOK
<1>3. ASSUME NEW t \in Task, NEW b \in Block, <<t, b>> \notin parsing
      PROVE  ~Parses(m, t, b)
  BY <1>3 DEF parsing, Parses
<1>4. ASSUME NEW t \in Task, NEW b \in Block, found
      PROVE  RowsOfBlock(queue[m][monitor[m]], t, b) <= left
  <2> DEFINE q == queue[m][monitor[m]]
  <2>1. q \in Seq(Queued) /\ left = RowsIn(q)
    BY <1>4 DEF Formed, TypeOK, found, left
  <2> HIDE DEF q
  <2>2. \A i \in 1 .. Len(q) : i + 0 = i /\ q[i].rows <= q[i].rows
    <3>1. \A i \in 1 .. Len(q) : q[i] \in Queued
      BY <2>1
    <3> QED
      BY <3>1, RowAssumption DEF Queued
  <2>3. Len(q) + 0 >= Len(q) /\ 0 \in Nat
    BY <2>1
  <2>4. RowsOver(q, EntriesOf(q, t, b)) <= RowsOver(q, 1 .. Len(q))
    BY <2>1, <2>2, <2>3, RowsOverLeq
  <2> QED
    BY <2>1, <2>4 DEF RowsOfBlock, RowsIn, q
<1>5. \A t, b : Parses(m, t, b)' = Parses(m, t, b)
  BY <1>1 DEF Parses
<1>6. ReportHolds(m)'
  BY <1>1, <1>2, <1>3, <1>4, <1>5 DEF ReportHolds
<1>7. beat'[m].at = "sent" /\ beat'[m].report.found = found
  BY <1>2
<1> QED
  BY <1>1, <1>6, <1>7 DEF found

LEMMA InvolvedFlow ==
  ASSUME Formed, NEW m \in Machine, FollowerStep(m), NEW t, NEW b, Involved(m, t, b)'
  PROVE  Involved(m, t, b)
BY BlockFlow DEF Involved, WorksOn

\* A queue that grows is the spider's.
LEMMA QueueGrows ==
  ASSUME Formed, NEW m \in Machine, FollowerStep(m), NEW s \in Spider, queue[m][s] = <<>>, queue'[m][s] # <<>>
  PROVE  s = spiders[m] /\ parsers[m] # {} /\ queue' # queue
BY QueueFlow DEF Shrinks, Parses

LEMMA WorkingNode ==
  ASSUME Formed, NEW m \in Machine, FollowerStep(m), ~Crash(m), NodeInv(m)
  PROVE  NodeInv(m)'
<1>0. /\ spiders[m] \in Spider \cup {NoSpider} /\ monitor[m] \in Spider \cup {NoSpider}
      /\ loaders[m] \in SUBSET Loader
  BY DEF Formed, TypeOK
<1>1. SpidersStep(m)
  BY SpidersFlow
<1>2. \A s \in Spider : s # NoSpider
  BY DEF Spider, NoSpider
<1>3. SpiderFirst(m)'
  BY <1>1, <1>2 DEF NodeInv, SpiderFirst, SpidersStep
<1>4. LoadedOnce(m)'
  <2> DEFINE L(x) == [spider |-> x, put |-> FALSE]
             K(x) == [spider |-> x, put |-> TRUE]
             Old == loaders[m]
             New == loaders'[m]
  <2>1. \A x, y : /\ L(x) = L(y) => x = y
                  /\ K(x) = K(y) => x = y
                  /\ L(x) # K(y)
    OBVIOUS
  <2>2. \A s \in Spider : L(s) \in Old => s # monitor[m] /\ K(s) \notin Old
    BY DEF NodeInv, LoadedOnce
  <2>3. \/ New = Old /\ monitor'[m] = monitor[m]
        \/ \E s \in Spider :
             \/ /\ monitor'[m] = monitor[m] /\ s # monitor[m] /\ K(s) \notin Old
                /\ New = Old \cup {L(s)}
             \/ monitor'[m] = monitor[m] /\ New = (Old \ {L(s)}) \cup {K(s)}
             \/ /\ K(s) \in Old /\ monitor'[m] \in {s, monitor[m]}
                /\ New = Old \ {K(s)}
    BY <1>1 DEF SpidersStep
  <2> HIDE DEF L, K, Old, New
  <2>4. \A s \in Spider : L(s) \in New => s # monitor'[m] /\ K(s) \notin New
    BY <2>1, <2>2, <2>3
  <2> QED
    BY <2>4 DEF LoadedOnce, L, K, New
<1>5. monitor'[m] = NoSpider => monitor[m] = NoSpider
  BY <1>1, <1>2 DEF SpidersStep
<1>6. NothingBefore(m)'
  <2>1. ASSUME monitor'[m] = NoSpider, NEW t \in Task, NEW b \in Block PROVE ~Involved(m, t, b)'
    BY <1>5, <2>1, InvolvedFlow DEF NodeInv, NothingBefore
  <2>2. ASSUME monitor'[m] = NoSpider, beat'[m].at = "sent" PROVE ~beat'[m].report.found
    <3>1. CASE beat'[m] = beat[m]
      BY <1>5, <2>2, <3>1 DEF NodeInv, NothingBefore
    <3>2. CASE beat'[m] # beat[m]
      <4>1. SendHeartBeat(m)
        BY <2>2, <3>2, BeatFlow
      <4> QED
        BY <1>5, <2>2, <4>1, SentReport
    <3> QED
      BY <3>1, <3>2
  <2> QED
    BY <2>1, <2>2 DEF NothingBefore
<1>7. OneQueue(m)'
  <2> SUFFICES ASSUME monitor'[m] = spiders'[m], NEW s \in Spider, s # monitor'[m]
               PROVE  queue'[m][s] = <<>>
    BY DEF OneQueue
  <2>1. CASE UNCHANGED <<spiders[m], monitor[m]>>
    <3>1. queue[m][s] = <<>>
      BY <2>1 DEF NodeInv, OneQueue
    <3> QED
      BY <2>1, <3>1, QueueGrows
  <2>2. ASSUME NEW x \in Spider, [spider |-> x, put |-> FALSE] \in loaders[m],
               spiders'[m] = x, monitor'[m] = monitor[m]
        PROVE  FALSE
    BY <2>2 DEF NodeInv, LoadedOnce
  <2>3. ASSUME monitor[m] = NoSpider, queue' = queue
        PROVE  queue'[m][s] = <<>>
    <3>1. queue[m][s] \in Seq(Queued)
      BY DEF Formed, TypeOK
    <3>2. \A t \in Task, b \in Block : EntriesOf(queue[m][s], t, b) = {}
      BY <2>3 DEF NodeInv, NothingBefore, Involved, WorksOn, Crawls
    <3> QED
      BY <2>3, <3>1, <3>2, EmptyQueue
  <2> QED
    BY <1>1, <2>1, <2>2, <2>3 DEF SpidersStep
<1>8. ReportHolds(m)'
  <2>1. CASE SendHeartBeat(m)
    BY <2>1, SentReport
  <2>2. CASE beat'[m] = beat[m]
    <3> SUFFICES ASSUME beat[m].at = "sent", NEW t \in Task, NEW b \in Block, <<t, b>> \notin beat[m].report.parsing
                 PROVE  /\ ~Parses(m, t, b)'
                        /\ beat[m].report.found =>
                             RowsOfBlock(queue'[m][monitor'[m]], t, b) <= beat[m].report.left
      BY <2>2 DEF ReportHolds
    <3>1. ~Parses(m, t, b) /\ ~Told(m, t, b)
      BY DEF NodeInv, ReportHolds, Told
    <3>2. ~Parses(m, t, b)'
      BY <3>1, BlockFlow
    <3>3. ASSUME beat[m].report.found
          PROVE  RowsOfBlock(queue'[m][monitor'[m]], t, b) <= beat[m].report.left
      <4>1. monitor[m] # NoSpider
        BY <3>3 DEF NodeInv, NothingBefore
      <4>2. monitor'[m] = monitor[m]
        BY <1>1, <4>1 DEF SpidersStep
      <4>3. monitor[m] \in Spider
        BY <1>0, <4>1
      <4> DEFINE i == RowsOfBlock(queue[m][monitor[m]], t, b)
                 j == RowsOfBlock(queue'[m][monitor[m]], t, b)
      <4>4. j <= i
        BY <3>1, <4>3, BlockFlow
      <4>5. i <= beat[m].report.left
        BY <3>3 DEF NodeInv, ReportHolds
      <4>6. i \in Nat /\ j \in Nat /\ beat[m].report.left \in Nat
        <5>1. queue[m][monitor[m]] \in Seq(Queued) /\ queue'[m][monitor[m]] \in Seq(Queued)
          <6>1. UNCHANGED vars \/ [Next]_vars
            BY DEF Next, BeatStep, FollowerStep
          <6>2. queue' \in [Machine -> [Spider -> Seq(Queued)]]
            BY <6>1, QueueTyped DEF Formed
          <6> QED
            BY <4>3, <6>2 DEF Formed, TypeOK
        <5>2. beat[m].report.left \in Nat
          <6>1. beat[m] \in Beat /\ beat[m].at = "sent"
            BY DEF Formed, TypeOK
          <6> QED
            BY <6>1 DEF Beat, Sleeping, Report
        <5> QED
          BY <5>1, <5>2, RowsOverType DEF RowsOfBlock
      <4> HIDE DEF i, j
      <4>7. j <= beat[m].report.left
        BY <4>4, <4>5, <4>6
      <4> QED
        BY <4>2, <4>7 DEF j
    <3> QED
      BY <3>2, <3>3
  <2>3. CASE beat'[m] # beat[m] /\ ~SendHeartBeat(m)
    BY <2>3, BeatFlow DEF ReportHolds
  <2> QED
    BY <2>1, <2>2, <2>3
<1>9. DownIsEmpty(m)'
  <2>1. UNCHANGED up
    <3>1. ASSUME NEW c, NEW s, ObeyNewTask(m, c) \/ LoadFails(m, c) \/ ObeyLoad(m, c, s)
          PROVE  UNCHANGED up
      BY <3>1 DEF ObeyNewTask, LoadFails, ObeyLoad, nodeVars
    <3>2. ASSUME \/ SendHeartBeat(m) \/ LoseAnswer(m) \/ Sleep(m)
                 \/ \E d \in Download : OpenFile(m, d) \/ FinishDownload(m, d) \/ LoseDownload(m, d)
                 \/ \E p \in Parser : Parse(m, p)
                 \/ \E x \in Spider : CrawlRow(m, x) \/ PutSpider(m, x) \/ RegisterSpider(m, x)
          PROVE  UNCHANGED up
      BY <3>2 DEF SendHeartBeat, LoseAnswer, Sleep, OpenFile, FinishDownload, LoseDownload, Parse, CrawlRow,
           PutSpider, RegisterSpider, nodeVars
    <3> QED
      BY <3>1, <3>2 DEF FollowerStep, Obey, LoadStep, DownloadStep, ParseStep, CrawlStep
  <2>2. ASSUME m \notin up
        PROVE  beat'[m] = Sleeping /\ monitor'[m] = NoSpider /\ loaders'[m] = {}
    <3>1. beat[m] = Sleeping /\ monitor[m] = NoSpider /\ loaders[m] = {}
      BY <2>2 DEF NodeInv, DownIsEmpty
    <3>2. beat'[m] = beat[m]
      BY <2>2, <3>1, BeatFlow, SentReport DEF Sleeping
    <3>3. monitor'[m] = monitor[m] /\ loaders'[m] = loaders[m]
      BY <1>1, <3>1 DEF SpidersStep, Sleeping
    <3> QED
      BY <3>1, <3>2, <3>3
  <2> QED
    BY <2>1, <2>2 DEF DownIsEmpty
<1> QED
  BY <1>3, <1>4, <1>6, <1>7, <1>8, <1>9 DEF NodeInv

LEMMA NodesInvStep ==
  ASSUME Formed, NodesInv, [Next]_vars
  PROVE  NodesInv'
<1> SUFFICES ASSUME NEW n \in Machine PROVE NodeInv(n)'
  BY DEF NodesInv
<1>0. NodeInv(n)
  BY DEF NodesInv
<1>1. ASSUME NEW m \in Machine, HandleHeartBeat(m) \/ Restart(m) \/ FollowerStep(m)
      PROVE  NodeInv(n)'
  <2>1. CASE n # m
    BY <1>0, <1>1, <2>1, OthersRest, SameNodeInv
  <2>2. CASE n = m
    BY <1>0, <1>1, <2>2, AnsweredNode, RestartedNode, WorkingNode, CrashedNode
  <2> QED
    BY <2>1, <2>2
<1>2. ASSUME \/ \E t \in Task : SubmitTask(t)
             \/ \E m \in Machine : ReleaseResource(m)
             \/ UNCHANGED vars
      PROVE  SameNode(n)
  BY <1>2 DEF SubmitTask, ReleaseResource, vars, SameNode, spiderVars, fileVars, nodeVars
<1> QED
  BY <1>0, <1>1, <1>2, StepCases, SameNodeInv

LEMMA NodesInvInit == Init => NodesInv
<1> SUFFICES ASSUME Init, NEW m \in Machine PROVE NodeInv(m)
  BY DEF NodesInv
<1>1. /\ beat[m] = Sleeping /\ spiders[m] = NoSpider /\ monitor[m] = NoSpider /\ loaders[m] = {}
      /\ parsers[m] = {} /\ \A s \in Spider : queue[m][s] = <<>>
  BY DEF Init
<1>2. \A t \in Task, b \in Block : ~Involved(m, t, b)
  <2>1. <<>> \in Seq(Queued)
    OBVIOUS
  <2>2. \A t, b : EntriesOf(<<>>, t, b) = {}
    BY <2>1, EmptyQueue
  <2>3. ASSUME NEW t, NEW b PROVE ~Told(m, t, b) /\ ~Parses(m, t, b) /\ ~Crawls(m, t, b)
    <3>1. ~Crawls(m, t, b)
      BY <1>1, <2>2 DEF Crawls
    <3> QED
      BY <1>1, <3>1 DEF Told, Parses, Sleeping
  <2> QED
    BY <2>3 DEF Involved, WorksOn
<1>3. SpiderFirst(m) /\ LoadedOnce(m) /\ OneQueue(m) /\ DownIsEmpty(m)
  BY <1>1 DEF SpiderFirst, LoadedOnce, OneQueue, DownIsEmpty
<1>4. NothingBefore(m) /\ ReportHolds(m)
  BY <1>1, <1>2 DEF NothingBefore, ReportHolds, Sleeping
<1> QED
  BY <1>3, <1>4 DEF NodeInv

\* A parse thread always finds the spider it gives its rows to, on every
\* machine.
THEOREM ParsersFindTheSpider == Spec => []ParserFindsSpider
<1> DEFINE Inv == Formed /\ NodesInv
<1>1. Init => Inv
  BY FormedInit, NodesInvInit
<1>2. Inv /\ [Next]_vars => Inv'
  BY FormedStep, NodesInvStep
<1>3. Inv => ParserFindsSpider
  BY ParserHasSpider DEF NodesInv, NodeInv, ParserFindsSpider
<1> HIDE DEF Inv
<1> QED
  BY <1>1, <1>2, <1>3, PTL DEF Spec

-----------------------------------------------------------------------------
(* Where the blocks are: what the tasks' logs say of them, and where they  *)
(* really are.                                                             *)

\* No machine has a block of a task that is not submitted.
Unsubmitted == \A t \in Task \ progress : \A m \in Machine : tasks[t].distributeLog[m] = NoBlock

\* A machine works only on blocks that its log entry names or that are counted.
Owned ==
  \A m \in Machine, t \in Task, b \in Block : Involved(m, t, b) /\ <<t, b>> \notin robbed =>
    tasks[t].distributeLog[m] = b \/ b \in tasks[t].credited

\* A block is sent to, parsed on and crawled by one machine.
Sole ==
  \A m, n \in Machine, t \in Task, b \in Block :
    Involved(m, t, b) /\ Involved(n, t, b) /\ <<t, b>> \notin robbed => m = n

\* A block in a log is on its way to the spider or has reached it.
Reached ==
  \A m \in Machine, t \in Task, b \in Block :
    tasks[t].distributeLog[m] = b /\ <<t, b>> \notin excused \cup robbed =>
      Told(m, t, b) \/ Parses(m, t, b) \/ <<t, b>> \in scheduled

\* What is counted is in no answer any more.
NoneTold ==
  \A t \in Task : \A b \in tasks[t].credited : <<t, b>> \notin excused \cup robbed =>
    \A m \in Machine : ~Told(m, t, b)

\* What becomes of a task, of its log and of what is credited when the heartbeat
\* of a machine is handled.
LEMMA HandledTask ==
  ASSUME Formed, NEW m \in Machine, HandleHeartBeat(m), NEW t \in Task
  PROVE  /\ t \notin Polled(m) => tasks'[t] = tasks[t]
         /\ t \in Polled(m) =>
              /\ tasks'[t].credited = tasks[t].credited \cup ({tasks[t].distributeLog[m]} \ {NoBlock})
              /\ tasks'[t].distributeLog[m] = NextBlock(tasks[t])
              /\ \A n \in Machine \ {m} : tasks'[t].distributeLog[n] = tasks[t].distributeLog[n]
<1>1. tasks'[t] = IF t \in Polled(m) THEN CheckAndPoll(tasks[t], m) ELSE tasks[t]
  BY Zenon DEF HandleHeartBeat, Polled
<1>2. tasks[t] \in TaskType
  BY DEF Formed, TypeOK
<1>3. tasks[t].distributeLog \in [Machine -> Block \cup {NoBlock}]
  BY <1>2 DEF TaskType
<1> QED
  BY <1>1, <1>3 DEF CheckAndPoll, LogAfter

\* The log of a released machine is emptied.
LEMMA ReleasedTask ==
  ASSUME Formed, Unsubmitted, NEW m \in Machine, ReleaseResource(m), NEW t \in Task
  PROVE  /\ tasks'[t].credited = tasks[t].credited
         /\ tasks'[t].distributeLog[m] = NoBlock
         /\ \A n \in Machine \ {m} : tasks'[t].distributeLog[n] = tasks[t].distributeLog[n]
<1>1. tasks'[t] = IF t \in progress THEN ReturnCrawlTask(tasks[t], m) ELSE tasks[t]
  BY Zenon DEF ReleaseResource
<1>2. tasks[t] \in TaskType
  BY DEF Formed, TypeOK
<1>3. tasks[t].distributeLog \in [Machine -> Block \cup {NoBlock}]
  BY <1>2 DEF TaskType
<1>4. t \notin progress => tasks[t].distributeLog[m] = NoBlock
  BY DEF Unsubmitted
<1>5. ASSUME tasks'[t] = ReturnCrawlTask(tasks[t], m)
      PROVE  /\ tasks'[t].credited = tasks[t].credited
             /\ tasks'[t].distributeLog[m] = NoBlock
             /\ \A n \in Machine \ {m} : tasks'[t].distributeLog[n] = tasks[t].distributeLog[n]
  <2>1. CASE tasks[t].distributeLog[m] = NoBlock
    BY <1>5, <2>1 DEF ReturnCrawlTask
  <2>2. CASE tasks[t].distributeLog[m] # NoBlock
    BY <1>2, <1>3, <1>5, <2>2 DEF ReturnCrawlTask, GiveBack, TaskType
  <2> QED
    BY <2>1, <2>2
<1> QED
  BY <1>1, <1>4, <1>5

\* What a task's log and queue say of one block.
LEMMA PlacesDiffer ==
  ASSUME Formed, NEW t \in Task, NEW m \in Machine, NEW b \in Block
  PROVE  /\ b = NextBlock(tasks[t]) => /\ b \notin tasks[t].credited
                                       /\ \A n \in Machine : tasks[t].distributeLog[n] # b
         /\ b = tasks[t].distributeLog[m] => /\ b \notin tasks[t].credited
                                             /\ \A n \in Machine : tasks[t].distributeLog[n] = b => n = m
<1>1. tasks[t] \in TaskType /\ Partitioned(tasks[t])
  BY DEF Formed, AllConsistent, Consistent
<1>2. b # NoBlock
  BY DEF Block, NoBlock
<1>3. \A n \in Machine : tasks[t].distributeLog[n] = b => b \in Held(tasks[t])
  BY <1>2 DEF Held
<1>4. b = NextBlock(tasks[t]) => b \in Waiting(tasks[t])
  <2>1. ASSUME b = NextBlock(tasks[t]) PROVE b \in Waiting(tasks[t])
    <3>1. tasks[t].taskQueue \in Seq(Block) /\ tasks[t].taskQueue # <<>>
      BY <1>1, <1>2, <2>1 DEF TaskType, NextBlock
    <3>2. b = tasks[t].taskQueue[1] /\ 1 \in 1 .. Len(tasks[t].taskQueue)
      BY <1>2, <2>1, <3>1 DEF NextBlock
    <3> QED
      BY <3>2 DEF Waiting
  <2> QED
    BY <2>1
<1> QED
  BY <1>1, <1>2, <1>3, <1>4 DEF Partitioned

\* Every other step than these two leaves the tasks, and nobody is involved in
\* what he was not involved in before.
LEMMA QuietStep ==
  ASSUME Formed, [Next]_vars, \A m \in Machine : ~HandleHeartBeat(m) /\ ~ReleaseResource(m)
  PROVE  /\ UNCHANGED <<tasks, robbed>> /\ progress \subseteq progress'
         /\ \A m \in Machine, t \in Task, b \in Block :
              /\ Told(m, t, b)' => Told(m, t, b)
              /\ Parses(m, t, b)' => Parses(m, t, b) \/ Told(m, t, b)
              /\ Involved(m, t, b)' => Involved(m, t, b)
<1>1. ASSUME NEW k \in Machine, FollowerStep(k)
      PROVE  /\ UNCHANGED <<tasks, robbed>> /\ progress \subseteq progress'
             /\ \A m \in Machine, t \in Task, b \in Block :
                  /\ Told(m, t, b)' => Told(m, t, b)
                  /\ Parses(m, t, b)' => Parses(m, t, b) \/ Told(m, t, b)
                  /\ Involved(m, t, b)' => Involved(m, t, b)
  BY <1>1, FollowerKeepsTasks, OthersRest, SameInvolved, BlockFlow, InvolvedFlow
<1>2. ASSUME NEW k \in Machine, Restart(k)
      PROVE  /\ UNCHANGED <<beat, queue, parsers, tasks, robbed, progress>>
  BY <1>2 DEF Restart, masterVars, spiderVars, fileVars, history
<1>3. ASSUME NEW t \in Task, SubmitTask(t)
      PROVE  /\ UNCHANGED <<beat, queue, parsers, tasks, robbed>> /\ progress \subseteq progress'
  BY <1>3 DEF SubmitTask, spiderVars, fileVars, history
<1>4. UNCHANGED vars => UNCHANGED <<beat, queue, parsers, tasks, robbed, progress>>
  BY DEF vars, masterVars, fileVars, history
<1>5. UNCHANGED <<beat, queue, parsers>> =>
        \A m \in Machine, t \in Task, b \in Block :
          /\ Told(m, t, b)' = Told(m, t, b)
          /\ Parses(m, t, b)' = Parses(m, t, b)
          /\ Involved(m, t, b)' = Involved(m, t, b)
  BY DEF Told, Parses, Crawls, WorksOn, Involved
<1> QED
  BY <1>1, <1>2, <1>3, <1>4, <1>5, StepCases

Whereabouts == Unsubmitted /\ Owned /\ Sole /\ Reached /\ NoneTold

LEMMA HandledInvolved ==
  ASSUME Formed, NEW k \in Machine, HandleHeartBeat(k), NEW n \in Machine, NEW t \in Task, NEW b \in Block
  PROVE  /\ Parses(n, t, b)' <=> Parses(n, t, b)
         /\ Crawls(n, t, b)' <=> Crawls(n, t, b)
         /\ Told(n, t, b)' => Told(n, t, b) \/ (n = k /\ t \in Polled(k) /\ b = NextBlock(tasks[t]))
         /\ n = k => ~Told(n, t, b)
         /\ UNCHANGED <<progress, scheduled, robbed>>
<1>1. UNCHANGED <<queue, parsers, progress, scheduled, robbed>>
  BY DEF HandleHeartBeat, fileVars
<1>2. n # k => (Told(n, t, b)' <=> Told(n, t, b))
  BY OthersRest, SameInvolved
<1>3. n = k => ~Told(n, t, b)
  BY HandleTells DEF Told
<1> QED
  BY <1>1, <1>2, <1>3, HandleTells DEF Parses, Crawls

LEMMA ReleasedInvolved ==
  ASSUME Formed, NodesInv, NEW k \in Machine, ReleaseResource(k)
  PROVE  /\ \A n \in Machine : \A t, b :
              /\ Told(n, t, b)' <=> Told(n, t, b)
              /\ Parses(n, t, b)' <=> Parses(n, t, b)
              /\ Involved(n, t, b)' <=> Involved(n, t, b)
         /\ UNCHANGED <<progress, scheduled, excused>>
         /\ \A t \in Task, b \in Block :
              t \in progress /\ tasks[t].distributeLog[k] = b /\ Involved(k, t, b) => <<t, b>> \in robbed'
<1>1. UNCHANGED <<beat, queue, parsers, progress, scheduled, excused>>
  BY DEF ReleaseResource, fileVars
<1>2. \A n \in Machine : \A t, b :
        /\ Told(n, t, b)' <=> Told(n, t, b)
        /\ Parses(n, t, b)' <=> Parses(n, t, b)
        /\ Involved(n, t, b)' <=> Involved(n, t, b)
  BY <1>1 DEF Told, Parses, Crawls, WorksOn, Involved
<1>3. ASSUME NEW t \in Task, NEW b \in Block,
             t \in progress, tasks[t].distributeLog[k] = b, Involved(k, t, b)
      PROVE  <<t, b>> \in robbed'
  <2>1. k \in up
    BY <1>3 DEF NodesInv, NodeInv, DownIsEmpty, NothingBefore
  <2>2. b # NoBlock
    BY DEF Block, NoBlock
  <2>3. <<t, b>> \in Logged(k, progress)
    BY <1>3, <2>2 DEF Logged
  <2> QED
    BY <2>1, <2>3 DEF ReleaseResource
<1> QED
  BY <1>1, <1>2, <1>3

LEMMA UnsubmittedStep ==
  ASSUME Formed, Unsubmitted, [Next]_vars
  PROVE  Unsubmitted'
<1>1. ASSUME NEW k \in Machine, HandleHeartBeat(k), NEW t \in Task \ progress, NEW m \in Machine
      PROVE  tasks'[t].distributeLog[m] = NoBlock /\ progress' = progress
  <2>1. t \notin Polled(k)
    BY DEF Polled
  <2> QED
    BY <1>1, <2>1, HandledTask DEF Unsubmitted, HandleHeartBeat
<1>2. ASSUME NEW k \in Machine, ReleaseResource(k), NEW t \in Task \ progress, NEW m \in Machine
      PROVE  tasks'[t].distributeLog[m] = NoBlock /\ progress' = progress
  BY <1>2, ReleasedTask DEF Unsubmitted, ReleaseResource
<1>3. ASSUME NEW k \in Machine, HandleHeartBeat(k) \/ ReleaseResource(k)
      PROVE  progress' = progress
  BY <1>3 DEF HandleHeartBeat, ReleaseResource
<1> QED
  BY <1>1, <1>2, <1>3, QuietStep DEF Unsubmitted

LEMMA OwnedStep ==
  ASSUME Formed, NodesInv, Unsubmitted, Owned, [Next]_vars
  PROVE  Owned'
<1> SUFFICES ASSUME NEW m \in Machine, NEW t \in Task, NEW b \in Block,
                    Involved(m, t, b)', <<t, b>> \notin robbed'
             PROVE  tasks'[t].distributeLog[m] = b \/ b \in tasks'[t].credited
  BY DEF Owned
<1>0. <<t, b>> \notin robbed /\ b # NoBlock
  BY HistoryGrows DEF Block, NoBlock
<1>1. ASSUME NEW k \in Machine, HandleHeartBeat(k)
      PROVE  tasks'[t].distributeLog[m] = b \/ b \in tasks'[t].credited
  <2>1. CASE Involved(m, t, b)
    <3>1. tasks[t].distributeLog[m] = b \/ b \in tasks[t].credited
      BY <1>0, <2>1 DEF Owned
    <3> QED
      BY <1>0, <1>1, <3>1, HandledTask
  <2>2. CASE m = k /\ t \in Polled(k) /\ b = NextBlock(tasks[t])
    BY <1>1, <2>2, HandledTask
  <2> QED
    BY <1>1, <2>1, <2>2, HandledInvolved DEF Involved, WorksOn
<1>2. ASSUME NEW k \in Machine, ReleaseResource(k)
      PROVE  tasks'[t].distributeLog[m] = b \/ b \in tasks'[t].credited
  <2>1. Involved(m, t, b)
    BY <1>2, ReleasedInvolved
  <2>2. tasks[t].distributeLog[m] = b \/ b \in tasks[t].credited
    BY <1>0, <2>1 DEF Owned
  <2>3. ~(m = k /\ tasks[t].distributeLog[m] = b)
    BY <1>0, <1>2, <2>1, ReleasedInvolved DEF Unsubmitted
  <2> QED
    BY <1>2, <2>2, <2>3, ReleasedTask
<1>3. ASSUME \A k \in Machine : ~HandleHeartBeat(k) /\ ~ReleaseResource(k)
      PROVE  tasks'[t].distributeLog[m] = b \/ b \in tasks'[t].credited
  BY <1>0, <1>3, QuietStep DEF Owned
<1> QED
  BY <1>1, <1>2, <1>3

LEMMA SoleStep ==
  ASSUME Formed, NodesInv, Owned, Sole, [Next]_vars
  PROVE  Sole'
<1> SUFFICES ASSUME NEW m \in Machine, NEW n \in Machine, NEW t \in Task, NEW b \in Block,
                    Involved(m, t, b)', Involved(n, t, b)', <<t, b>> \notin robbed'
             PROVE  m = n
  BY DEF Sole
<1>0. <<t, b>> \notin robbed
  BY HistoryGrows
<1>1. ASSUME NEW k \in Machine, HandleHeartBeat(k) PROVE m = n
  <2>1. \A i \in Machine : Involved(i, t, b)' => Involved(i, t, b) \/ (i = k /\ b = NextBlock(tasks[t]))
    BY <1>1, HandledInvolved DEF Involved, WorksOn
  <2>2. CASE Involved(m, t, b) /\ Involved(n, t, b)
    BY <1>0, <2>2 DEF Sole
  <2>3. ASSUME b = NextBlock(tasks[t]), NEW i \in Machine PROVE ~Involved(i, t, b)
    BY <1>0, <2>3, PlacesDiffer DEF Owned
  <2> QED
    BY <2>1, <2>2, <2>3
<1>2. ASSUME NEW k \in Machine, ReleaseResource(k) PROVE m = n
  BY <1>0, <1>2, ReleasedInvolved DEF Sole
<1>3. ASSUME \A k \in Machine : ~HandleHeartBeat(k) /\ ~ReleaseResource(k) PROVE m = n
  BY <1>0, <1>3, QuietStep DEF Sole
<1> QED
  BY <1>1, <1>2, <1>3

LEMMA NoneToldStep ==
  ASSUME Formed, NodesInv, Unsubmitted, Owned, NoneTold, [Next]_vars
  PROVE  NoneTold'
<1> SUFFICES ASSUME NEW t \in Task, NEW b \in tasks'[t].credited, <<t, b>> \notin excused' \cup robbed',
                    NEW m \in Machine, Told(m, t, b)'
             PROVE  FALSE
  BY DEF NoneTold
<1>0. <<t, b>> \notin excused \cup robbed
  BY HistoryGrows
<1>00. b \in Block
  <2>1. tasks'[t] \in TaskType
    BY FormedStep DEF Formed, TypeOK
  <2> QED
    BY <2>1 DEF TaskType
<1>1. ASSUME NEW k \in Machine, HandleHeartBeat(k) PROVE FALSE
  <2>1. CASE b = NextBlock(tasks[t]) /\ t \in Polled(k)
    BY <1>00, <1>1, <2>1, HandledTask, PlacesDiffer
  <2>2. CASE Told(m, t, b) /\ m # k
    <3>1. b \notin tasks[t].credited
      BY <1>0, <2>2 DEF NoneTold
    <3>2. tasks[t].distributeLog[m] = b
      BY <1>0, <1>00, <2>2, <3>1 DEF Owned, Involved
    <3>3. tasks[t].distributeLog[k] = b
      BY <1>1, <3>1, HandledTask
    <3> QED
      BY <1>00, <2>2, <3>2, <3>3, PlacesDiffer
  <2> QED
    BY <1>00, <1>1, <2>1, <2>2, HandledInvolved
<1>2. ASSUME NEW k \in Machine, ReleaseResource(k) PROVE FALSE
  <2>1. Told(m, t, b) /\ b \in tasks[t].credited
    BY <1>2, ReleasedInvolved, ReleasedTask
  <2> QED
    BY <1>0, <2>1 DEF NoneTold
<1>3. ASSUME \A k \in Machine : ~HandleHeartBeat(k) /\ ~ReleaseResource(k) PROVE FALSE
  <2>1. Told(m, t, b) /\ b \in tasks[t].credited
    BY <1>00, <1>3, QuietStep
  <2> QED
    BY <1>0, <2>1 DEF NoneTold
<1> QED
  BY <1>1, <1>2, <1>3

\* A block that a machine was told of is with a parse thread next, and then its
\* rows are with the spider, or it is excused.
LEMMA ReachedFlow ==
  ASSUME Formed, NodesInv, Unsubmitted, NEW m \in Machine, FollowerStep(m), NEW t \in Task, NEW b \in Block,
         tasks[t].distributeLog[m] = b, Told(m, t, b) \/ Parses(m, t, b)
  PROVE  Told(m, t, b)' \/ Parses(m, t, b)' \/ <<t, b>> \in scheduled' \cup excused'
<1>0. /\ beat \in [Machine -> Beat] /\ parsers \in [Machine -> SUBSET Parser]
  BY DEF Formed, TypeOK
<1> DEFINE Goal == Told(m, t, b)' \/ Parses(m, t, b)' \/ <<t, b>> \in scheduled' \cup excused'
<1>1. ASSUME NEW c, ObeyNewTask(m, c) PROVE Goal
  <2>1. /\ beat[m].at \in {"answered", "obey"} /\ beat'[m].at = "obey"
        /\ beat'[m].cmds = beat[m].cmds \ {c}
    BY <1>0, <1>1 DEF ObeyNewTask, Obeyed
  <2>2. parsers'[m] = parsers[m] \cup
          {[task |-> c.task, block |-> c.block, ready |-> c.task \in taskFilePathCache[m]]}
    BY <1>0, <1>1 DEF ObeyNewTask
  <2>3. CASE c = Crawl(t, b)
    <3> DEFINE p == [task |-> c.task, block |-> c.block, ready |-> c.task \in taskFilePathCache[m]]
    <3>1. p.task = t /\ p.block = b
      BY <2>3 DEF Crawl
    <3>2. p \in parsers'[m]
      BY <2>2
    <3> HIDE DEF p
    <3> QED
      BY <3>1, <3>2 DEF Parses
  <2>4. CASE c # Crawl(t, b)
    BY <2>1, <2>2, <2>4 DEF Parses, Told
  <2> QED
    BY <2>3, <2>4
<1>2. ASSUME NEW c, NEW s, LoadFails(m, c) \/ ObeyLoad(m, c, s) PROVE Goal
  <2>1. /\ beat[m].at \in {"answered", "obey"} /\ beat'[m].at = "obey"
        /\ beat'[m].cmds = beat[m].cmds \ {c} /\ c.cmd = "load" /\ UNCHANGED parsers
    BY <1>0, <1>2 DEF LoadFails, ObeyLoad, Obeyed, fileVars
  <2> QED
    BY <2>1 DEF Told, Parses, Crawl
<1>3. ASSUME LoseAnswer(m) PROVE Goal
  <2>1. UNCHANGED parsers
    BY <1>3 DEF LoseAnswer, fileVars
  <2>2. CASE Told(m, t, b)
    <3>1. Crawl(t, b) \in {c \in beat[m].cmds : c.cmd = "crawl"}
      BY <2>2 DEF Told, Crawl
    <3>2. <<t, b>> \in {<<c.task, c.block>> : c \in {c \in beat[m].cmds : c.cmd = "crawl"}}
      BY <3>1 DEF Crawl
    <3> QED
      BY <1>3, <3>2 DEF LoseAnswer
  <2> QED
    BY <2>1, <2>2 DEF Parses
<1>4. ASSUME Sleep(m) \/ SendHeartBeat(m) PROVE Goal
  <2>1. ~Told(m, t, b) /\ UNCHANGED parsers
    BY <1>4 DEF Sleep, SendHeartBeat, Told, fileVars
  <2> QED
    BY <2>1 DEF Parses
<1>5. ASSUME NEW s, PutSpider(m, s) \/ RegisterSpider(m, s) \/ CrawlRow(m, s) PROVE Goal
  BY <1>5 DEF PutSpider, RegisterSpider, CrawlRow, fileVars, Told, Parses
<1>6. ASSUME NEW d, OpenFile(m, d) \/ LoseDownload(m, d) PROVE Goal
  BY <1>6 DEF OpenFile, LoseDownload, Told, Parses
<1>7. ASSUME NEW d, FinishDownload(m, d) PROVE Goal
  <2>1. UNCHANGED beat
    BY <1>7 DEF FinishDownload
  <2>2. parsers'[m] = {IF p.task = d.task /\ p.block = d.block THEN [p EXCEPT !.ready = TRUE] ELSE p : p \in parsers[m]}
    BY <1>0, <1>7 DEF FinishDownload
  <2>3. \A p \in parsers[m] : LET r == [p EXCEPT !.ready = TRUE] IN r.task = p.task /\ r.block = p.block
    BY <1>0 DEF Parser
  <2>4. Parses(m, t, b) => Parses(m, t, b)'
    BY <2>2, <2>3 DEF Parses
  <2> QED
    BY <2>1, <2>4 DEF Told
<1>8. ASSUME NEW p \in Parser, Parse(m, p) PROVE Goal
  <2>1. PICK rows \in 0 .. Size(p.block) :
           /\ rows = 0 \/ spiders[m] = NoSpider => queue' = queue
           /\ rows # 0 /\ spiders[m] # NoSpider =>
                queue' = [queue EXCEPT ![m] = [queue[m] EXCEPT ![spiders[m]] =
                    Append(queue[m][spiders[m]], [task |-> p.task, block |-> p.block, rows |-> rows])]]
           /\ rows = Size(p.block) /\ spiders[m] # NoSpider => <<p.task, p.block>> \in scheduled'
           /\ rows # Size(p.block) => <<p.task, p.block>> \in excused'
    BY <1>8, ParseEffect
  <2>2. UNCHANGED beat /\ parsers'[m] = parsers[m] \ {p} /\ p \in parsers[m]
    BY <1>0, <1>8 DEF Parse
  <2>3. spiders[m] # NoSpider
    BY <2>2, ParserHasSpider DEF NodesInv, NodeInv
  <2>4. <<p.task, p.block>> \in scheduled' \cup excused'
    BY <2>1, <2>3
  <2>5. CASE p.task = t /\ p.block = b
    BY <2>4, <2>5
  <2>6. CASE ~(p.task = t /\ p.block = b)
    BY <2>2, <2>6 DEF Told, Parses
  <2> QED
    BY <2>5, <2>6
<1>9. ASSUME Crash(m) PROVE Goal
  <2>1. b # NoBlock
    BY DEF Block, NoBlock
  <2>2. t \in progress
    BY <2>1 DEF Unsubmitted
  <2>3. <<t, b>> \in Logged(m, progress)
    BY <2>1, <2>2 DEF Logged
  <2> QED
    BY <1>9, <2>3 DEF Crash
<1> QED
  BY <1>1, <1>2, <1>3, <1>4, <1>5, <1>6, <1>7, <1>8, <1>9
    DEF FollowerStep, Obey, LoadStep, DownloadStep, ParseStep, CrawlStep

LEMMA ReachedStep ==
  ASSUME Formed, NodesInv, Unsubmitted, Reached, [Next]_vars
  PROVE  Reached'
<1> SUFFICES ASSUME NEW m \in Machine, NEW t \in Task, NEW b \in Block,
                    tasks'[t].distributeLog[m] = b, <<t, b>> \notin excused' \cup robbed'
             PROVE  Told(m, t, b)' \/ Parses(m, t, b)' \/ <<t, b>> \in scheduled'
  BY DEF Reached
<1>0. <<t, b>> \notin excused \cup robbed /\ scheduled \subseteq scheduled' /\ b # NoBlock
  BY HistoryGrows DEF Block, NoBlock
<1>1. tasks[t].distributeLog[m] = b => Told(m, t, b) \/ Parses(m, t, b) \/ <<t, b>> \in scheduled
  BY <1>0 DEF Reached
<1>2. ASSUME NEW k \in Machine, HandleHeartBeat(k)
      PROVE  Told(m, t, b)' \/ Parses(m, t, b)' \/ <<t, b>> \in scheduled'
  <2>1. CASE m = k /\ t \in Polled(k)
    BY <1>2, <2>1, HandledTask, HandleTells
  <2>2. CASE ~(m = k /\ t \in Polled(k))
    <3>1. tasks[t].distributeLog[m] = b
      BY <1>2, <2>2, HandledTask
    <3>2. Told(m, t, b) => Told(m, t, b)'
      BY <1>2, HandledInvolved, OthersRest, SameInvolved
    <3> QED
      BY <1>0, <1>1, <1>2, <3>1, <3>2, HandledInvolved
  <2> QED
    BY <2>1, <2>2
<1>3. ASSUME NEW k \in Machine, ReleaseResource(k)
      PROVE  Told(m, t, b)' \/ Parses(m, t, b)' \/ <<t, b>> \in scheduled'
  <2>1. tasks[t].distributeLog[m] = b
    BY <1>0, <1>3, ReleasedTask
  <2> QED
    BY <1>0, <1>1, <1>3, <2>1, ReleasedInvolved
<1>4. ASSUME NEW k \in Machine, FollowerStep(k)
      PROVE  Told(m, t, b)' \/ Parses(m, t, b)' \/ <<t, b>> \in scheduled'
  <2>1. tasks[t].distributeLog[m] = b
    BY <1>4, FollowerKeepsTasks
  <2>2. CASE m = k
    BY <1>0, <1>1, <1>4, <2>1, <2>2, ReachedFlow
  <2>3. CASE m # k
    BY <1>0, <1>1, <1>4, <2>1, <2>3, OthersRest, SameInvolved
  <2> QED
    BY <2>2, <2>3
<1>5. ASSUME \/ \E u \in Task : SubmitTask(u)
             \/ \E k \in Machine : Restart(k)
             \/ UNCHANGED vars
      PROVE  UNCHANGED <<tasks, beat, parsers, scheduled>>
  BY <1>5 DEF SubmitTask, Restart, vars, masterVars, fileVars, history
<1>6. UNCHANGED <<tasks, beat, parsers, scheduled>> =>
        Told(m, t, b)' \/ Parses(m, t, b)' \/ <<t, b>> \in scheduled'
  BY <1>1 DEF Told, Parses
<1> QED
  BY <1>2, <1>3, <1>4, <1>5, <1>6, StepCases

\* The master counts a block on a report that its rows are nearly crawled; they
\* were there when it was written, and nothing brings them back.
LEMMA CountedStep ==
  ASSUME Formed, NodesInv, Whereabouts, CountedIsNearlyCrawled, [Next]_vars
  PROVE  CountedIsNearlyCrawled'
<1> SUFFICES ASSUME NEW t \in Task, NEW b \in tasks'[t].credited, <<t, b>> \notin excused' \cup robbed'
             PROVE  /\ <<t, b>> \in scheduled'
                    /\ \A m \in Machine :
                         /\ ~Parses(m, t, b)'
                         /\ \A s \in Spider : 10 * RowsOfBlock(queue'[m][s], t, b) <= RowPerBlock
  BY DEF CountedIsNearlyCrawled
<1> DEFINE Few(m) == \A s \in Spider : 10 * RowsOfBlock(queue[m][s], t, b) <= RowPerBlock
           FewNext(m) == \A s \in Spider : 10 * RowsOfBlock(queue'[m][s], t, b) <= RowPerBlock
<1>0. <<t, b>> \notin excused \cup robbed /\ scheduled \subseteq scheduled'
  BY HistoryGrows
<1>1. Formed'
  BY FormedStep
<1>2. b \in Block
  BY <1>1 DEF Formed, TypeOK, TaskType
<1>3. \A m \in Machine, s \in Spider :
        /\ queue[m][s] \in Seq(Queued) /\ queue'[m][s] \in Seq(Queued)
        /\ RowsOfBlock(queue[m][s], t, b) \in Nat /\ RowsOfBlock(queue'[m][s], t, b) \in Nat
  <2>1. \A m \in Machine, s \in Spider : queue[m][s] \in Seq(Queued) /\ queue'[m][s] \in Seq(Queued)
    BY <1>1 DEF Formed, TypeOK
  <2> QED
    BY <2>1, RowsOverType DEF RowsOfBlock
<1>4. b \in tasks[t].credited =>
        <<t, b>> \in scheduled' /\ \A m \in Machine : ~Parses(m, t, b) /\ Few(m) /\ ~Told(m, t, b)
  BY <1>0 DEF CountedIsNearlyCrawled, Whereabouts, NoneTold
<1>5. ASSUME NEW k \in Machine, HandleHeartBeat(k)
      PROVE  <<t, b>> \in scheduled' /\ \A m \in Machine : ~Parses(m, t, b)' /\ FewNext(m)
  <2>0. UNCHANGED <<queue, parsers>>
    BY <1>5 DEF HandleHeartBeat, fileVars
  <2>1. \A m \in Machine : FewNext(m) = Few(m) /\ Parses(m, t, b)' = Parses(m, t, b)
    BY <2>0 DEF Parses
  <2>2. CASE b \in tasks[t].credited
    BY <1>4, <2>1, <2>2
  <2>3. CASE b \notin tasks[t].credited
    <3>1. tasks[t].distributeLog[k] = b /\ t \in Polled(k)
      BY <1>5, <2>3, HandledTask
    <3>2. beat[k].at = "sent" /\ ~Told(k, t, b)
      BY <1>2, <1>5, HandleTells, HandledInvolved
    <3>3. b # NoBlock
      BY <1>2 DEF Block, NoBlock
    <3>4. <<t, b>> \in Logged(k, Polled(k))
      BY <3>1, <3>3 DEF Logged
    <3>5. monitor[k] = spiders[k] /\ <<t, b>> \notin beat[k].report.parsing
      <4>1. excused' = excused \cup (IF monitor[k] # spiders[k] THEN Logged(k, Polled(k))
                                     ELSE Logged(k, Polled(k)) \cap beat[k].report.parsing)
        BY Zenon, <1>5 DEF HandleHeartBeat, Polled
      <4> QED
        BY <3>4, <4>1
    <3>6. beat[k].report.found /\ 10 * beat[k].report.left <= RowPerBlock
      BY <3>1 DEF Polled, NearlyIdle
    <3>7. ~Parses(k, t, b) /\ RowsOfBlock(queue[k][monitor[k]], t, b) <= beat[k].report.left
      BY <1>2, <3>2, <3>5, <3>6 DEF NodesInv, NodeInv, ReportHolds
    <3>8. <<t, b>> \in scheduled
      BY <1>0, <1>2, <3>1, <3>2, <3>7 DEF Whereabouts, Reached
    <3>9. Few(k)
      <4> SUFFICES ASSUME NEW s \in Spider PROVE 10 * RowsOfBlock(queue[k][s], t, b) <= RowPerBlock
        OBVIOUS
      <4>1. CASE s = monitor[k]
        <5>1. beat[k].report.left \in Nat
          <6>1. beat[k] \in Beat
            BY DEF Formed, TypeOK
          <6> QED
            BY <3>2, <6>1 DEF Beat, Sleeping, Report
        <5> DEFINE i == RowsOfBlock(queue[k][s], t, b)
        <5>2. i \in Nat /\ i <= beat[k].report.left
          BY <1>3, <3>7, <4>1
        <5> HIDE DEF i
        <5>3. 10 * i <= RowPerBlock
          BY <3>6, <5>1, <5>2, RowAssumption
        <5> QED
          BY <5>3 DEF i
      <4>2. CASE s # monitor[k]
        <5>1. queue[k][s] = <<>>
          BY <3>5, <4>2 DEF NodesInv, NodeInv, OneQueue
        <5>2. RowsOfBlock(queue[k][s], t, b) = 0
          BY <1>3, <5>1, EmptyQueue, NoRows
        <5> QED
          BY <5>2, RowAssumption
      <4> QED
        BY <4>1, <4>2
    <3>10. ASSUME NEW n \in Machine, n # k PROVE ~Parses(n, t, b) /\ Few(n)
      <4>1. ~Involved(n, t, b)
        BY <1>0, <1>2, <2>3, <3>1, <3>10, PlacesDiffer DEF Whereabouts, Owned
      <4>2. \A s \in Spider : EntriesOf(queue[n][s], t, b) = {}
        BY <4>1 DEF Involved, WorksOn, Crawls
      <4>3. \A s \in Spider : RowsOfBlock(queue[n][s], t, b) = 0
        BY <1>3, <4>2, NoRows
      <4> QED
        BY <4>1, <4>3, RowAssumption DEF Involved, WorksOn
    <3> QED
      BY <1>0, <2>1, <3>7, <3>8, <3>9, <3>10
  <2> QED
    BY <2>2, <2>3
<1>6. ASSUME NEW k \in Machine, ReleaseResource(k)
      PROVE  <<t, b>> \in scheduled' /\ \A m \in Machine : ~Parses(m, t, b)' /\ FewNext(m)
  <2>1. UNCHANGED queue
    BY <1>6 DEF ReleaseResource
  <2>2. b \in tasks[t].credited
    BY <1>6, ReleasedTask DEF Whereabouts
  <2> QED
    BY <1>4, <1>6, <2>1, <2>2, ReleasedInvolved
<1>7. ASSUME NEW k \in Machine, FollowerStep(k)
      PROVE  <<t, b>> \in scheduled' /\ \A m \in Machine : ~Parses(m, t, b)' /\ FewNext(m)
  <2>1. b \in tasks[t].credited
    BY <1>7, FollowerKeepsTasks
  <2>2. ~Parses(k, t, b)'
    BY <1>4, <1>7, <2>1, BlockFlow
  <2>3. FewNext(k)
    <3> SUFFICES ASSUME NEW s \in Spider PROVE 10 * RowsOfBlock(queue'[k][s], t, b) <= RowPerBlock
      OBVIOUS
    <3> DEFINE i == RowsOfBlock(queue[k][s], t, b)
               j == RowsOfBlock(queue'[k][s], t, b)
    <3>1. i \in Nat /\ j \in Nat /\ 10 * i <= RowPerBlock
      BY <1>3, <1>4, <2>1
    <3>2. j <= i
      BY <1>4, <1>7, <2>1, BlockFlow
    <3> HIDE DEF i, j
    <3>3. 10 * j <= RowPerBlock
      BY <3>1, <3>2, RowAssumption
    <3> QED
      BY <3>3 DEF j
  <2>4. ASSUME NEW n \in Machine, n # k PROVE ~Parses(n, t, b)' /\ FewNext(n)
    <3>1. SameNode(n)
      BY <1>7, <2>4, OthersRest
    <3>2. queue'[n] = queue[n]
      BY <3>1 DEF SameNode
    <3> QED
      BY <1>2, <1>4, <2>1, <3>1, <3>2, SameInvolved
  <2> QED
    BY <1>4, <2>1, <2>2, <2>3, <2>4
<1>8. ASSUME \/ \E u \in Task : SubmitTask(u)
             \/ \E k \in Machine : Restart(k)
             \/ UNCHANGED vars
      PROVE  UNCHANGED <<tasks, queue, parsers>>
  BY <1>8 DEF SubmitTask, Restart, vars, masterVars, fileVars
<1>9. UNCHANGED <<tasks, queue, parsers>> =>
        <<t, b>> \in scheduled' /\ \A m \in Machine : ~Parses(m, t, b)' /\ FewNext(m)
  BY <1>4 DEF Parses
<1> QED
  BY <1>5, <1>6, <1>7, <1>8, <1>9, StepCases

-----------------------------------------------------------------------------
(* The inductive invariant, and the theorems.                              *)

ClusterInv == Formed /\ NodesInv /\ Whereabouts /\ CountedIsNearlyCrawled

LEMMA ClusterInvInit == Init => ClusterInv
<1> SUFFICES ASSUME Init PROVE ClusterInv
  OBVIOUS
<1>1. Formed /\ NodesInv
  BY FormedInit, NodesInvInit
<1>2. \A t \in Task : tasks[t].credited = {} /\ \A m \in Machine : tasks[t].distributeLog[m] = NoBlock
  BY DEF Init, NewTask
<1>3. \A m \in Machine, t \in Task, b \in Block : ~Involved(m, t, b) /\ b # NoBlock
  <2>1. \A m \in Machine : monitor[m] = NoSpider
    BY DEF Init
  <2> QED
    BY <1>1, <2>1 DEF NodesInv, NodeInv, NothingBefore, Block, NoBlock
<1>4. Unsubmitted /\ Owned /\ Sole /\ Reached /\ NoneTold /\ CountedIsNearlyCrawled
  BY <1>2, <1>3 DEF Unsubmitted, Owned, Sole, Reached, NoneTold, CountedIsNearlyCrawled
<1> QED
  BY <1>1, <1>4 DEF ClusterInv, Whereabouts

LEMMA ClusterInvStep == ClusterInv /\ [Next]_vars => ClusterInv'
<1> SUFFICES ASSUME ClusterInv, [Next]_vars PROVE ClusterInv'
  OBVIOUS
<1>1. Formed' /\ NodesInv' /\ CountedIsNearlyCrawled'
  BY FormedStep, NodesInvStep, CountedStep DEF ClusterInv
<1>2. Unsubmitted' /\ Owned' /\ Sole' /\ Reached' /\ NoneTold'
  BY UnsubmittedStep, OwnedStep, SoleStep, ReachedStep, NoneToldStep DEF ClusterInv, Whereabouts
<1> QED
  BY <1>1, <1>2 DEF ClusterInv, Whereabouts

\* Two machines never work on one block, unless it was taken back from one that
\* had been started again before the master saw its death
\* (Task.java:191-229, MasterNode.java:667).
THEOREM OneMachineWorksOnABlock == Spec => []OneMachinePerBlock
<1>1. ClusterInv => OneMachinePerBlock
  BY DEF ClusterInv, Whereabouts, Sole, OneMachinePerBlock, Involved
<1> QED
  BY <1>1, ClusterInvInit, ClusterInvStep, PTL DEF Spec

\* When a block is counted a spider has been given all of its rows and has taken
\* all but a tenth of a block, but for the excuses that the property names
\* (HeartBeatProtocolImpl.java:51-52, FollowerNode.java:682-699).
THEOREM CountedBlocksAreNearlyCrawled == Spec => []CountedIsNearlyCrawled
<1>1. ClusterInv => CountedIsNearlyCrawled
  BY DEF ClusterInv
<1> QED
  BY <1>1, ClusterInvInit, ClusterInvStep, PTL DEF Spec
=============================================================================
