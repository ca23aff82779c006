---------------------------- MODULE CrawlCluster ----------------------------
(***************************************************************************)
(* The way of a block from the master to a follower's spider and back into *)
(* the count: the heartbeat thread of node/slave/FollowerNode.java, the    *)
(* threads it starts (FileDownloadClient, CrawlTaskParseThread,            *)
(* JarSpiderLoadThread) and the spider itself, against the handler of the  *)
(* master, which is one step here (MasterHeartBeat cuts it).               *)
(*                                                                         *)
(* All tasks are of one spider.  A row is not named; a queue says how many *)
(* rows of which block wait.  A Bad... definition is a faulty variant of   *)
(* the one that follows it.                                                *)
(***************************************************************************)
EXTENDS TaskRecord

CONSTANTS
  Task,        \* task ids, all of one bizCode
  MaxSpider,   \* bound: Spider objects of one process
  MaxCrash     \* bound: crashes

ASSUME ClusterAssumption == MaxSpider \in Nat \ {0} /\ MaxCrash \in Nat

VARIABLES
  tasks,      \* the master's Task objects
  progress,   \* the tasks that have been submitted
  isJar,      \* whether the spider comes in a jar or is a common one
  beat,       \* the heartbeat thread of each machine
  spiders,    \* the Spider that FollowerNode.spiders holds for the bizCode
  monitor,    \* the Spider whose status the heartbeat reports
  loaders,    \* the Spiders that are being loaded
  queue,      \* the scheduler of each Spider: rows of blocks
  downloads,  \* running FileDownloadClients for task files
  parsers,    \* CrawlTaskParseThreads
  taskFilePathCache, \* the tasks whose file has been downloaded
  taskFile,   \* each task's file on the machine's disk, and who opened it last
  up,         \* the machines whose process runs
  crashes,    \* how many there have been
  released,   \* FALSE for a machine whose death the master still has to see
  scheduled,  \* history: blocks all of whose rows a spider has been given
  excused,    \* history: blocks that may be counted without having been crawled
  robbed      \* history: blocks taken back from a machine that lives

masterVars == <<tasks, progress, isJar>>
spiderVars == <<spiders, monitor, loaders>>
fileVars   == <<downloads, parsers, taskFilePathCache, taskFile>>
nodeVars   == <<up, crashes, released>>
history    == <<scheduled, excused, robbed>>
vars == <<masterVars, beat, spiderVars, queue, fileVars, nodeVars, history>>

-----------------------------------------------------------------------------
Spider == 1 .. MaxSpider
NoSpider == 0
Sleeping == [at |-> "sleep"]
NoFile == [whole |-> FALSE, opener |-> NoBlock]

Init ==
  /\ tasks = [t \in Task |-> NewTask] /\ progress = {}
  /\ isJar \in BOOLEAN
  /\ beat = [m \in Machine |-> Sleeping]
  /\ spiders = [m \in Machine |-> NoSpider]
  /\ monitor = [m \in Machine |-> NoSpider]
  /\ loaders = [m \in Machine |-> {}]
  /\ queue = [m \in Machine |-> [s \in Spider |-> <<>>]]
  /\ downloads = [m \in Machine |-> {}]
  /\ parsers = [m \in Machine |-> {}]
  /\ taskFilePathCache = [m \in Machine |-> {}]
  /\ taskFile = [m \in Machine |-> [t \in Task |-> NoFile]]
  /\ up = Machine
  /\ crashes = 0
  /\ released = [m \in Machine |-> TRUE]
  /\ scheduled = {} /\ excused = {} /\ robbed = {}

-----------------------------------------------------------------------------
(* The master.                                                             *)

SubmitTask(t) ==
  /\ t \notin progress
  /\ progress' = progress \cup {t}
  /\ UNCHANGED <<tasks, isJar, beat, spiderVars, queue, fileVars, nodeVars, history>>

\* The rows of the entries of a queue with the numbers S.
RowsOver(q, S) ==
  LET sum[i \in 0 .. Len(q)] ==
        IF i = 0 THEN 0 ELSE sum[i - 1] + (IF i \in S THEN q[i].rows ELSE 0)
  IN sum[Len(q)]

RowsIn(q) == RowsOver(q, 1 .. Len(q))

\* At most a tenth of a block is left.
BadNearlyIdle(report) == report.left <= RowPerBlock
NearlyIdle(report) == 10 * report.left <= RowPerBlock

Crawl(t, b) == [cmd |-> "crawl", task |-> t, block |-> b]
Load(t)     == [cmd |-> "load", task |-> t, block |-> NoBlock]

\* The blocks in the tasks' logs for a machine.
Logged(m, ts) == {<<t, tasks[t].distributeLog[m]>> :
                    t \in {t \in ts : tasks[t].distributeLog[m] # NoBlock}}

\* handleHeartBeat: if the spider is nearly idle each unfinished task is polled,
\* and if it is not there each of them sends a command to load it.
HandleHeartBeat(m) ==
  LET report == beat[m].report
      open   == {t \in progress : ~tasks[t].over}
      polled == {t \in open : report.found /\ NearlyIdle(report)}
  IN /\ beat[m].at = "sent"
     /\ tasks' = [t \in Task |-> IF t \in polled THEN CheckAndPoll(tasks[t], m) ELSE tasks[t]]
     /\ beat' = [beat EXCEPT ![m] =
          [at   |-> "answered",
           cmds |-> {Crawl(t, NextBlock(tasks[t])) : t \in {t \in polled : NextBlock(tasks[t]) # NoBlock}}
                    \cup {Load(t) : t \in {t \in open : ~report.found}}]]
     /\ excused' = excused \cup
          (IF monitor[m] # spiders[m] THEN Logged(m, polled) ELSE Logged(m, polled) \cap report.parsing)
     /\ UNCHANGED <<progress, isJar, spiderVars, queue, fileVars, nodeVars, scheduled, robbed>>

BadReleaseForgetsTasks(m) ==
  /\ ~released[m]
  /\ released' = [released EXCEPT ![m] = TRUE]
  /\ UNCHANGED <<masterVars, beat, spiderVars, queue, fileVars, up, crashes, history>>

\* releaseResource for a machine whose old znode is gone, which may have been
\* started again by now.
ReleaseResource(m) ==
  /\ ~released[m]
  /\ released' = [released EXCEPT ![m] = TRUE]
  /\ tasks' = [t \in Task |-> IF t \in progress THEN ReturnCrawlTask(tasks[t], m) ELSE tasks[t]]
  /\ robbed' = IF m \in up THEN robbed \cup Logged(m, progress) ELSE robbed
  /\ UNCHANGED <<progress, isJar, beat, spiderVars, queue, fileVars, up, crashes, scheduled, excused>>

-----------------------------------------------------------------------------
(* The heartbeat thread.                                                   *)

\* gatherHeartBeatData, and the call.  What is being parsed is history.
SendHeartBeat(m) ==
  /\ m \in up /\ beat[m].at = "sleep"
  /\ beat' = [beat EXCEPT ![m] =
       [at |-> "sent",
        report |-> [found   |-> monitor[m] # NoSpider,
                    left    |-> IF monitor[m] = NoSpider THEN 0 ELSE RowsIn(queue[m][monitor[m]]),
                    parsing |-> {<<p.task, p.block>> : p \in parsers[m]}]]]
  /\ UNCHANGED <<masterVars, spiderVars, queue, fileVars, nodeVars, history>>

\* The call fails on its way back; the thread catches that and sleeps.
LoseAnswer(m) ==
  /\ beat[m].at = "answered" /\ beat[m].cmds # {}
  /\ excused' = excused \cup {<<c.task, c.block>> : c \in {c \in beat[m].cmds : c.cmd = "crawl"}}
  /\ beat' = [beat EXCEPT ![m] = Sleeping]
  /\ UNCHANGED <<masterVars, spiderVars, queue, fileVars, nodeVars, scheduled, robbed>>

\* A common spider is loaded by the heartbeat thread itself.
Free(m) == isJar \/ loaders[m] = {}

Obeyed(m, c) == [beat EXCEPT ![m] = [at |-> "obey", cmds |-> beat[m].cmds \ {c}]]

\* REMOTE_CMD_NEWTASK: the file is downloaded unless its path is cached.
ObeyNewTask(m, c) ==
  /\ beat[m].at \in {"answered", "obey"} /\ Free(m) /\ c \in beat[m].cmds /\ c.cmd = "crawl"
  /\ beat' = Obeyed(m, c)
  /\ LET cached == c.task \in taskFilePathCache[m]
     IN /\ parsers' = [parsers EXCEPT ![m] =
              @ \cup {[task |-> c.task, block |-> c.block, ready |-> cached]}]
        /\ downloads' = IF cached THEN downloads ELSE
             [downloads EXCEPT ![m] = @ \cup {[task |-> c.task, block |-> c.block, opened |-> FALSE]}]
  /\ UNCHANGED <<masterVars, spiderVars, queue, taskFilePathCache, taskFile, nodeVars, history>>

\* REMOTE_CMD_COMMON_SPIDER_LOAD and REMOTE_CMD_JAR_SPIDER_LOAD.
ObeyLoad(m, c, s) ==
  /\ beat[m].at \in {"answered", "obey"} /\ Free(m) /\ c \in beat[m].cmds /\ c.cmd = "load"
  /\ s \notin {x.spider : x \in loaders[m]} \cup {spiders[m], monitor[m]} /\ queue[m][s] = <<>>
  /\ beat' = Obeyed(m, c)
  /\ loaders' = [loaders EXCEPT ![m] = @ \cup {[spider |-> s, put |-> FALSE]}]
  /\ UNCHANGED <<masterVars, spiders, monitor, queue, fileVars, nodeVars, history>>

\* The common spider cannot be built; the download of the jar fails or is cut,
\* or what it holds cannot be loaded.
LoadFails(m, c) ==
  /\ beat[m].at \in {"answered", "obey"} /\ Free(m) /\ c \in beat[m].cmds /\ c.cmd = "load"
  /\ beat' = Obeyed(m, c)
  /\ UNCHANGED <<masterVars, spiderVars, queue, fileVars, nodeVars, history>>

Sleep(m) ==
  /\ beat[m].at \in {"answered", "obey"} /\ Free(m) /\ beat[m].cmds = {}
  /\ beat' = [beat EXCEPT ![m] = Sleeping]
  /\ UNCHANGED <<masterVars, spiderVars, queue, fileVars, nodeVars, history>>

-----------------------------------------------------------------------------
(* Loading a spider: loadSpider, and the end of JarSpiderLoadThread.       *)

PutSpider(m, s) ==
  /\ [spider |-> s, put |-> FALSE] \in loaders[m]
  /\ spiders' = [spiders EXCEPT ![m] = s]
  /\ loaders' = [loaders EXCEPT ![m] = (@ \ {[spider |-> s, put |-> FALSE]})
                                         \cup {[spider |-> s, put |-> TRUE]}]
  /\ UNCHANGED <<masterVars, beat, monitor, queue, fileVars, nodeVars, history>>

BadRegisterFirst(m, s) ==
  /\ \E put \in BOOLEAN : [spider |-> s, put |-> put] \in loaders[m]
  /\ monitor' = [monitor EXCEPT ![m] = IF @ = NoSpider THEN s ELSE @]
  /\ loaders' = [loaders EXCEPT ![m] = @ \ {[spider |-> s, put |-> TRUE]}]
  /\ UNCHANGED <<masterVars, beat, spiders, queue, fileVars, nodeVars, history>>

\* SpiderMonitor.register: the name of the MBean is taken when a spider of the
\* bizCode is registered already, and its status stays the one reported.
RegisterSpider(m, s) ==
  /\ [spider |-> s, put |-> TRUE] \in loaders[m]
  /\ monitor' = [monitor EXCEPT ![m] = IF @ = NoSpider THEN s ELSE @]
  /\ loaders' = [loaders EXCEPT ![m] = @ \ {[spider |-> s, put |-> TRUE]}]
  /\ UNCHANGED <<masterVars, beat, spiders, queue, fileVars, nodeVars, history>>

-----------------------------------------------------------------------------
(* FileDownloadClient for a task file.                                     *)

\* The name has been received: the file is created, or truncated.
OpenFile(m, d) ==
  /\ d \in downloads[m] /\ ~d.opened
  /\ downloads' = [downloads EXCEPT ![m] = (@ \ {d}) \cup {[d EXCEPT !.opened = TRUE]}]
  /\ taskFile' = [taskFile EXCEPT ![m][d.task] = [whole |-> FALSE, opener |-> d.block]]
  /\ UNCHANGED <<masterVars, beat, spiderVars, queue, parsers, taskFilePathCache, nodeVars, history>>

\* What a download leaves: nothing new if it has received nothing, and perhaps a
\* hole if another one has truncated the file under it.
Completed(m, d) ==
  LET file == taskFile[m][d.task]
  IN IF ~d.opened THEN {file.whole}
     ELSE IF file.opener = d.block THEN {TRUE} ELSE {file.whole, TRUE}

\* The connection has ended, also one that has brought nothing at all, and the
\* path is cached.
FinishDownload(m, d) ==
  /\ d \in downloads[m]
  /\ downloads' = [downloads EXCEPT ![m] = @ \ {d}]
  /\ \E whole \in Completed(m, d) : taskFile' = [taskFile EXCEPT ![m][d.task].whole = whole]
  /\ taskFilePathCache' = [taskFilePathCache EXCEPT ![m] = @ \cup {d.task}]
  /\ parsers' = [parsers EXCEPT ![m] =
       {IF p.task = d.task /\ p.block = d.block THEN [p EXCEPT !.ready = TRUE] ELSE p : p \in @}]
  /\ UNCHANGED <<masterVars, beat, spiderVars, queue, nodeVars, history>>

\* The connection is refused, which sets the request's failed flag, or is cut,
\* which sets none: the parse thread waits for ever.
LoseDownload(m, d) ==
  /\ d \in downloads[m]
  /\ downloads' = [downloads EXCEPT ![m] = @ \ {d}]
  /\ UNCHANGED <<masterVars, beat, spiderVars, queue, parsers, taskFilePathCache, taskFile,
                 nodeVars, history>>

-----------------------------------------------------------------------------
(* CrawlTaskParseThread.                                                   *)

\* The rows that are found in the file: of a file that is being overwritten
\* some, or none because a line does not parse.
Found(m, p) == IF taskFile[m][p.task].whole THEN {Size(p.block)} ELSE 0 .. Size(p.block)

\* Without a spider the thread returns and says nothing.
Parse(m, p) ==
  /\ p \in parsers[m] /\ p.ready
  /\ parsers' = [parsers EXCEPT ![m] = @ \ {p}]
  /\ \E rows \in Found(m, p) :
       /\ queue' = IF rows = 0 \/ spiders[m] = NoSpider THEN queue ELSE
            [queue EXCEPT ![m][spiders[m]] = Append(@, [task |-> p.task, block |-> p.block, rows |-> rows])]
       /\ scheduled' = IF rows = Size(p.block) /\ spiders[m] # NoSpider
                       THEN scheduled \cup {<<p.task, p.block>>} ELSE scheduled
       /\ excused' = IF rows = Size(p.block) THEN excused ELSE excused \cup {<<p.task, p.block>>}
  /\ UNCHANGED <<masterVars, beat, spiderVars, downloads, taskFilePathCache, taskFile, nodeVars, robbed>>

BadCrawlRowKeepsEmpty(m, s) ==
  /\ queue[m][s] # <<>> /\ Head(queue[m][s]).rows > 0
  /\ queue' = [queue EXCEPT ![m][s][1].rows = @ - 1]
  /\ UNCHANGED <<masterVars, beat, spiderVars, fileVars, nodeVars, history>>

RowTaken(q) ==
  IF q[1].rows = 1 THEN Tail(q) ELSE [q EXCEPT ![1] = [q[1] EXCEPT !.rows = q[1].rows - 1]]

\* A worker thread of the spider takes the next row.
CrawlRow(m, s) ==
  /\ queue[m][s] # <<>>
  /\ queue' = [queue EXCEPT ![m][s] = RowTaken(@)]
  /\ UNCHANGED <<masterVars, beat, spiderVars, fileVars, nodeVars, history>>

-----------------------------------------------------------------------------
(* The process dies and is started again, by hand, at any time.            *)

Crash(m) ==
  /\ m \in up /\ crashes < MaxCrash
  /\ up' = up \ {m} /\ crashes' = crashes + 1
  /\ released' = [released EXCEPT ![m] = FALSE]
  /\ beat' = [beat EXCEPT ![m] = Sleeping]
  /\ spiders' = [spiders EXCEPT ![m] = NoSpider] /\ monitor' = [monitor EXCEPT ![m] = NoSpider]
  /\ loaders' = [loaders EXCEPT ![m] = {}]
  /\ queue' = [queue EXCEPT ![m] = [s \in Spider |-> <<>>]]
  /\ downloads' = [downloads EXCEPT ![m] = {}] /\ parsers' = [parsers EXCEPT ![m] = {}]
  /\ taskFilePathCache' = [taskFilePathCache EXCEPT ![m] = {}]
  /\ excused' = excused \cup Logged(m, progress)
  /\ UNCHANGED <<masterVars, taskFile, scheduled, robbed>>

Restart(m) ==
  /\ m \notin up
  /\ up' = up \cup {m}
  /\ UNCHANGED <<masterVars, beat, spiderVars, queue, fileVars, crashes, released, history>>

-----------------------------------------------------------------------------
Command == [cmd : {"crawl"}, task : Task, block : Block]
           \cup [cmd : {"load"}, task : Task, block : {NoBlock}]
Download == [task : Task, block : Block, opened : BOOLEAN]
Parser == [task : Task, block : Block, ready : BOOLEAN]

Obey(m) == \E c \in Command :
  ObeyNewTask(m, c) \/ LoadFails(m, c) \/ \E s \in Spider : ObeyLoad(m, c, s)
LoadStep(m)     == \E s \in Spider : PutSpider(m, s) \/ RegisterSpider(m, s)
DownloadStep(m) == \E d \in Download : OpenFile(m, d) \/ FinishDownload(m, d) \/ LoseDownload(m, d)
ParseStep(m)    == \E p \in Parser : Parse(m, p)
CrawlStep(m)    == \E s \in Spider : CrawlRow(m, s)
BeatStep(m)     == SendHeartBeat(m) \/ HandleHeartBeat(m) \/ LoseAnswer(m) \/ Obey(m) \/ Sleep(m)

Next ==
  \/ \E t \in Task : SubmitTask(t)
  \/ \E m \in Machine :
       \/ BeatStep(m) \/ LoadStep(m) \/ DownloadStep(m) \/ ParseStep(m) \/ CrawlStep(m)
       \/ ReleaseResource(m) \/ Crash(m) \/ Restart(m)

Spec == Init /\ [][Next]_vars

\* The heartbeat thread runs for ever, a loader, a download or a parse thread
\* that can go on does, and a spider's workers take rows while there are any.
\* The master releases a machine that has died (MasterHeartBeat says when).
Fairness == \A m \in Machine :
  /\ WF_vars(BeatStep(m)) /\ WF_vars(LoadStep(m)) /\ WF_vars(CrawlStep(m))
  /\ WF_vars(ReleaseResource(m))

FairSpec == Spec /\ Fairness

-----------------------------------------------------------------------------
(* Properties.                                                             *)

Queued == [task : Task, block : Block, rows : 1 .. RowPerBlock]
Loader == [spider : Spider, put : BOOLEAN]
Report == [found : BOOLEAN, left : Nat, parsing : SUBSET (Task \X Block)]
Beat   == {Sleeping} \cup [at : {"sent"}, report : Report]
                     \cup [at : {"answered", "obey"}, cmds : SUBSET Command]

\* Type correctness of the master's tasks and of the followers.
TypeOK ==
  /\ tasks \in [Task -> TaskType] /\ progress \subseteq Task /\ isJar \in BOOLEAN
  /\ beat \in [Machine -> Beat]
  /\ spiders \in [Machine -> Spider \cup {NoSpider}] /\ monitor \in [Machine -> Spider \cup {NoSpider}]
  /\ loaders \in [Machine -> SUBSET Loader]
  /\ queue \in [Machine -> [Spider -> Seq(Queued)]]
  /\ downloads \in [Machine -> SUBSET Download] /\ parsers \in [Machine -> SUBSET Parser]
  /\ taskFilePathCache \in [Machine -> SUBSET Task]
  /\ taskFile \in [Machine -> [Task -> [whole : BOOLEAN, opener : Block \cup {NoBlock}]]]
  /\ up \subseteq Machine /\ crashes \in 0 .. MaxCrash /\ released \in [Machine -> BOOLEAN]
  /\ scheduled \subseteq Task \X Block
  /\ excused \subseteq Task \X Block /\ robbed \subseteq Task \X Block

\* The entries of a block in a queue, and its rows in it.
EntriesOf(q, t, b)   == {i \in 1 .. Len(q) : q[i].task = t /\ q[i].block = b}
RowsOfBlock(q, t, b) == RowsOver(q, EntriesOf(q, t, b))

Parses(m, t, b) == \E p \in parsers[m] : p.task = t /\ p.block = b
Crawls(m, t, b) == \E s \in Spider : EntriesOf(queue[m][s], t, b) # {}

\* When a block is counted a spider has been given all of its rows, and its
\* threads have taken all but a tenth of a block, unless the answer that
\* carried it was lost, its machine died or was taken for dead, its file was
\* still being fetched or parsed or was overwritten while it was read, or the
\* spider that reports is not the one that crawls
\* (HeartBeatProtocolImpl.java:51-52, FollowerNode.java:682-699).
CountedIsNearlyCrawled ==
  \A t \in Task : \A b \in tasks[t].credited : <<t, b>> \notin excused \cup robbed =>
    /\ <<t, b>> \in scheduled
    /\ \A m \in Machine :
         /\ ~Parses(m, t, b)
         /\ \A s \in Spider : 10 * RowsOfBlock(queue[m][s], t, b) <= RowPerBlock

WorksOn(m, t, b) == Parses(m, t, b) \/ Crawls(m, t, b)

\* Two machines never work on one block, unless it was taken back from one that
\* was started again before the master saw that it had died
\* (Task.java:191-229, MasterNode.java:667).
OneMachinePerBlock ==
  \A t \in Task, b \in Block, m, n \in Machine :
    WorksOn(m, t, b) /\ WorksOn(n, t, b) /\ <<t, b>> \notin robbed => m = n

\* A parse thread always finds the spider: it is put into the map before the
\* monitor, from which the master learns of it, has it
\* (FollowerNode.java:167-175,864-871,913-915).
ParserFindsSpider == \A m \in Machine : parsers[m] # {} => spiders[m] # NoSpider

\* If in the end a machine stays up with its spider registered, every task that
\* is submitted comes to its end, whatever answers and downloads are lost.
Stays(m) == m \in up /\ monitor[m] # NoSpider

TasksEnd ==
  (\E m \in Machine : <>[]Stays(m)) => \A t \in Task : [](t \in progress => <>tasks[t].over)

=============================================================================
