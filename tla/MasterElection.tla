--------------------------- MODULE MasterElection ---------------------------
(***************************************************************************)
(* Who is the master (SpiderProcess): the boot of a process, its ZooKeeper *)
(* watcher, the contest after the master's znode is gone, and the return   *)
(* of a master whose session expired.                                      *)
(*                                                                         *)
(* A process has one event thread, which handles one event at a time and   *)
(* sleeps in the handler; watches are one-shot.  A process may die, which  *)
(* the server notices when its session times out, or lose its session and  *)
(* live on, which it notices later.                                        *)
(* A Bad... definition is a faulty variant of the one that follows it.     *)
(***************************************************************************)
EXTENDS Naturals, Sequences

CONSTANTS
  Node,
  NoNode,
  StartLevel,  \* the levels with which each node's process may be started
  MaxBoot,     \* bound: processes started
  MaxExpire,   \* bound: sessions that expire under a living process
  MaxFailure   \* bound: elected nodes whose MasterNode cannot be built

Level == {"master", "follower", "worker"}

ASSUME NodeAssumption == NoNode \notin Node /\ StartLevel \in [Node -> SUBSET Level]
ASSUME BoundAssumption == {MaxBoot, MaxExpire, MaxFailure} \subseteq Nat

VARIABLES
  znode,      \* the master's znode: who owns it and whose address it holds
  ghost,      \* its owner's process has died and the session not timed out
  up,         \* nodes with a running process
  level,      \* NODE_LEVEL of each process
  session,    \* processes with a valid session
  slaves,     \* processes with a slave znode
  watch,      \* processes with a watch on the master's znode
  events,     \* events that each process has received and not handled
  thread,     \* what the booting or the event thread of each process does
  serves,     \* processes with a MasterNode
  following,  \* whose services each process calls
  boots, expiries, failures,
  deletions,  \* history: how often the master's znode has vanished
  partitioned \* history: processes that have lost a session

znodeVars == <<znode, ghost>>
processVars == <<up, level, session>>
boundVars == <<boots, expiries, failures, deletions, partitioned>>
vars == <<znodeVars, processVars, slaves, watch, events, thread, serves, following, boundVars>>

NoZnode == [owner |-> NoNode, data |-> NoNode]
Exists == znode # NoZnode

Init ==
  /\ znode = NoZnode /\ ghost = FALSE
  /\ up = {} /\ level = [n \in Node |-> "worker"] /\ session = {}
  /\ slaves = {} /\ watch = {}
  /\ events = [n \in Node |-> <<>>]
  /\ thread = [n \in Node |-> "free"]
  /\ serves = {} /\ following = [n \in Node |-> NoNode]
  /\ boots = 0 /\ expiries = 0 /\ failures = 0 /\ deletions = 0 /\ partitioned = {}

Goto(n, place) == thread' = [thread EXCEPT ![n] = place]

\* Every watch on the znode fires; n's own event, if any, follows.
Fire(kind, own) ==
  /\ events' = [n \in Node |->
       events[n] \o (IF n \in watch /\ n \notin DOMAIN own THEN <<kind>> ELSE <<>>)
                 \o (IF n \in DOMAIN own THEN <<own[n]>> ELSE <<>>)]
  /\ watch' = {}

NoOwn == [n \in {} |-> ""]

-----------------------------------------------------------------------------
(* SpiderProcess.init.                                                     *)

\* A process that is told to be the master goes on only if there is none; a
\* follower that finds none becomes the master (line 85).
Boot(n) ==
  \E l \in StartLevel[n] :
     /\ n \notin up /\ boots < MaxBoot
     /\ l = "master" => ~Exists
     /\ l = "worker" => Exists
     /\ boots' = boots + 1
     /\ up' = up \cup {n} /\ session' = session \cup {n}
     /\ level' = [level EXCEPT ![n] = IF l = "follower" /\ ~Exists THEN "master" ELSE l]
     /\ Goto(n, IF Exists THEN "joining" ELSE "creating")
     /\ UNCHANGED <<znodeVars, slaves, watch, events, serves, following,
                    expiries, failures, deletions, partitioned>>

BadExit(n) ==
  /\ up' = up \ {n} /\ Goto(n, "free")
  /\ UNCHANGED <<level, session, znodeVars, slaves, watch, serves, following>>

\* System.exit.
Exit(n) ==
  /\ up' = up \ {n} /\ session' = session \ {n}
  /\ Goto(n, "free")
  /\ UNCHANGED <<level, znodeVars, slaves, watch, serves, following>>

Create(n) == znode' = [owner |-> n, data |-> n] /\ ghost' = FALSE

BootMaster(n) ==
  /\ thread[n] = "creating"
  /\ IF Exists
     THEN Exit(n)
     ELSE /\ Create(n) /\ serves' = serves \cup {n}
          /\ Goto(n, "free")
          /\ UNCHANGED <<processVars, slaves, watch, following>>
  /\ UNCHANGED <<events, boundVars>>

\* updateMasterNodeData: the data of the znode, with a watch on it.
ReadMaster(n) ==
  /\ following' = [following EXCEPT ![n] = znode.data]
  /\ watch' = watch \cup {n}

BootSlave(n) ==
  /\ thread[n] = "joining"
  /\ IF ~Exists
     THEN Exit(n)
     ELSE /\ ReadMaster(n) /\ slaves' = slaves \cup {n}
          /\ Goto(n, "free")
          /\ UNCHANGED <<znodeVars, processVars, serves>>
  /\ UNCHANGED <<events, boundVars>>

-----------------------------------------------------------------------------
(* Deaths and sessions.                                                    *)

Booted(n) == n \in up /\ thread[n] \notin {"creating", "joining"}

Crash(n) ==
  /\ Booted(n)
  /\ ghost' = (ghost \/ znode.owner = n)
  /\ up' = up \ {n} /\ session' = session \ {n}
  /\ slaves' = slaves \ {n} /\ watch' = watch \ {n} /\ serves' = serves \ {n}
  /\ events' = [events EXCEPT ![n] = <<>>] /\ Goto(n, "free")
  /\ following' = [following EXCEPT ![n] = NoNode]
  /\ partitioned' = partitioned \ {n}
  /\ UNCHANGED <<znode, level, boots, expiries, failures, deletions>>

\* The znode of a dead process vanishes.
TimeOut ==
  /\ ghost
  /\ znode' = NoZnode /\ ghost' = FALSE
  /\ deletions' = deletions + 1
  /\ Fire("deleted", NoOwn)
  /\ UNCHANGED <<processVars, slaves, thread, serves, following, boots, expiries, failures, partitioned>>

\* A living process loses its session, its znodes and its watches.
Expire(n) ==
  /\ Booted(n) /\ n \in session /\ expiries < MaxExpire
  /\ expiries' = expiries + 1
  /\ partitioned' = partitioned \cup {n}
  /\ session' = session \ {n} /\ slaves' = slaves \ {n}
  /\ IF znode.owner = n /\ ~ghost
     THEN /\ znode' = NoZnode /\ deletions' = deletions + 1
          /\ Fire("deleted", [x \in {n} |-> "expired"])
     ELSE /\ events' = [events EXCEPT ![n] = Append(@, "expired")]
          /\ watch' = watch \ {n}
          /\ UNCHANGED <<znode, deletions>>
  /\ UNCHANGED <<ghost, up, level, thread, serves, following, boots, failures>>

-----------------------------------------------------------------------------
(* MyWatcher.process.                                                      *)

Handles(n, event) == thread[n] = "free" /\ events[n] # <<>> /\ Head(events[n]) = event
Handled(n) == [events EXCEPT ![n] = Tail(@)]

\* Expired, NODE_LEVEL follower: a new session; without a master's znode the
\* rest is skipped.
ReconnectFollower(n) ==
  /\ Handles(n, "expired") /\ level[n] = "follower"
  /\ events' = Handled(n)
  /\ session' = session \cup {n}
  /\ IF Exists
     THEN ReadMaster(n) /\ slaves' = slaves \cup {n}
     ELSE UNCHANGED <<following, watch, slaves>>
  /\ UNCHANGED <<znodeVars, up, level, thread, serves, boundVars>>

\* Expired, NODE_LEVEL master: it writes its address into the new master's
\* znode, or creates the znode in a step of its own.
ReconnectMaster(n) ==
  /\ Handles(n, "expired") /\ level[n] = "master"
  /\ session' = session \cup {n}
  /\ IF Exists
     THEN /\ znode' = [znode EXCEPT !.data = n]
          /\ events' = [k \in Node |-> Handled(n)[k] \o (IF k \in watch THEN <<"changed">> ELSE <<>>)]
          /\ watch' = {}
          /\ UNCHANGED thread
     ELSE /\ Goto(n, "rebuilding") /\ events' = Handled(n)
          /\ UNCHANGED <<znode, watch>>
  /\ UNCHANGED <<ghost, up, level, slaves, serves, following, boundVars>>

\* If a znode has come up in between, the exception is printed.
Rebuild(n) ==
  /\ thread[n] = "rebuilding"
  /\ Goto(n, "free")
  /\ IF n \in session /\ ~Exists THEN Create(n) ELSE UNCHANGED znodeVars
  /\ UNCHANGED <<processVars, slaves, watch, events, serves, following, boundVars>>

\* A worker does nothing: its session is not renewed.
IgnoreExpired(n) ==
  /\ Handles(n, "expired") /\ level[n] = "worker"
  /\ events' = Handled(n)
  /\ UNCHANGED <<znodeVars, processVars, slaves, watch, thread, serves, following, boundVars>>

\* NodeDeleted: a follower sleeps for 30 seconds before the contest.
NoticeDeleted(n) ==
  /\ Handles(n, "deleted")
  /\ events' = Handled(n)
  /\ IF level[n] = "follower" THEN Goto(n, "sleeping") ELSE UNCHANGED thread
  /\ UNCHANGED <<znodeVars, processVars, slaves, watch, serves, following, boundVars>>

BadContestOverwrites(n) ==
  /\ thread[n] = "sleeping"
  /\ Create(n) /\ Goto(n, "won")
  /\ UNCHANGED <<processVars, slaves, watch, events, serves, following, boundVars>>

BadContestYields(n) ==
  /\ thread[n] = "sleeping" /\ Exists
  /\ Goto(n, "lost")
  /\ UNCHANGED <<znodeVars, processVars, slaves, watch, events, serves, following, boundVars>>

\* startToElectionContest, the creation of the znode.
Contest(n) ==
  /\ thread[n] = "sleeping"
  /\ IF n \in session /\ ~Exists THEN Create(n) ELSE UNCHANGED znodeVars
  /\ Goto(n, IF n \notin session THEN "free" ELSE IF Exists THEN "lost" ELSE "won")
  /\ UNCHANGED <<processVars, slaves, watch, events, serves, following, boundVars>>

\* The rest of it: the winner deletes its slave znode, which fails without a
\* session, closes its FollowerNode and builds a MasterNode, which may fail.
\* NODE_LEVEL stays follower.
TakeOver(n) ==
  /\ thread[n] = "won" /\ Goto(n, "free")
  /\ slaves' = slaves \ {n}
  /\ \/ n \in session /\ serves' = serves \cup {n} /\ UNCHANGED failures
     \/ n \in session /\ failures < MaxFailure /\ failures' = failures + 1 /\ UNCHANGED serves
     \/ n \notin session /\ UNCHANGED <<serves, failures>>
  /\ UNCHANGED <<znodeVars, processVars, watch, events, following, boots, expiries, deletions, partitioned>>

BadReloadUnwatched(n) ==
  /\ following' = IF Exists THEN [following EXCEPT ![n] = znode.data] ELSE following
  /\ UNCHANGED watch

BadReloadUnread(n) == watch' = watch \cup {n} /\ UNCHANGED following

\* updateMasterNodeData where its exception is caught: without a znode, or a
\* session, the follower has no watch afterwards.
Reload(n) ==
  IF n \in session /\ Exists THEN ReadMaster(n) ELSE UNCHANGED <<following, watch>>

\* A loser reads the winner's data after another 30 seconds.
LoserReads(n) ==
  /\ thread[n] = "lost" /\ Goto(n, "free")
  /\ Reload(n)
  /\ UNCHANGED <<znodeVars, processVars, slaves, events, serves, boundVars>>

\* NodeDataChanged.
NoticeChanged(n) ==
  /\ Handles(n, "changed")
  /\ events' = Handled(n)
  /\ Reload(n)
  /\ UNCHANGED <<znodeVars, processVars, slaves, thread, serves, boundVars>>

EventStep(n) ==
  \/ ReconnectFollower(n) \/ ReconnectMaster(n) \/ Rebuild(n) \/ IgnoreExpired(n)
  \/ NoticeDeleted(n) \/ Contest(n) \/ TakeOver(n) \/ LoserReads(n) \/ NoticeChanged(n)

BootStep(n) == BootMaster(n) \/ BootSlave(n)

Next ==
  \/ \E n \in Node : Boot(n) \/ BootStep(n) \/ EventStep(n) \/ Crash(n) \/ Expire(n)
  \/ TimeOut

\* The threads go on, and the server times sessions out.
Fairness == WF_vars(TimeOut) /\ \A n \in Node : WF_vars(EventStep(n)) /\ WF_vars(BootStep(n))

Spec == Init /\ [][Next]_vars /\ Fairness

-----------------------------------------------------------------------------
(* Properties.                                                             *)

Thread == {"free", "creating", "joining", "rebuilding", "sleeping", "won", "lost"}

\* Type correctness.
TypeOK ==
  /\ znode \in [owner : Node \cup {NoNode}, data : Node \cup {NoNode}]
  /\ ghost \in BOOLEAN /\ (znode.owner = NoNode <=> znode = NoZnode)
  /\ session \subseteq up /\ up \subseteq Node /\ level \in [Node -> Level]
  /\ slaves \subseteq up /\ watch \subseteq up /\ serves \subseteq up
  /\ events \in [Node -> Seq({"deleted", "changed", "expired"})]
  /\ thread \in [Node -> Thread]
  /\ following \in [Node -> Node \cup {NoNode}]
  /\ boots \in Nat /\ expiries \in Nat /\ failures \in Nat /\ deletions \in Nat
  /\ partitioned \subseteq Node

\* A process that serves as the master owns the master's znode
\* (SpiderProcess.java:72-76, 83-88, 130-138), unless it has lost a session
\* and kept its MasterNode: so without such a loss there is one master.
ServingOwnsZnode == \A n \in serves \ partitioned : znode.owner = n /\ ~ghost

\* While a process has a watch on the master's znode, what it calls is what the
\* znode says (SpiderProcess.java:157-175): no change of it is missed between a
\* one-shot watch and the next.
WatcherIsCurrent == \A n \in watch : Exists /\ following[n] = znode.data

\* A follower that nothing will tell of a master any more.
Deaf(n) ==
  /\ Booted(n) /\ level[n] = "follower" /\ n \notin serves /\ znode.owner # n
  /\ thread[n] = "free" /\ events[n] = <<>> /\ n \notin watch

\* A follower that keeps its session hears of the first failover: it takes two
\* losses of the master's znode, the second while the follower sleeps or
\* handles the first, to leave it without a watch (SpiderProcess.java:146-147).
FirstFailoverIsHeard ==
  deletions <= 1 => \A n \in Node \ partitioned : ~Deaf(n)

\* SpiderProcess.java:309: when the master's znode is deleted a new master is
\* chosen, as long as there is a follower that hears of it.
MasterReturns ==
  (~Exists /\ \E n \in up : level[n] = "follower" /\ n \notin serves)
    ~> (Exists \/ \A n \in up : level[n] = "follower" /\ n \notin serves => Deaf(n))
=============================================================================
