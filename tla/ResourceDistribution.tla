------------------------ MODULE ResourceDistribution ------------------------
(***************************************************************************)
(* How the master lends proxy addresses and website accounts to the        *)
(* followers' spiders (MasterNode.distributeProxyIp, distributeAccount)    *)
(* and takes those of a vanished machine back (the first two loops of      *)
(* releaseResource).  The two kinds are handled by the same code on maps   *)
(* of their own, and so are one kind here; Offered says which of them the  *)
(* query for a spider returns: every address, the accounts of its site.    *)
(*                                                                         *)
(* The distribution methods are synchronized.  releaseResource is not: it  *)
(* runs on the ZooKeeper event thread and is cut at each removal.          *)
(* A Bad... definition is a faulty variant of the one that follows it.     *)
(***************************************************************************)
EXTENDS Naturals, FiniteSets

CONSTANTS
  Machine,
  Biz,         \* the spiders' bizCodes
  Resource,    \* addresses, or accounts
  Offered,     \* the resources in the query for each spider
  MaxRelease,  \* bound: times a machine is found to have vanished
  ListsRace    \* whether concurrent updates of an ArrayList may lose an addition

ASSUME OfferedAssumption == Offered \in [Biz -> SUBSET Resource]
ASSUME BoundAssumption == MaxRelease \in Nat /\ ListsRace \in BOOLEAN

VARIABLES
  rows,         \* the resources the database still has
  biz_map,      \* biz_ip_map: resources lent for each spider
  biz_keys,     \* the spiders that have an entry in it
  machine_map,  \* machine_ip_map: resources ever lent to each machine
  holds,        \* what the running process of each machine was lent for each spider
  vanished,     \* machines whose znode is gone and that are still to be released
  releases,     \* how often each machine has vanished
  walk          \* releaseResource, as far as it has come

vars == <<rows, biz_map, biz_keys, machine_map, holds, vanished, releases, walk>>

NoWalk == [at |-> "idle"]

Init ==
  /\ rows = Resource
  /\ biz_map = [b \in Biz |-> {}]
  /\ biz_keys = {}
  /\ machine_map = [m \in Machine |-> {}]
  /\ holds = [m \in Machine |-> [b \in Biz |-> {}]]
  /\ vanished = {}
  /\ releases = [m \in Machine |-> 0]
  /\ walk = NoWalk

-----------------------------------------------------------------------------
(* Distribution.                                                           *)

BadFreeUnchecked(b) == rows \cap Offered[b]
Free(b) == (rows \cap Offered[b]) \ biz_map[b]

\* distributeProxyIp and distributeAccount: the first need free rows in the
\* order of the query, or all of them if they are fewer.  An answer that the
\* machine does not receive has lent them all the same.  The spider's list is
\* an ArrayList, and one that releaseResource is removing from at the same time
\* may lose what is added.
Distribute(m, b) ==
  \E lent \in SUBSET Free(b) : \E lost \in SUBSET lent :
     /\ lost # {} => ListsRace /\ walk.at = "remove" /\ b \in walk.bizs
     /\ biz_map' = [biz_map EXCEPT ![b] = @ \cup (lent \ lost)]
     /\ biz_keys' = biz_keys \cup {b}
     /\ machine_map' = [machine_map EXCEPT ![m] = @ \cup lent]
     /\ holds' = [holds EXCEPT ![m][b] = @ \cup lent]
     /\ UNCHANGED <<rows, vanished, releases, walk>>

\* delProxyIp, called for an address that keeps failing, and the loss of an
\* account's validity: the row is gone and the maps are not told.
DeleteRow(r) ==
  /\ rows' = rows \ {r}
  /\ UNCHANGED <<biz_map, biz_keys, machine_map, holds, vanished, releases, walk>>

-----------------------------------------------------------------------------
(* A machine's znode vanishes: its process has died and is started again   *)
(* with empty pools, or lives on with what it has under a new session.     *)

Vanish(m) ==
  /\ releases[m] < MaxRelease /\ m \notin vanished
  /\ vanished' = vanished \cup {m}
  /\ releases' = [releases EXCEPT ![m] = @ + 1]
  /\ UNCHANGED <<rows, biz_map, biz_keys, machine_map, walk>>

Die(m) == Vanish(m) /\ holds' = [holds EXCEPT ![m] = [b \in Biz |-> {}]]

LoseSession(m) == Vanish(m) /\ UNCHANGED holds

-----------------------------------------------------------------------------
(* releaseResource.                                                        *)

StartRelease(m) ==
  /\ walk.at = "idle" /\ m \in vanished
  /\ walk' = [at |-> "next", machine |-> m, list |-> machine_map[m], todo |-> machine_map[m]]
  /\ UNCHANGED <<rows, biz_map, biz_keys, machine_map, holds, vanished, releases>>

\* An empty or missing list is not iterated.
ListChanged == walk.list # {} /\ machine_map[walk.machine] # walk.list

\* The next resource of the machine's list.
NextResource(r) ==
  /\ walk.at = "next" /\ ~ListChanged /\ r \in walk.todo
  /\ walk' = [at |-> "remove", machine |-> walk.machine, list |-> walk.list,
              todo |-> walk.todo \ {r}, resource |-> r, keys |-> biz_keys, bizs |-> biz_keys]
  /\ UNCHANGED <<rows, biz_map, biz_keys, machine_map, holds, vanished, releases>>

BadRemoveFirstOnly(b) ==
  /\ walk.at = "remove" /\ biz_keys = walk.keys /\ b \in walk.bizs
  /\ biz_map' = [biz_map EXCEPT ![b] = @ \ {walk.resource}]
  /\ walk' = [walk EXCEPT !.bizs = {}]
  /\ UNCHANGED <<rows, biz_keys, machine_map, holds, vanished, releases>>

\* It is taken from the list of every spider, whichever it was lent for.
RemoveFromBiz(b) ==
  /\ walk.at = "remove" /\ biz_keys = walk.keys /\ b \in walk.bizs
  /\ biz_map' = [biz_map EXCEPT ![b] = @ \ {walk.resource}]
  /\ walk' = [walk EXCEPT !.bizs = @ \ {b}]
  /\ UNCHANGED <<rows, biz_keys, machine_map, holds, vanished, releases>>

EndResource ==
  /\ walk.at = "remove" /\ walk.bizs = {}
  /\ walk' = [at |-> "next", machine |-> walk.machine, list |-> walk.list, todo |-> walk.todo]
  /\ UNCHANGED <<rows, biz_map, biz_keys, machine_map, holds, vanished, releases>>

\* The machine's list, or the map of the spiders' lists, has grown under its
\* iterator: the iterator throws, the callback catches it and the machine stays
\* in the cache.
ReleaseFails ==
  /\ \/ walk.at = "next" /\ ListChanged
     \/ walk.at = "remove" /\ walk.bizs # {} /\ biz_keys # walk.keys
  /\ walk' = NoWalk
  /\ UNCHANGED <<rows, biz_map, biz_keys, machine_map, holds, vanished, releases>>

BadEndReleaseDropsEntry ==
  /\ walk.at = "next" /\ walk.todo = {} /\ ~ListChanged
  /\ vanished' = vanished \ {walk.machine}
  /\ machine_map' = [m \in Machine \ {walk.machine} |-> machine_map[m]]
  /\ walk' = NoWalk
  /\ UNCHANGED <<rows, biz_map, biz_keys, holds, releases>>

\* The machine's own list is not emptied.
EndRelease ==
  /\ walk.at = "next" /\ walk.todo = {} /\ ~ListChanged
  /\ vanished' = vanished \ {walk.machine}
  /\ walk' = NoWalk
  /\ UNCHANGED <<rows, biz_map, biz_keys, machine_map, holds, releases>>

ReleaseStep ==
  \/ EndResource \/ ReleaseFails \/ EndRelease
  \/ \E m \in Machine : StartRelease(m)
  \/ \E r \in Resource : NextResource(r)
  \/ \E b \in Biz : RemoveFromBiz(b)

Next ==
  \/ \E m \in Machine : Die(m) \/ LoseSession(m) \/ \E b \in Biz : Distribute(m, b)
  \/ \E r \in Resource : DeleteRow(r)
  \/ ReleaseStep

Spec == Init /\ [][Next]_vars

-----------------------------------------------------------------------------
(* Properties.                                                             *)

\* Type correctness of the maps.
TypeOK ==
  /\ rows \subseteq Resource
  /\ biz_map \in [Biz -> SUBSET Resource] /\ biz_keys \subseteq Biz
  /\ machine_map \in [Machine -> SUBSET Resource]
  /\ holds \in [Machine -> [Biz -> SUBSET Resource]]
  /\ vanished \subseteq Machine
  /\ walk.at \in {"idle", "next", "remove"}

Shared(b) == {r \in Resource : \E m, n \in Machine : m # n /\ r \in holds[m][b] \cap holds[n][b]}

\* MasterNode.java:532: under one bizCode an address is not assigned to two
\* machines.  As long as no machine has vanished the code keeps it.
ExclusiveUntilRelease == (\A m \in Machine : releases[m] = 0) => \A b \in Biz : Shared(b) = {}

\* No address is lost to a spider: once every vanished machine is released,
\* whatever the spider's list says is lent was lent to a process that still
\* runs (MasterNode.java:555-562 against 619-627).
NothingLeaks ==
  vanished = {} => \A b \in Biz : biz_map[b] \subseteq UNION {holds[m][b] : m \in Machine}

\* MasterNode.java:532 for the machines that have never vanished.  The release
\* of another machine takes an address from every spider's list, also from
\* that of a spider for which one of them holds it.
NeverSharedBySteadyMachines ==
  \A b \in Biz, m, n \in Machine :
    m # n /\ releases[m] = 0 /\ releases[n] = 0 => holds[m][b] \cap holds[n][b] = {}
=============================================================================
