-------------------- MODULE ResourceDistribution_proofs ---------------------
(***************************************************************************)
(* Theorems about the lending of addresses and accounts, for any machines, *)
(* spiders and resources and any number of releases.                       *)
(***************************************************************************)
EXTENDS ResourceDistribution, TLAPS

-----------------------------------------------------------------------------
(* The inductive invariant.                                                *)

\* The maps, and the three shapes of the walk.
MapsTyped ==
  /\ rows \subseteq Resource
  /\ biz_map \in [Biz -> SUBSET Resource] /\ biz_keys \subseteq Biz
  /\ machine_map \in [Machine -> SUBSET Resource]
  /\ holds \in [Machine -> [Biz -> SUBSET Resource]]
  /\ vanished \subseteq Machine /\ releases \in [Machine -> Nat]

WalkTyped ==
  \/ walk = NoWalk
  \/ walk = [at |-> "next", machine |-> walk.machine, list |-> walk.list, todo |-> walk.todo]
  \/ walk = [at |-> "remove", machine |-> walk.machine, list |-> walk.list, todo |-> walk.todo,
             resource |-> walk.resource, keys |-> walk.keys, bizs |-> walk.bizs]

\* The walk is about a machine that has vanished, and stays so until its end.
WalkOfVanished ==
  /\ walk.at # "idle" => walk.machine \in vanished
  /\ \A m \in vanished : releases[m] > 0

\* A spider with something lent has an entry, and a machine's list has all
\* that its process was lent.
ListsFollow ==
  /\ \A b \in Biz : biz_map[b] # {} => b \in biz_keys
  /\ \A m \in Machine, b \in Biz : holds[m][b] \subseteq machine_map[m]

\* Before the first release a spider's list has all that is held for it.
Listed == \A m \in Machine, b \in Biz : holds[m][b] \subseteq biz_map[b]
ListedUntilRelease == (\A m \in Machine : releases[m] = 0) => Listed

Held(b, r) == \E m \in Machine : r \in holds[m][b]

\* The release of m, where it stands, will take r from b's list.
WillFree(m, b, r) ==
  /\ r \in machine_map[m]
  /\ walk.at # "idle" /\ walk.machine = m =>
       r \in walk.todo \/ (walk.at = "remove" /\ walk.resource = r /\ b \in walk.bizs)

LentOrFreed ==
  \A b \in Biz : \A r \in biz_map[b] :
    Held(b, r) \/ \E m \in vanished : WillFree(m, b, r)

Inv ==
  /\ MapsTyped /\ WalkTyped /\ WalkOfVanished /\ ListsFollow
  /\ ListedUntilRelease /\ ExclusiveUntilRelease /\ LentOrFreed

-----------------------------------------------------------------------------
(* Each step keeps it.                                                     *)

LEMMA InitInv == Init => Inv
BY BoundAssumption DEF Init, Inv, MapsTyped, WalkTyped, WalkOfVanished, ListsFollow, ListedUntilRelease,
     Listed, ExclusiveUntilRelease, Shared, LentOrFreed, NoWalk

\* What is lent is free, so nobody has it for the spider as long as the
\* spider's list is complete.
LEMMA DistributeKeeps ==
  ASSUME Inv, NEW m \in Machine, NEW b \in Biz, Distribute(m, b)
  PROVE  Inv'
<1>1. PICK lent \in SUBSET Free(b), lost \in SUBSET Free(b) :
        /\ lost # {} => ListsRace /\ walk.at = "remove" /\ b \in walk.bizs
        /\ lost \subseteq lent
        /\ biz_map' = [biz_map EXCEPT ![b] = @ \cup (lent \ lost)]
        /\ biz_keys' = biz_keys \cup {b}
        /\ machine_map' = [machine_map EXCEPT ![m] = @ \cup lent]
        /\ holds' = [holds EXCEPT ![m][b] = @ \cup lent]
  BY DEF Distribute
<1>2. UNCHANGED <<rows, vanished, releases, walk>>
  BY DEF Distribute
<1>3. lent \subseteq Resource /\ lent \cap biz_map[b] = {}
  BY <1>1 DEF Free, Inv, MapsTyped
<1>4. MapsTyped'
  BY <1>1, <1>2, <1>3 DEF Inv, MapsTyped
<1>5. /\ \A c \in Biz : biz_map'[c] = IF c = b THEN biz_map[b] \cup (lent \ lost) ELSE biz_map[c]
      /\ \A k \in Machine : machine_map'[k] = IF k = m THEN machine_map[m] \cup lent ELSE machine_map[k]
      /\ \A k \in Machine, c \in Biz :
           holds'[k][c] = IF k = m /\ c = b THEN holds[m][b] \cup lent ELSE holds[k][c]
  BY <1>1 DEF Inv, MapsTyped
<1>6. WalkTyped' /\ WalkOfVanished'
  BY <1>2 DEF Inv, WalkTyped, WalkOfVanished
<1>7. ListsFollow'
  BY <1>1, <1>5 DEF Inv, ListsFollow
<1>8. ASSUME \A k \in Machine : releases'[k] = 0
      PROVE  Listed' /\ \A c \in Biz : Shared(c)' = {}
  <2>1. walk.at = "idle"
    BY <1>2, <1>8 DEF Inv, MapsTyped, WalkOfVanished
  <2>2. lost = {} /\ Listed /\ \A c \in Biz : Shared(c) = {}
    BY <1>1, <1>2, <1>8, <2>1 DEF Inv, ListedUntilRelease, ExclusiveUntilRelease
  <2>3. Listed'
    BY <1>5, <2>2 DEF Listed
  <2>4. ASSUME NEW c \in Biz, NEW r \in Resource, NEW k \in Machine, NEW n \in Machine,
               k # n, r \in holds'[k][c], r \in holds'[n][c]
        PROVE  FALSE
    <3>1. ~(r \in holds[k][c] /\ r \in holds[n][c])
      BY <2>2, <2>4 DEF Shared
    <3>2. c = b /\ r \in lent /\ (r \in holds[k][b] \/ r \in holds[n][b])
      BY <1>5, <2>4, <3>1
    <3>3. r \in biz_map[b]
      BY <2>2, <3>2 DEF Listed
    <3> QED
      BY <1>3, <3>2, <3>3
  <2>5. \A c \in Biz : Shared(c)' = {}
    BY <2>4 DEF Shared
  <2> QED
    BY <2>3, <2>5
<1>9. ListedUntilRelease' /\ ExclusiveUntilRelease'
  BY <1>8 DEF ListedUntilRelease, ExclusiveUntilRelease
<1>10. ASSUME NEW c \in Biz, NEW r \in biz_map'[c]
       PROVE  Held(c, r)' \/ \E k \in vanished' : WillFree(k, c, r)'
  <2>1. CASE r \in biz_map[c]
    <3>1. Held(c, r) => Held(c, r)'
      BY <1>5 DEF Held
    <3>2. ASSUME NEW k \in vanished, WillFree(k, c, r) PROVE WillFree(k, c, r)'
      BY <1>2, <1>5, <3>2 DEF Inv, MapsTyped, WillFree
    <3> QED
      BY <1>2, <2>1, <3>1, <3>2 DEF Inv, LentOrFreed
  <2>2. CASE r \notin biz_map[c]
    BY <1>5, <1>10, <2>2 DEF Held
  <2> QED
    BY <2>1, <2>2
<1>11. LentOrFreed'
  BY <1>10 DEF LentOrFreed
<1> QED
  BY <1>4, <1>6, <1>7, <1>9, <1>11 DEF Inv

\* A machine that vanishes is not being released, so that all it held waits for
\* its release.
LEMMA VanishKeeps ==
  ASSUME Inv, NEW m \in Machine, Die(m) \/ LoseSession(m)
  PROVE  Inv'
<1>1. /\ m \notin vanished /\ vanished' = vanished \cup {m}
      /\ releases' = [releases EXCEPT ![m] = @ + 1]
      /\ UNCHANGED <<rows, biz_map, biz_keys, machine_map, walk>>
  BY DEF Die, LoseSession, Vanish
<1>2. \A k \in Machine, b \in Biz : holds'[k][b] = holds[k][b] \/ (k = m /\ holds'[k][b] = {})
  BY DEF Die, LoseSession, Inv, MapsTyped
<1>3. MapsTyped'
  <2>1. holds' \in [Machine -> [Biz -> SUBSET Resource]]
    BY DEF Die, LoseSession, Inv, MapsTyped
  <2>2. vanished' \subseteq Machine
    BY <1>1 DEF Inv, MapsTyped
  <2>3. releases' \in [Machine -> Nat]
    <3>1. releases \in [Machine -> Nat]
      BY DEF Inv, MapsTyped
    <3> QED
      BY <1>1, <3>1
  <2> QED
    BY <1>1, <2>1, <2>2, <2>3 DEF Inv, MapsTyped
<1>4. \A k \in Machine : releases'[k] = IF k = m THEN releases[m] + 1 ELSE releases[k]
  BY <1>1 DEF Inv, MapsTyped
<1>5. WalkTyped'
  BY <1>1 DEF Inv, WalkTyped
<1>6. WalkOfVanished'
  BY <1>1, <1>4 DEF Inv, MapsTyped, WalkOfVanished
<1>7. ListsFollow'
  BY <1>1, <1>2 DEF Inv, ListsFollow
<1>8. ListedUntilRelease' /\ ExclusiveUntilRelease'
  BY <1>4 DEF Inv, MapsTyped, ListedUntilRelease, ExclusiveUntilRelease
<1>9. ASSUME NEW b \in Biz, NEW r \in biz_map'[b]
      PROVE  Held(b, r)' \/ \E k \in vanished' : WillFree(k, b, r)'
  <2>1. \A k \in vanished : WillFree(k, b, r) => WillFree(k, b, r)'
    BY <1>1 DEF WillFree
  <2>2. ASSUME NEW k \in Machine, r \in holds[k][b]
        PROVE  Held(b, r)' \/ WillFree(m, b, r)'
    <3>1. CASE r \in holds'[k][b]
      BY <3>1 DEF Held
    <3>2. CASE r \notin holds'[k][b]
      <4>1. k = m /\ r \in machine_map[m]
        BY <1>2, <2>2, <3>2 DEF Inv, ListsFollow
      <4>2. walk.at # "idle" => walk.machine # m
        BY <1>1 DEF Inv, WalkOfVanished
      <4> QED
        BY <1>1, <4>1, <4>2 DEF WillFree
    <3> QED
      BY <3>1, <3>2
  <2>3. r \in biz_map[b]
    BY <1>1
  <2> QED
    BY <1>1, <2>1, <2>2, <2>3 DEF Inv, LentOrFreed, Held
<1>10. LentOrFreed'
  BY <1>9 DEF LentOrFreed
<1> QED
  BY <1>3, <1>5, <1>6, <1>7, <1>8, <1>10 DEF Inv

LEMMA DeleteKeeps ==
  ASSUME Inv, NEW r \in Resource, DeleteRow(r)
  PROVE  Inv'
BY DEF DeleteRow, Inv, MapsTyped, WalkTyped, WalkOfVanished, ListsFollow, ListedUntilRelease, Listed,
     ExclusiveUntilRelease, Shared, LentOrFreed, Held, WillFree

\* What a step of the walk has to show: the rest of the state it leaves alone,
\* but for the resource that it takes from a spider's list.
LEMMA WalkKeeps ==
  ASSUME Inv, UNCHANGED <<rows, biz_keys, machine_map, holds, releases>>,
         biz_map' \in [Biz -> SUBSET Resource],
         \A b \in Biz : biz_map'[b] \subseteq biz_map[b],
         biz_map' = biz_map \/ walk.at # "idle",
         vanished' \subseteq vanished,
         WalkTyped', walk'.at # "idle" => walk'.machine \in vanished',
         \A b \in Biz : \A r \in biz_map'[b], m \in vanished :
           WillFree(m, b, r) => m \in vanished' /\ WillFree(m, b, r)'
  PROVE  Inv'
<1>1. MapsTyped'
  BY DEF Inv, MapsTyped
<1>2. WalkOfVanished'
  BY DEF Inv, WalkOfVanished
<1>3. ListsFollow'
  BY DEF Inv, ListsFollow
<1>4. ExclusiveUntilRelease'
  BY DEF Inv, ExclusiveUntilRelease, Shared
<1>5. ListedUntilRelease'
  <2>1. CASE biz_map' = biz_map
    BY <2>1 DEF Inv, ListedUntilRelease, Listed
  <2>2. CASE walk.at # "idle"
    BY <2>2 DEF Inv, MapsTyped, WalkOfVanished, ListedUntilRelease
  <2> QED
    BY <2>1, <2>2
<1>6. LentOrFreed'
  <2>1. \A b \in Biz, r \in Resource : Held(b, r)' <=> Held(b, r)
    BY DEF Held
  <2> QED
    BY <2>1 DEF Inv, MapsTyped, LentOrFreed
<1> QED
  BY <1>1, <1>2, <1>3, <1>4, <1>5, <1>6 DEF Inv

LEMMA StartKeeps ==
  ASSUME Inv, NEW m \in Machine, StartRelease(m)
  PROVE  Inv'
<1>1. /\ walk' = [at |-> "next", machine |-> m, list |-> machine_map[m], todo |-> machine_map[m]]
      /\ m \in vanished
      /\ UNCHANGED <<rows, biz_map, biz_keys, machine_map, holds, vanished, releases>>
  BY DEF StartRelease
<1>2. walk'.at = "next" /\ walk'.machine = m /\ walk'.list = machine_map[m] /\ walk'.todo = machine_map[m]
  BY <1>1
<1>3. WalkTyped'
  BY <1>1, <1>2 DEF WalkTyped
<1>4. \A b \in Biz : \A r \in biz_map'[b], k \in vanished :
        WillFree(k, b, r) => k \in vanished' /\ WillFree(k, b, r)'
  BY <1>1, <1>2 DEF WillFree
<1>5. biz_map' \in [Biz -> SUBSET Resource] /\ \A b \in Biz : biz_map'[b] \subseteq biz_map[b]
  BY <1>1 DEF Inv, MapsTyped
<1> QED
  BY <1>1, <1>2, <1>3, <1>4, <1>5, WalkKeeps

\* The resource that is taken up next has an entry in each list it is in.
LEMMA NextKeeps ==
  ASSUME Inv, NEW q \in Resource, NextResource(q)
  PROVE  Inv'
<1>1. /\ walk.at = "next"
      /\ walk' = [at |-> "remove", machine |-> walk.machine, list |-> walk.list,
                  todo |-> walk.todo \ {q}, resource |-> q, keys |-> biz_keys, bizs |-> biz_keys]
      /\ UNCHANGED <<rows, biz_map, biz_keys, machine_map, holds, vanished, releases>>
  BY DEF NextResource
<1>2. /\ walk'.at = "remove" /\ walk'.machine = walk.machine /\ walk'.list = walk.list
      /\ walk'.todo = walk.todo \ {q} /\ walk'.resource = q
      /\ walk'.keys = biz_keys /\ walk'.bizs = biz_keys
  BY <1>1
<1>3. WalkTyped'
  BY <1>1, <1>2 DEF WalkTyped
<1>4. \A b \in Biz : \A r \in biz_map'[b], k \in vanished :
        WillFree(k, b, r) => k \in vanished' /\ WillFree(k, b, r)'
  BY <1>1, <1>2 DEF WillFree, Inv, ListsFollow
<1>5. biz_map' \in [Biz -> SUBSET Resource] /\ \A b \in Biz : biz_map'[b] \subseteq biz_map[b]
  BY <1>1 DEF Inv, MapsTyped
<1>6. walk'.machine \in vanished'
  BY <1>1, <1>2 DEF Inv, WalkOfVanished
<1> QED
  BY <1>1, <1>2, <1>3, <1>4, <1>5, <1>6, WalkKeeps

LEMMA RemoveKeeps ==
  ASSUME Inv, NEW c \in Biz, RemoveFromBiz(c)
  PROVE  Inv'
<1>1. /\ walk.at = "remove"
      /\ biz_map' = [biz_map EXCEPT ![c] = @ \ {walk.resource}]
      /\ walk' = [walk EXCEPT !.bizs = @ \ {c}]
      /\ UNCHANGED <<rows, biz_keys, machine_map, holds, vanished, releases>>
  BY DEF RemoveFromBiz
<1>2. walk = [at |-> "remove", machine |-> walk.machine, list |-> walk.list, todo |-> walk.todo,
              resource |-> walk.resource, keys |-> walk.keys, bizs |-> walk.bizs]
  BY <1>1 DEF Inv, WalkTyped, NoWalk
<1>3. walk' = [at |-> "remove", machine |-> walk.machine, list |-> walk.list, todo |-> walk.todo,
               resource |-> walk.resource, keys |-> walk.keys, bizs |-> walk.bizs \ {c}]
  BY <1>1, <1>2
<1>4. /\ walk'.at = "remove" /\ walk'.machine = walk.machine /\ walk'.list = walk.list
      /\ walk'.todo = walk.todo /\ walk'.resource = walk.resource
      /\ walk'.keys = walk.keys /\ walk'.bizs = walk.bizs \ {c}
  BY <1>3
<1>5. WalkTyped'
  BY <1>3, <1>4 DEF WalkTyped
<1>6. /\ biz_map' \in [Biz -> SUBSET Resource] /\ \A b \in Biz : biz_map'[b] \subseteq biz_map[b]
      /\ \A b \in Biz \ {c} : biz_map'[b] = biz_map[b]
      /\ walk.resource \notin biz_map'[c]
  BY <1>1 DEF Inv, MapsTyped
<1>7. \A b \in Biz : \A r \in biz_map'[b], k \in vanished :
        WillFree(k, b, r) => k \in vanished' /\ WillFree(k, b, r)'
  BY <1>1, <1>4, <1>6 DEF WillFree
<1>8. walk'.machine \in vanished'
  BY <1>1, <1>4 DEF Inv, WalkOfVanished
<1> QED
  BY <1>1, <1>4, <1>5, <1>6, <1>7, <1>8, WalkKeeps

LEMMA EndResourceKeeps ==
  ASSUME Inv, EndResource
  PROVE  Inv'
<1>1. /\ walk.at = "remove" /\ walk.bizs = {}
      /\ walk' = [at |-> "next", machine |-> walk.machine, list |-> walk.list, todo |-> walk.todo]
      /\ UNCHANGED <<rows, biz_map, biz_keys, machine_map, holds, vanished, releases>>
  BY DEF EndResource
<1>2. /\ walk'.at = "next" /\ walk'.machine = walk.machine /\ walk'.list = walk.list
      /\ walk'.todo = walk.todo
  BY <1>1
<1>3. WalkTyped'
  BY <1>1, <1>2 DEF WalkTyped
<1>4. \A b \in Biz : \A r \in biz_map'[b], k \in vanished :
        WillFree(k, b, r) => k \in vanished' /\ WillFree(k, b, r)'
  BY <1>1, <1>2 DEF WillFree
<1>5. biz_map' \in [Biz -> SUBSET Resource] /\ \A b \in Biz : biz_map'[b] \subseteq biz_map[b]
  BY <1>1 DEF Inv, MapsTyped
<1>6. walk'.machine \in vanished'
  BY <1>1, <1>2 DEF Inv, WalkOfVanished
<1> QED
  BY <1>1, <1>2, <1>3, <1>4, <1>5, <1>6, WalkKeeps

LEMMA ReleaseFailsKeeps ==
  ASSUME Inv, ReleaseFails
  PROVE  Inv'
<1>1. walk' = NoWalk /\ UNCHANGED <<rows, biz_map, biz_keys, machine_map, holds, vanished, releases>>
  BY DEF ReleaseFails
<1>2. walk'.at = "idle"
  BY <1>1 DEF NoWalk
<1>3. WalkTyped'
  BY <1>1 DEF WalkTyped
<1>4. \A b \in Biz : \A r \in biz_map'[b], k \in vanished :
        WillFree(k, b, r) => k \in vanished' /\ WillFree(k, b, r)'
  BY <1>1, <1>2 DEF WillFree
<1>5. biz_map' \in [Biz -> SUBSET Resource] /\ \A b \in Biz : biz_map'[b] \subseteq biz_map[b]
  BY <1>1 DEF Inv, MapsTyped
<1> QED
  BY <1>1, <1>2, <1>3, <1>4, <1>5, WalkKeeps

\* Nothing waits for the walk that ends: it has been through the list.
LEMMA EndReleaseKeeps ==
  ASSUME Inv, EndRelease
  PROVE  Inv'
<1>1. /\ walk.at = "next" /\ walk.todo = {}
      /\ vanished' = vanished \ {walk.machine} /\ walk' = NoWalk
      /\ UNCHANGED <<rows, biz_map, biz_keys, machine_map, holds, releases>>
  BY DEF EndRelease
<1>2. walk'.at = "idle"
  BY <1>1 DEF NoWalk
<1>3. WalkTyped'
  BY <1>1 DEF WalkTyped
<1>4. \A b \in Biz : \A r \in biz_map'[b], k \in vanished :
        WillFree(k, b, r) => k \in vanished' /\ WillFree(k, b, r)'
  BY <1>1, <1>2 DEF WillFree
<1>5. biz_map' \in [Biz -> SUBSET Resource] /\ \A b \in Biz : biz_map'[b] \subseteq biz_map[b]
  BY <1>1 DEF Inv, MapsTyped
<1> QED
  BY <1>1, <1>2, <1>3, <1>4, <1>5, WalkKeeps

LEMMA InvStep == Inv /\ [Next]_vars => Inv'
<1> SUFFICES ASSUME Inv, [Next]_vars PROVE Inv'
  OBVIOUS
<1>1. CASE UNCHANGED vars
  BY <1>1 DEF vars, Inv, MapsTyped, WalkTyped, WalkOfVanished, ListsFollow, ListedUntilRelease, Listed,
       ExclusiveUntilRelease, Shared, LentOrFreed, Held, WillFree
<1>2. ASSUME NEW m \in Machine, Die(m) \/ LoseSession(m) PROVE Inv'
  BY <1>2, VanishKeeps
<1>3. ASSUME NEW m \in Machine, NEW b \in Biz, Distribute(m, b) PROVE Inv'
  BY <1>3, DistributeKeeps
<1>4. ASSUME NEW r \in Resource, DeleteRow(r) PROVE Inv'
  BY <1>4, DeleteKeeps
<1>5. CASE ReleaseStep
  BY <1>5, StartKeeps, NextKeeps, RemoveKeeps, EndResourceKeeps, ReleaseFailsKeeps, EndReleaseKeeps
     DEF ReleaseStep
<1> QED
  BY <1>1, <1>2, <1>3, <1>4, <1>5 DEF Next

LEMMA InvHolds == Spec => []Inv
BY InitInv, InvStep, PTL DEF Spec

-----------------------------------------------------------------------------
(* Theorems.                                                               *)

\* Type correctness of the maps, for any machines, spiders and resources.
THEOREM LendingTypeCorrect == Spec => []TypeOK
<1>1. Inv => TypeOK
  BY DEF Inv, MapsTyped, WalkTyped, NoWalk, TypeOK
<1> QED
  BY <1>1, InvHolds, PTL

\* Until a machine vanishes no resource is lent to two machines for one spider
\* (MasterNode.java:532), however many ask.
THEOREM LendingIsExclusive == Spec => []ExclusiveUntilRelease
<1>1. Inv => ExclusiveUntilRelease
  BY DEF Inv
<1> QED
  BY <1>1, InvHolds, PTL

\* Once the vanished machines are released, what a spider's list has is held by
\* a process (MasterNode.java:555-562, 619-627), whatever the walk over the
\* lists met.
THEOREM NothingIsLost == Spec => []NothingLeaks
<1>1. Inv => NothingLeaks
  BY DEF Inv, LentOrFreed, Held, NothingLeaks
<1> QED
  BY <1>1, InvHolds, PTL
=============================================================================
