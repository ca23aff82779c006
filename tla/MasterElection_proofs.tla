----------------------- MODULE MasterElection_proofs ------------------------
(***************************************************************************)
(* Theorems about the election, for any number of nodes, any levels they   *)
(* are started with and any number of starts, expired sessions and failed  *)
(* takeovers.                                                              *)
(***************************************************************************)
EXTENDS MasterElection, TLAPS

Event == {"deleted", "changed", "expired"}
Occurs(e, s) == \E i \in 1 .. Len(s) : s[i] = e
Pending(n, e) == Occurs(e, events[n])

-----------------------------------------------------------------------------
(* What the steps do to the events: two sequences, and the forms in which  *)
(* the actions change events.                                              *)

LEMMA Joined ==
  ASSUME NEW s \in Seq(Event), NEW a \in Seq(Event), NEW t, t = s \o a
  PROVE  /\ t \in Seq(Event)
         /\ t # <<>> <=> s # <<>> \/ a # <<>>
         /\ \A e \in Event : Occurs(e, t) => Occurs(e, s) \/ Occurs(e, a)
<1>1. /\ t \in Seq(Event) /\ Len(t) = Len(s) + Len(a)
      /\ Len(s) \in Nat /\ Len(a) \in Nat
  OBVIOUS
<1>2. \A i \in 1 .. Len(t) : t[i] = IF i <= Len(s) THEN s[i] ELSE a[i - Len(s)]
  OBVIOUS
<1>3. t # <<>> <=> s # <<>> \/ a # <<>>
  <2>1. \A x \in Seq(Event) : x # <<>> <=> Len(x) > 0
    OBVIOUS
  <2> QED
    BY <1>1, <2>1
<1>4. ASSUME NEW i \in 1 .. Len(t)
      PROVE  \/ \E j \in 1 .. Len(s) : s[j] = t[i]
             \/ \E j \in 1 .. Len(a) : a[j] = t[i]
  <2>1. CASE i <= Len(s)
    BY <1>1, <1>2, <2>1
  <2>2. CASE i > Len(s)
    <3>1. i - Len(s) \in 1 .. Len(a) /\ a[i - Len(s)] = t[i]
      BY <1>1, <1>2, <2>2
    <3> QED
      BY <3>1
  <2> QED
    BY <1>1, <2>1, <2>2
<1>5. \A e \in Event : Occurs(e, t) => Occurs(e, s) \/ Occurs(e, a)
  BY <1>4, Zenon DEF Occurs
<1> QED
  BY <1>1, <1>3, <1>5

\* At most one event of the given kind.
LEMMA OneOrNone ==
  ASSUME NEW C \in BOOLEAN, NEW e \in Event
  PROVE  /\ (IF C THEN <<e>> ELSE <<>>) \in Seq(Event)
         /\ C <=> (IF C THEN <<e>> ELSE <<>>) # <<>>
         /\ \A f \in Event : Occurs(f, IF C THEN <<e>> ELSE <<>>) => f = e /\ C
BY DEF Occurs

LEMMA TailHolds ==
  ASSUME NEW s \in Seq(Event), s # <<>>
  PROVE  Tail(s) \in Seq(Event) /\ \A e \in Event : Occurs(e, Tail(s)) => Occurs(e, s)
<1>1. Tail(s) \in Seq(Event) /\ Len(s) \in Nat /\ Len(Tail(s)) = Len(s) - 1
  OBVIOUS
<1>2. \A j \in 1 .. Len(Tail(s)) : Tail(s)[j] = s[j + 1]
  OBVIOUS
<1>3. \A j \in 1 .. Len(Tail(s)) : j + 1 \in 1 .. Len(s)
  BY <1>1
<1> QED
  BY <1>1, <1>2, <1>3 DEF Occurs

\* The head of a queue occurs in it.
LEMMA HeadOccurs ==
  ASSUME NEW s \in Seq(Event), s # <<>>
  PROVE  Head(s) \in Event /\ Occurs(Head(s), s)
<1>1. 1 \in 1 .. Len(s) /\ Head(s) = s[1] /\ s[1] \in Event
  OBVIOUS
<1> QED
  BY <1>1 DEF Occurs

EventsFormed == events \in [Node -> Seq(Event)]

\* Every watching process and the one with an event of its own gets one, and
\* no other kinds come in.
LEMMA FireEffect ==
  ASSUME EventsFormed, NEW kind \in Event, NEW e \in Event,
         NEW own, DOMAIN own \subseteq Node, \A x \in DOMAIN own : own[x] = e,
         Fire(kind, own)
  PROVE  /\ EventsFormed' /\ watch' = {}
         /\ \A n \in Node : events'[n] # <<>> <=> events[n] # <<>> \/ n \in watch \/ n \in DOMAIN own
         /\ \A n \in Node : \A f \in Event :
               Pending(n, f)' => Pending(n, f) \/ f = kind \/ (f = e /\ n \in DOMAIN own)
<1> DEFINE S == DOMAIN own
           a(n) == IF n \in watch /\ n \notin S THEN <<kind>> ELSE <<>>
           b(n) == IF n \in S THEN <<e>> ELSE <<>>
<1>1. \A n \in Node : b(n) = IF n \in S THEN <<own[n]>> ELSE <<>>
  OBVIOUS
<1>2. events' = [n \in Node |-> events[n] \o a(n) \o b(n)] /\ watch' = {}
  BY <1>1 DEF Fire
<1>4. ASSUME NEW n \in Node
      PROVE  /\ events'[n] \in Seq(Event)
             /\ events'[n] # <<>> <=> events[n] # <<>> \/ n \in watch \/ n \in S
             /\ \A f \in Event : Pending(n, f)' => Pending(n, f) \/ f = kind \/ (f = e /\ n \in S)
  <2>1. events'[n] = events[n] \o a(n) \o b(n)
    BY <1>2
  <2>2. /\ a(n) \in Seq(Event) /\ (n \in watch /\ n \notin S <=> a(n) # <<>>)
        /\ \A f \in Event : Occurs(f, a(n)) => f = kind
    <3>1. (n \in watch /\ n \notin S) \in BOOLEAN
      OBVIOUS
    <3> QED
      BY <3>1, OneOrNone
  <2>3. /\ b(n) \in Seq(Event) /\ (n \in S <=> b(n) # <<>>)
        /\ \A f \in Event : Occurs(f, b(n)) => f = e /\ n \in S
    <3>1. (n \in S) \in BOOLEAN
      OBVIOUS
    <3> QED
      BY <3>1, OneOrNone
  <2> HIDE DEF a, b, S
  <2>4. events[n] \in Seq(Event)
    BY DEF EventsFormed
  <2>5. /\ events[n] \o a(n) \in Seq(Event)
        /\ events[n] \o a(n) # <<>> <=> events[n] # <<>> \/ a(n) # <<>>
        /\ \A f \in Event : Occurs(f, events[n] \o a(n)) => Occurs(f, events[n]) \/ Occurs(f, a(n))
    BY <2>2, <2>4, Joined, Zenon
  <2>6. /\ events'[n] \in Seq(Event)
        /\ events[n] \o a(n) # <<>> \/ b(n) # <<>> <=> events'[n] # <<>>
        /\ \A f \in Event : Occurs(f, events'[n]) => Occurs(f, events[n] \o a(n)) \/ Occurs(f, b(n))
    <3> DEFINE c == events[n] \o a(n)
    <3>1. c \in Seq(Event) /\ b(n) \in Seq(Event) /\ events'[n] = c \o b(n)
      BY <2>1, <2>3, <2>5
    <3> HIDE DEF c
    <3>2. /\ events'[n] \in Seq(Event)
          /\ events'[n] # <<>> <=> c # <<>> \/ b(n) # <<>>
          /\ \A f \in Event : Occurs(f, events'[n]) => Occurs(f, c) \/ Occurs(f, b(n))
      BY <3>1, Joined, Zenon
    <3> QED
      BY <3>2, Zenon DEF c
  <2> QED
    BY <2>2, <2>3, <2>5, <2>6, Zenon DEF Pending
<1>5. EventsFormed'
  BY <1>2, <1>4 DEF EventsFormed
<1> QED
  BY <1>2, <1>4, <1>5, Zenon

\* One process handles its first event, and others may get one each.
HandledAndTold(n, W, kind) ==
  [k \in Node |-> Handled(n)[k] \o (IF k \in W THEN <<kind>> ELSE <<>>)]

LEMMA HandledEffect ==
  ASSUME EventsFormed, NEW n \in Node, events[n] # <<>>, NEW W \in SUBSET Node, NEW kind \in Event,
         events' = HandledAndTold(n, W, kind)
  PROVE  /\ EventsFormed'
         /\ \A k \in Node : k # n => (events'[k] # <<>> <=> events[k] # <<>> \/ k \in W)
         /\ \A k \in W : events'[k] # <<>>
         /\ \A k \in Node : \A f \in Event : Pending(k, f)' => Pending(k, f) \/ (f = kind /\ k \in W)
<1> DEFINE a(k) == IF k \in W THEN <<kind>> ELSE <<>>
           h(k) == IF k = n THEN Tail(events[n]) ELSE events[k]
<1>2. \A k \in Node : Handled(n)[k] = h(k)
  BY DEF EventsFormed, Handled
<1>3. events' = [k \in Node |-> h(k) \o a(k)]
  BY <1>2 DEF HandledAndTold
<1>4. ASSUME NEW k \in Node
      PROVE  /\ events'[k] \in Seq(Event)
             /\ k # n => (events'[k] # <<>> <=> events[k] # <<>> \/ k \in W)
             /\ k \in W => events'[k] # <<>>
             /\ \A f \in Event : Pending(k, f)' => Pending(k, f) \/ (f = kind /\ k \in W)
  <2>1. events'[k] = h(k) \o a(k)
    BY <1>3
  <2>2. /\ a(k) \in Seq(Event) /\ (k \in W <=> a(k) # <<>>)
        /\ \A f \in Event : Occurs(f, a(k)) => f = kind /\ k \in W
    <3>1. (k \in W) \in BOOLEAN
      OBVIOUS
    <3> QED
      BY <3>1, OneOrNone
  <2>3. h(k) \in Seq(Event) /\ \A f \in Event : Occurs(f, h(k)) => Occurs(f, events[k])
    <3>1. events[k] \in Seq(Event)
      BY DEF EventsFormed
    <3> QED
      BY <3>1, TailHolds, Zenon
  <2>4. k # n => h(k) = events[k]
    OBVIOUS
  <2> HIDE DEF a, h
  <2>5. /\ events'[k] \in Seq(Event)
        /\ events'[k] # <<>> <=> h(k) # <<>> \/ a(k) # <<>>
        /\ \A f \in Event : Occurs(f, events'[k]) => Occurs(f, h(k)) \/ Occurs(f, a(k))
    BY <2>1, <2>2, <2>3, Joined, Zenon
  <2> QED
    BY <2>2, <2>3, <2>4, <2>5, Zenon DEF Pending
<1>5. EventsFormed'
  BY <1>3, <1>4 DEF EventsFormed
<1> QED
  BY <1>4, <1>5

LEMMA HandledAlone ==
  ASSUME EventsFormed, NEW n \in Node, events[n] # <<>>, events' = Handled(n)
  PROVE  /\ EventsFormed'
         /\ \A k \in Node : k # n => events'[k] = events[k]
         /\ \A k \in Node : \A f \in Event : Pending(k, f)' => Pending(k, f)
<1>1. events[n] \in Seq(Event)
  BY DEF EventsFormed
<1>2. Tail(events[n]) \in Seq(Event) /\ \A f \in Event : Occurs(f, Tail(events[n])) => Occurs(f, events[n])
  BY <1>1, TailHolds, Zenon
<1>3. events'[n] = Tail(events[n]) /\ \A k \in Node : k # n => events'[k] = events[k]
  BY DEF Handled, EventsFormed
<1>4. EventsFormed'
  BY <1>2 DEF Handled, EventsFormed
<1>5. ASSUME NEW k \in Node, NEW f \in Event, Pending(k, f)'
      PROVE  Pending(k, f)
  <2>1. CASE k = n
    BY <1>2, <1>3, <1>5, <2>1, Zenon DEF Pending
  <2>2. CASE k # n
    BY <1>3, <1>5, <2>2, Zenon DEF Pending
  <2> QED
    BY <2>1, <2>2
<1> QED
  BY <1>3, <1>4, <1>5

LEMMA AppendedEvent ==
  ASSUME EventsFormed, NEW n \in Node, NEW e \in Event, events' = [events EXCEPT ![n] = Append(@, e)]
  PROVE  /\ EventsFormed' /\ events'[n] # <<>>
         /\ \A k \in Node : k # n => events'[k] = events[k]
         /\ \A k \in Node : \A f \in Event : Pending(k, f)' => Pending(k, f) \/ (k = n /\ f = e)
<1>1. events[n] \in Seq(Event) /\ <<e>> \in Seq(Event) /\ <<e>> # <<>>
  BY DEF EventsFormed
<1>2. \A f \in Event : Occurs(f, <<e>>) => f = e
  BY DEF Occurs
<1>3. events'[n] = Append(events[n], e) /\ \A k \in Node : k # n => events'[k] = events[k]
  BY DEF EventsFormed
<1>4. Append(events[n], e) = events[n] \o <<e>>
  BY <1>1
<1>5. /\ events'[n] \in Seq(Event) /\ events'[n] # <<>>
      /\ \A f \in Event : Occurs(f, events'[n]) => Occurs(f, events[n]) \/ Occurs(f, <<e>>)
  BY <1>1, <1>3, <1>4, Joined, Zenon
<1>6. EventsFormed'
  BY <1>3, <1>5 DEF EventsFormed
<1>7. ASSUME NEW k \in Node, NEW f \in Event, Pending(k, f)'
      PROVE  Pending(k, f) \/ (k = n /\ f = e)
  <2>1. CASE k = n
    BY <1>2, <1>5, <1>7, <2>1, Zenon DEF Pending
  <2>2. CASE k # n
    BY <1>3, <1>7, <2>2, Zenon DEF Pending
  <2> QED
    BY <2>1, <2>2
<1> QED
  BY <1>3, <1>5, <1>6, <1>7

-----------------------------------------------------------------------------
(* The inductive invariant.                                                *)

\* Type correctness, in three parts.
ZnodeTyped ==
  /\ znode = [owner |-> znode.owner, data |-> znode.data]
  /\ znode.owner \in Node \cup {NoNode} /\ znode.data \in Node \cup {NoNode}
  /\ ghost \in BOOLEAN /\ (znode.owner = NoNode <=> znode = NoZnode)

Typed ==
  /\ session \subseteq up /\ up \subseteq Node /\ level \in [Node -> Level]
  /\ slaves \subseteq up /\ watch \subseteq up /\ serves \subseteq up
  /\ thread \in [Node -> Thread]
  /\ following \in [Node -> Node \cup {NoNode}]
  /\ boots \in Nat /\ expiries \in Nat /\ failures \in Nat /\ deletions \in Nat
  /\ partitioned \subseteq Node

\* A process that runs a handler or has an event is up, one that boots is new,
\* a znode without a ghost belongs to a session, and who has no session has
\* lost one.
Alive ==
  /\ \A n \in Node : thread[n] # "free" \/ events[n] # <<>> => n \in up
  /\ partitioned \subseteq up /\ up \ session \subseteq partitioned
  /\ Exists /\ ~ghost => znode.owner \in session

Fresh ==
  \A n \in Node : thread[n] \in {"creating", "joining"} =>
    /\ n \notin slaves /\ n \notin watch /\ n \notin serves /\ n \notin partitioned
    /\ events[n] = <<>> /\ (znode.owner = n => ghost)

OnlyMasters ==
  \A n \in Node :
    /\ thread[n] \in {"creating", "rebuilding"} => level[n] = "master"
    /\ thread[n] = "joining" => level[n] # "master"

Shape == ZnodeTyped /\ Typed /\ EventsFormed /\ Alive /\ Fresh /\ OnlyMasters

WinnerOwnsZnode == \A n \in Node \ partitioned : thread[n] = "won" => znode.owner = n /\ ~ghost

\* What is pending, or in progress, tells of the znode and of what has happened.
ExpiredTells == \A n \in Node : Pending(n, "expired") => n \in partitioned

DeletedTells ==
  \A n \in Node :
    \/ thread[n] \in {"sleeping", "won", "lost"}
    \/ Pending(n, "deleted") \/ Pending(n, "changed")
    => deletions >= 1

ChangedTells ==
  deletions <= 1 =>
    \A n \in Node : thread[n] = "lost" \/ Pending(n, "changed") => Exists

\* Before the first failover a master owns the znode and has its session.
FirstMaster ==
  deletions = 0 =>
    \A n \in Node : Booted(n) /\ level[n] = "master" =>
      znode.owner = n /\ ~ghost /\ n \notin partitioned

\* Until the second, an idle follower with nothing to handle has a watch.
Idle(n) ==
  /\ Booted(n) /\ level[n] = "follower" /\ n \notin serves /\ thread[n] = "free"
  /\ znode.owner # n \/ ghost

IdleHears ==
  deletions <= 1 =>
    \A n \in Node \ partitioned : Idle(n) => n \in watch \/ events[n] # <<>>

Heard == ExpiredTells /\ DeletedTells /\ ChangedTells /\ FirstMaster /\ IdleHears

-----------------------------------------------------------------------------
(* Each step keeps the shape of the state.                                 *)

LEMMA ShapeIsTyped == Shape => TypeOK
<1> SUFFICES ASSUME Shape PROVE TypeOK
  OBVIOUS
<1>1. znode \in [owner : Node \cup {NoNode}, data : Node \cup {NoNode}]
  BY DEF Shape, ZnodeTyped
<1> QED
  BY <1>1, Zenon DEF Shape, TypeOK, ZnodeTyped, Typed, EventsFormed, Event

LEMMA ShapeInit == Init => Shape
<1> SUFFICES ASSUME Init PROVE Shape
  OBVIOUS
<1>1. EventsFormed
  <2>1. <<>> \in Seq(Event)
    OBVIOUS
  <2> QED
    BY <2>1 DEF Init, EventsFormed
<1>2. ZnodeTyped /\ Typed
  BY NodeAssumption DEF Init, ZnodeTyped, Typed, NoZnode, Level, Thread
<1>3. Alive /\ Fresh /\ OnlyMasters
  BY DEF Init, Alive, Fresh, OnlyMasters, Exists, NoZnode
<1> QED
  BY <1>1, <1>2, <1>3 DEF Shape

LEMMA ZnodeUnchanged ==
  ASSUME ZnodeTyped, UNCHANGED znodeVars
  PROVE  ZnodeTyped'
BY Zenon DEF ZnodeTyped, znodeVars, NoZnode

LEMMA Created ==
  ASSUME NEW n \in Node, Create(n)
  PROVE  ZnodeTyped' /\ znode'.owner = n /\ ~ghost' /\ Exists'
<1>1. znode' = [owner |-> n, data |-> n]
  BY DEF Create
<1>2. znode'.owner = n /\ znode'.data = n
  BY <1>1
<1>3. znode' # NoZnode /\ n # NoNode
  BY <1>2, NodeAssumption DEF NoZnode
<1> QED
  BY <1>1, <1>2, <1>3 DEF Create, ZnodeTyped, Exists, NoZnode

LEMMA BootShape ==
  ASSUME Shape, NEW n \in Node, Boot(n)
  PROVE  Shape'
<1>0. StartLevel[n] \subseteq Level
  BY NodeAssumption
<1>1. ZnodeTyped'
  BY ZnodeUnchanged, Created DEF Boot, Exit, Shape
<1> USE NodeAssumption, BoundAssumption DEF Boot, Goto, Exists, NoZnode, znodeVars, processVars,
        boundVars, Shape, Level, Thread, ZnodeTyped
<1>2. Typed'
  BY <1>0 DEF Typed, Alive, Fresh
<1>3. EventsFormed'
  BY DEF EventsFormed
<1>4. Alive'
  BY DEF Typed, Alive, Fresh
<1>5. Fresh'
  BY DEF Typed, Alive, Fresh
<1>6. OnlyMasters'
  BY <1>0 DEF Typed, OnlyMasters
<1> QED
  BY <1>1, <1>2, <1>3, <1>4, <1>5, <1>6

LEMMA BootMasterShape ==
  ASSUME Shape, NEW n \in Node, BootMaster(n)
  PROVE  Shape'
<1>1. ZnodeTyped'
  BY ZnodeUnchanged, Created DEF BootMaster, Exit, Shape, znodeVars
<1> USE NodeAssumption, BoundAssumption DEF BootMaster, Create, Exit, Goto, Exists, NoZnode,
        znodeVars, processVars, boundVars, Shape, Level, Thread, ZnodeTyped
<1>2. Typed'
  BY DEF Typed, Alive, Fresh
<1>3. EventsFormed'
  BY DEF EventsFormed
<1>4. Alive'
  BY DEF Typed, Alive, Fresh
<1>5. Fresh'
  BY DEF Typed, Alive, Fresh
<1>6. OnlyMasters'
  BY DEF Typed, OnlyMasters
<1> QED
  BY <1>1, <1>2, <1>3, <1>4, <1>5, <1>6

LEMMA BootSlaveShape ==
  ASSUME Shape, NEW n \in Node, BootSlave(n)
  PROVE  Shape'
<1>1. ZnodeTyped'
  BY ZnodeUnchanged, Created DEF BootSlave, Exit, Shape
<1> USE NodeAssumption, BoundAssumption DEF BootSlave, ReadMaster, Exit, Goto, Exists, NoZnode,
        znodeVars, processVars, boundVars, Shape, Level, Thread, ZnodeTyped
<1>2. Typed'
  BY DEF Typed, Alive, Fresh
<1>3. EventsFormed'
  BY DEF EventsFormed
<1>4. Alive'
  BY DEF Typed, Alive, Fresh
<1>5. Fresh'
  BY DEF Typed, Alive, Fresh
<1>6. OnlyMasters'
  BY DEF Typed, OnlyMasters
<1> QED
  BY <1>1, <1>2, <1>3, <1>4, <1>5, <1>6

LEMMA RebuildShape ==
  ASSUME Shape, NEW n \in Node, Rebuild(n)
  PROVE  Shape'
<1>1. ZnodeTyped'
  BY ZnodeUnchanged, Created DEF Rebuild, Exit, Shape, znodeVars
<1> USE NodeAssumption, BoundAssumption DEF Rebuild, Create, Goto, Exists, NoZnode, znodeVars,
        processVars, boundVars, Shape, Level, Thread, ZnodeTyped
<1>2. Typed'
  BY DEF Typed, Alive, Fresh
<1>3. EventsFormed'
  BY DEF EventsFormed
<1>4. Alive'
  BY DEF Typed, Alive, Fresh
<1>5. Fresh'
  BY DEF Typed, Alive, Fresh
<1>6. OnlyMasters'
  BY DEF Typed, OnlyMasters
<1> QED
  BY <1>1, <1>2, <1>3, <1>4, <1>5, <1>6

LEMMA ContestShape ==
  ASSUME Shape, NEW n \in Node, Contest(n)
  PROVE  Shape'
<1>1. ZnodeTyped'
  BY ZnodeUnchanged, Created DEF Contest, Exit, Shape, znodeVars
<1> USE NodeAssumption, BoundAssumption DEF Contest, Create, Goto, Exists, NoZnode, znodeVars,
        processVars, boundVars, Shape, Level, Thread, ZnodeTyped
<1>2. Typed'
  BY DEF Typed, Alive, Fresh
<1>3. EventsFormed'
  BY DEF EventsFormed
<1>4. Alive'
  BY DEF Typed, Alive, Fresh
<1>5. Fresh'
  BY DEF Typed, Alive, Fresh
<1>6. OnlyMasters'
  BY DEF Typed, OnlyMasters
<1> QED
  BY <1>1, <1>2, <1>3, <1>4, <1>5, <1>6

LEMMA TakeOverShape ==
  ASSUME Shape, NEW n \in Node, TakeOver(n)
  PROVE  Shape'
<1>1. ZnodeTyped'
  BY ZnodeUnchanged, Created DEF TakeOver, Exit, Shape
<1> USE NodeAssumption, BoundAssumption DEF TakeOver, Goto, Exists, NoZnode, znodeVars, processVars,
        boundVars, Shape, Level, Thread, ZnodeTyped
<1>2. Typed'
  BY DEF Typed, Alive, Fresh
<1>3. EventsFormed'
  BY DEF EventsFormed
<1>4. Alive'
  BY DEF Typed, Alive, Fresh
<1>5. Fresh'
  BY DEF Typed, Alive, Fresh
<1>6. OnlyMasters'
  BY DEF Typed, OnlyMasters
<1> QED
  BY <1>1, <1>2, <1>3, <1>4, <1>5, <1>6

LEMMA LoserReadsShape ==
  ASSUME Shape, NEW n \in Node, LoserReads(n)
  PROVE  Shape'
<1>1. ZnodeTyped'
  BY ZnodeUnchanged, Created DEF LoserReads, Exit, Shape
<1> USE NodeAssumption, BoundAssumption DEF LoserReads, Reload, ReadMaster, Goto, Exists, NoZnode,
        znodeVars, processVars, boundVars, Shape, Level, Thread, ZnodeTyped
<1>2. Typed'
  BY DEF Typed, Alive, Fresh
<1>3. EventsFormed'
  BY DEF EventsFormed
<1>4. Alive'
  BY DEF Typed, Alive, Fresh
<1>5. Fresh'
  BY DEF Typed, Alive, Fresh
<1>6. OnlyMasters'
  BY DEF Typed, OnlyMasters
<1> QED
  BY <1>1, <1>2, <1>3, <1>4, <1>5, <1>6

LEMMA ReconnectFollowerShape ==
  ASSUME Shape, NEW n \in Node, ReconnectFollower(n)
  PROVE  Shape'
<1>0. /\ EventsFormed' /\ \A k \in Node : k # n => events'[k] = events[k]
      /\ n \in up /\ thread[n] = "free"
  BY HandledAlone DEF ReconnectFollower, Handles, Shape, Alive
<1>1. ZnodeTyped'
  BY ZnodeUnchanged DEF ReconnectFollower, Shape
<1> USE <1>0, NodeAssumption DEF Handles, ReconnectFollower, ReadMaster, Goto, Exists, NoZnode,
        znodeVars, processVars, boundVars, Shape, Level, Thread, ZnodeTyped
<1>2. Typed'
  BY DEF Typed, Alive, Fresh
<1>3. Alive'
  BY DEF Typed, Alive, Fresh
<1>4. Fresh'
  BY DEF Typed, Alive, Fresh
<1>5. OnlyMasters'
  BY DEF Typed, OnlyMasters
<1> QED
  BY <1>1, <1>2, <1>3, <1>4, <1>5

LEMMA ReconnectMasterEffect ==
  ASSUME Shape, NEW n \in Node, ReconnectMaster(n)
  PROVE  /\ EventsFormed' /\ ZnodeTyped' /\ znode'.owner = znode.owner
         /\ \A k \in Node : k # n => (events'[k] # <<>> <=> events[k] # <<>> \/ k \in watch \ watch')
         /\ \A k \in Node : \A f \in Event :
               Pending(k, f)' => Pending(k, f) \/ (f = "changed" /\ Exists)
<1>0. events[n] # <<>> /\ watch \in SUBSET Node /\ "changed" \in Event
      /\ EventsFormed /\ ZnodeTyped
  BY DEF ReconnectMaster, Handles, Event, Shape, Typed
<1>1. CASE Exists
  <2>1. events' = HandledAndTold(n, watch, "changed") /\ watch' = {}
    BY <1>1 DEF ReconnectMaster, HandledAndTold
  <2>2. /\ EventsFormed'
        /\ \A k \in Node : k # n => (events'[k] # <<>> <=> events[k] # <<>> \/ k \in watch)
        /\ \A k \in Node : \A f \in Event : Pending(k, f)' => Pending(k, f) \/ (f = "changed" /\ k \in watch)
    BY <1>0, <2>1, HandledEffect
  <2>3. ZnodeTyped' /\ znode'.owner = znode.owner
    <3>1. /\ znode' = [znode EXCEPT !.data = n] /\ UNCHANGED ghost /\ znode.owner # NoNode
          /\ znode = [owner |-> znode.owner, data |-> znode.data]
      BY <1>0, <1>1 DEF ReconnectMaster, ZnodeTyped, Exists
    <3>2. znode' = [owner |-> znode.owner, data |-> n]
      BY <3>1
    <3>3. znode'.owner = znode.owner /\ znode'.data = n
      BY <3>2
    <3>4. znode' # NoZnode
      BY <3>1, <3>3 DEF NoZnode
    <3> QED
      BY <1>0, <3>1, <3>2, <3>3, <3>4 DEF ZnodeTyped
  <2> QED
    BY <1>1, <2>1, <2>2, <2>3
<1>2. CASE ~Exists
  <2>1. events' = Handled(n) /\ UNCHANGED <<znodeVars, watch>>
    BY <1>2 DEF ReconnectMaster, znodeVars
  <2>2. /\ EventsFormed' /\ \A k \in Node : k # n => events'[k] = events[k]
        /\ \A k \in Node : \A f \in Event : Pending(k, f)' => Pending(k, f)
    BY <1>0, <2>1, HandledAlone
  <2>3. ZnodeTyped' /\ znode'.owner = znode.owner
    BY <1>0, <2>1, ZnodeUnchanged DEF znodeVars
  <2> QED
    BY <1>2, <2>1, <2>2, <2>3
<1> QED
  BY <1>1, <1>2

LEMMA TimeOutEffect ==
  ASSUME Shape, TimeOut
  PROVE  /\ EventsFormed' /\ watch' = {}
         /\ \A k \in Node : events'[k] # <<>> <=> events[k] # <<>> \/ k \in watch
         /\ \A k \in Node : \A f \in Event : Pending(k, f)' => Pending(k, f) \/ f = "deleted"
<1>1. DOMAIN NoOwn = {} /\ "deleted" \in Event /\ Fire("deleted", NoOwn) /\ EventsFormed
  BY DEF NoOwn, Event, TimeOut, Shape
<1> QED
  BY <1>1, FireEffect

LEMMA ExpireEffect ==
  ASSUME Shape, NEW n \in Node, Expire(n)
  PROVE  /\ EventsFormed' /\ watch' \subseteq watch \ {n}
         /\ watch' # {} => UNCHANGED znode
         /\ \A k \in Node : k # n => (events'[k] # <<>> <=> events[k] # <<>> \/ k \in watch \ watch')
         /\ \A k \in Node : \A f \in Event :
               Pending(k, f)' => \/ Pending(k, f)
                                 \/ f = "expired" /\ k = n
                                 \/ f = "deleted" /\ deletions' = deletions + 1
<1>0. "deleted" \in Event /\ "expired" \in Event /\ EventsFormed
  BY DEF Event, Shape
<1>1. CASE znode.owner = n /\ ~ghost
  <2> DEFINE own == [x \in {n} |-> "expired"]
  <2>1. DOMAIN own = {n} /\ own[n] = "expired"
    OBVIOUS
  <2>2. Fire("deleted", own) /\ deletions' = deletions + 1
    BY <1>1 DEF Expire
  <2> HIDE DEF own
  <2>3. /\ EventsFormed' /\ watch' = {}
        /\ \A k \in Node : events'[k] # <<>> <=> events[k] # <<>> \/ k \in watch \/ k \in DOMAIN own
        /\ \A k \in Node : \A f \in Event :
              Pending(k, f)' => Pending(k, f) \/ f = "deleted" \/ (f = "expired" /\ k \in DOMAIN own)
    BY <1>0, <2>1, <2>2, FireEffect
  <2>4. \A k \in Node : k \in DOMAIN own <=> k = n
    BY <2>1
  <2>5. /\ watch' \subseteq watch \ {n} /\ (watch' # {} => UNCHANGED znode)
        /\ \A k \in Node : k \in watch => k \in watch \ watch'
    BY <2>3 DEF Expire, Booted
  <2>6. \A k \in Node : k # n => (events'[k] # <<>> <=> events[k] # <<>> \/ k \in watch \ watch')
    BY <2>3, <2>4, <2>5
  <2>7. \A k \in Node : \A f \in Event :
              Pending(k, f)' => \/ Pending(k, f)
                                \/ f = "expired" /\ k = n
                                \/ f = "deleted" /\ deletions' = deletions + 1
    <3>1. ASSUME NEW k \in Node, NEW f \in Event, Pending(k, f)'
          PROVE  Pending(k, f) \/ (f = "expired" /\ k = n) \/ f = "deleted"
      BY <2>3, <2>4, <3>1
    <3> QED
      BY <2>2, <3>1, Zenon
  <2> QED
    BY <2>3, <2>5, <2>6, <2>7, Zenon
<1>2. CASE ~(znode.owner = n /\ ~ghost)
  <2>1. /\ events' = [events EXCEPT ![n] = Append(@, "expired")] /\ watch' = watch \ {n}
        /\ UNCHANGED znode
    BY <1>2 DEF Expire
  <2>2. /\ EventsFormed' /\ \A k \in Node : k # n => events'[k] = events[k]
        /\ \A k \in Node : \A f \in Event : Pending(k, f)' => Pending(k, f) \/ (k = n /\ f = "expired")
    BY <1>0, <2>1, AppendedEvent
  <2>3. /\ watch' \subseteq watch \ {n} /\ (watch' # {} => UNCHANGED znode)
        /\ \A k \in Node : k # n => k \notin watch \ watch'
    BY <2>1
  <2>4. /\ \A k \in Node : k # n => (events'[k] # <<>> <=> events[k] # <<>> \/ k \in watch \ watch')
        /\ \A k \in Node : \A f \in Event :
              Pending(k, f)' => \/ Pending(k, f)
                                \/ f = "expired" /\ k = n
                                \/ f = "deleted" /\ deletions' = deletions + 1
    <3>1. ASSUME NEW k \in Node, NEW f \in Event, Pending(k, f)'
          PROVE  Pending(k, f) \/ (f = "expired" /\ k = n)
      BY <2>2, <3>1
    <3> QED
      BY <2>2, <2>3, <3>1, Zenon
  <2> QED
    BY <2>2, <2>3, <2>4, Zenon
<1> QED
  BY <1>1, <1>2

LEMMA ReconnectMasterShape ==
  ASSUME Shape, NEW n \in Node, ReconnectMaster(n)
  PROVE  Shape'
<1>0. n \in up /\ thread[n] = "free" /\ watch \subseteq Node
  BY DEF ReconnectMaster, Handles, Shape, Alive, Typed
<1>1. /\ EventsFormed' /\ ZnodeTyped' /\ znode'.owner = znode.owner
      /\ \A k \in Node : k # n /\ events'[k] # <<>> => events[k] # <<>> \/ k \in watch
  BY <1>0, ReconnectMasterEffect
<1> USE <1>0, <1>1, NodeAssumption DEF Handles, ReconnectMaster, Goto, Exists, NoZnode, znodeVars,
        processVars, boundVars, Shape, Level, Thread, ZnodeTyped
<1>2. Typed'
  BY DEF Typed, Alive, Fresh
<1>3. Alive'
  BY DEF Typed, Alive, Fresh
<1>4. Fresh'
  BY DEF Typed, Alive, Fresh
<1>5. OnlyMasters'
  BY DEF Typed, OnlyMasters
<1> QED
  BY <1>1, <1>2, <1>3, <1>4, <1>5

LEMMA IgnoreExpiredShape ==
  ASSUME Shape, NEW n \in Node, IgnoreExpired(n)
  PROVE  Shape'
<1>0. /\ EventsFormed' /\ \A k \in Node : k # n => events'[k] = events[k]
      /\ n \in up /\ thread[n] = "free"
  BY HandledAlone DEF IgnoreExpired, Handles, Shape, Alive
<1>1. ZnodeTyped'
  BY ZnodeUnchanged DEF IgnoreExpired, Shape
<1> USE <1>0, NodeAssumption DEF Handles, IgnoreExpired, Goto, Exists, NoZnode, znodeVars,
        processVars, boundVars, Shape, Level, Thread, ZnodeTyped
<1>2. Typed'
  BY DEF Typed, Alive, Fresh
<1>3. Alive'
  BY DEF Typed, Alive, Fresh
<1>4. Fresh'
  BY DEF Typed, Alive, Fresh
<1>5. OnlyMasters'
  BY DEF Typed, OnlyMasters
<1> QED
  BY <1>1, <1>2, <1>3, <1>4, <1>5

LEMMA NoticeDeletedShape ==
  ASSUME Shape, NEW n \in Node, NoticeDeleted(n)
  PROVE  Shape'
<1>0. /\ EventsFormed' /\ \A k \in Node : k # n => events'[k] = events[k]
      /\ n \in up /\ thread[n] = "free"
  BY HandledAlone DEF NoticeDeleted, Handles, Shape, Alive
<1>1. ZnodeTyped'
  BY ZnodeUnchanged DEF NoticeDeleted, Shape
<1> USE <1>0, NodeAssumption DEF Handles, NoticeDeleted, Goto, Exists, NoZnode, znodeVars,
        processVars, boundVars, Shape, Level, Thread, ZnodeTyped
<1>2. Typed'
  BY DEF Typed, Alive, Fresh
<1>3. Alive'
  BY DEF Typed, Alive, Fresh
<1>4. Fresh'
  BY DEF Typed, Alive, Fresh
<1>5. OnlyMasters'
  BY DEF Typed, OnlyMasters
<1> QED
  BY <1>1, <1>2, <1>3, <1>4, <1>5

LEMMA NoticeChangedShape ==
  ASSUME Shape, NEW n \in Node, NoticeChanged(n)
  PROVE  Shape'
<1>0. /\ EventsFormed' /\ \A k \in Node : k # n => events'[k] = events[k]
      /\ n \in up /\ thread[n] = "free"
  BY HandledAlone DEF NoticeChanged, Handles, Shape, Alive
<1>1. ZnodeTyped'
  BY ZnodeUnchanged DEF NoticeChanged, Shape
<1> USE <1>0, NodeAssumption DEF Handles, NoticeChanged, Reload, ReadMaster, Goto, Exists, NoZnode,
        znodeVars, processVars, boundVars, Shape, Level, Thread, ZnodeTyped
<1>2. Typed'
  BY DEF Typed, Alive, Fresh
<1>3. Alive'
  BY DEF Typed, Alive, Fresh
<1>4. Fresh'
  BY DEF Typed, Alive, Fresh
<1>5. OnlyMasters'
  BY DEF Typed, OnlyMasters
<1> QED
  BY <1>1, <1>2, <1>3, <1>4, <1>5

LEMMA CrashShape ==
  ASSUME Shape, NEW n \in Node, Crash(n)
  PROVE  Shape'
<1>0. EventsFormed' /\ events'[n] = <<>> /\ \A k \in Node : k # n => events'[k] = events[k]
  <2>1. <<>> \in Seq(Event)
    OBVIOUS
  <2> QED
    BY <2>1 DEF Crash, Shape, EventsFormed
<1>1. ZnodeTyped'
  BY DEF Crash, Shape, ZnodeTyped, NoZnode
<1> USE <1>0, NodeAssumption DEF Crash, Booted, Goto, Exists, NoZnode, znodeVars, processVars,
        boundVars, Shape, Level, Thread, ZnodeTyped
<1>2. Typed'
  BY DEF Typed, Alive, Fresh
<1>3. Alive'
  BY DEF Typed, Alive, Fresh
<1>4. Fresh'
  BY DEF Typed, Alive, Fresh
<1>5. OnlyMasters'
  BY DEF Typed, OnlyMasters
<1> QED
  BY <1>1, <1>2, <1>3, <1>4, <1>5

LEMMA ExpireShape ==
  ASSUME Shape, NEW n \in Node, Expire(n)
  PROVE  Shape'
<1>0. /\ EventsFormed' /\ watch' \subseteq watch \ {n}
      /\ \A k \in Node : events'[k] # <<>> => events[k] # <<>> \/ k \in watch \/ k = n
  BY ExpireEffect
<1>1. ZnodeTyped'
  <2>1. CASE znode' = NoZnode
    <3>1. NoZnode = [owner |-> NoNode, data |-> NoNode] /\ NoZnode.owner = NoNode /\ NoZnode.data = NoNode
      BY DEF NoZnode
    <3>2. ghost' \in BOOLEAN
      BY DEF Expire, Shape, ZnodeTyped
    <3> QED
      BY <2>1, <3>1, <3>2 DEF ZnodeTyped
  <2>2. CASE UNCHANGED znodeVars
    BY <2>2, ZnodeUnchanged DEF Shape
  <2> QED
    BY <2>1, <2>2 DEF Expire, znodeVars
<1> USE <1>0, NodeAssumption DEF Expire, Booted, Goto, Exists, NoZnode, znodeVars, processVars,
        boundVars, Shape, Level, Thread, ZnodeTyped
<1>2. Typed'
  BY DEF Typed, Alive, Fresh
<1>3. Alive'
  BY DEF Typed, Alive, Fresh
<1>4. Fresh'
  BY DEF Typed, Alive, Fresh
<1>5. OnlyMasters'
  BY DEF Typed, OnlyMasters
<1> QED
  BY <1>1, <1>2, <1>3, <1>4, <1>5

LEMMA TimeOutShape ==
  ASSUME Shape, TimeOut
  PROVE  Shape'
<1>0. EventsFormed' /\ watch' = {} /\ \A k \in Node : events'[k] # <<>> => events[k] # <<>> \/ k \in watch
  BY TimeOutEffect
<1>1. ZnodeTyped'
  <2>1. CASE znode' = NoZnode
    <3>1. NoZnode = [owner |-> NoNode, data |-> NoNode] /\ NoZnode.owner = NoNode /\ NoZnode.data = NoNode
      BY DEF NoZnode
    <3>2. ghost' \in BOOLEAN
      BY DEF TimeOut, Shape, ZnodeTyped
    <3> QED
      BY <2>1, <3>1, <3>2 DEF ZnodeTyped
  <2>2. CASE UNCHANGED znodeVars
    BY <2>2, ZnodeUnchanged DEF Shape
  <2> QED
    BY <2>1, <2>2 DEF TimeOut, znodeVars
<1> USE <1>0, NodeAssumption DEF TimeOut, Goto, Exists, NoZnode, znodeVars, processVars, boundVars,
        Shape, Level, Thread, ZnodeTyped
<1>2. Typed'
  BY DEF Typed, Alive, Fresh
<1>3. Alive'
  BY DEF Typed, Alive, Fresh
<1>4. Fresh'
  BY DEF Typed, Alive, Fresh
<1>5. OnlyMasters'
  BY DEF Typed, OnlyMasters
<1> QED
  BY <1>1, <1>2, <1>3, <1>4, <1>5

LEMMA ShapeKept ==
  ASSUME Shape, [Next]_vars
  PROVE  Shape'
<1>1. CASE UNCHANGED vars
  <2> USE <1>1 DEF vars, znodeVars, processVars, boundVars, Shape
  <2>1. ZnodeTyped'
    BY ZnodeUnchanged
  <2>2. Typed'
    BY DEF Typed, Exists, NoZnode
  <2>3. EventsFormed'
    BY DEF EventsFormed, Exists, NoZnode
  <2>4. Alive'
    BY DEF Alive, Exists, NoZnode
  <2>5. Fresh'
    BY DEF Fresh, Exists, NoZnode
  <2>6. OnlyMasters'
    BY DEF OnlyMasters, Exists, NoZnode
  <2> QED
    BY <2>1, <2>2, <2>3, <2>4, <2>5, <2>6
<1>2. CASE TimeOut
  BY <1>2, TimeOutShape
<1>3. ASSUME NEW n \in Node, Boot(n) \/ BootStep(n) \/ EventStep(n) \/ Crash(n) \/ Expire(n)
      PROVE  Shape'
  BY <1>3, BootShape, BootMasterShape, BootSlaveShape, ReconnectFollowerShape, ReconnectMasterShape,
     RebuildShape, IgnoreExpiredShape, NoticeDeletedShape, ContestShape, TakeOverShape,
     LoserReadsShape, NoticeChangedShape, CrashShape, ExpireShape DEF BootStep, EventStep
<1> QED
  BY <1>1, <1>2, <1>3 DEF Next

-----------------------------------------------------------------------------
(* The invariants.                                                         *)

LEMMA ServingKept ==
  ASSUME Shape, Shape', ServingOwnsZnode, WinnerOwnsZnode, [Next]_vars
  PROVE  ServingOwnsZnode' /\ WinnerOwnsZnode'
<1>0. ZnodeTyped /\ Typed /\ Alive /\ Fresh /\ OnlyMasters /\ Typed' /\ Alive'
  BY DEF Shape
<1> USE <1>0, NodeAssumption DEF ZnodeTyped, Typed, Exists, NoZnode, znodeVars, processVars,
        boundVars, Alive, Fresh, ServingOwnsZnode, WinnerOwnsZnode
<1>1. ASSUME NEW n \in Node, Boot(n)
      PROVE  ServingOwnsZnode' /\ WinnerOwnsZnode'
  BY <1>1 DEF Boot, Goto
<1>2. ASSUME NEW n \in Node, BootMaster(n)
      PROVE  ServingOwnsZnode' /\ WinnerOwnsZnode'
  BY <1>2 DEF BootMaster, Create, Exit, Goto
<1>3. ASSUME NEW n \in Node, BootSlave(n)
      PROVE  ServingOwnsZnode' /\ WinnerOwnsZnode'
  BY <1>3 DEF BootSlave, ReadMaster, Exit, Goto
<1>4. ASSUME NEW n \in Node, ReconnectFollower(n)
      PROVE  ServingOwnsZnode' /\ WinnerOwnsZnode'
  BY <1>4 DEF Handles, ReconnectFollower, ReadMaster, Goto
<1>5. ASSUME NEW n \in Node, ReconnectMaster(n)
      PROVE  ServingOwnsZnode' /\ WinnerOwnsZnode'
  <2>1. znode'.owner = znode.owner
    BY <1>5, ReconnectMasterEffect
  <2>2. UNCHANGED <<ghost, serves, partitioned, deletions, up, level, following>>
    BY <1>5 DEF ReconnectMaster
  <2>3. watch' = {} \/ UNCHANGED <<watch, znode>>
    BY <1>5 DEF ReconnectMaster
  <2>4. \A k \in Node : \/ thread'[k] = thread[k]
                        \/ thread'[k] = "rebuilding" /\ k = n
    <3>1. thread' = thread \/ thread' = [thread EXCEPT ![n] = "rebuilding"]
      BY <1>5, Zenon DEF ReconnectMaster, Goto
    <3>2. thread \in [Node -> Thread]
      OBVIOUS
    <3> QED
      BY ONLY <3>1, <3>2
  <2> QED
    BY <2>1, <2>2, <2>3, <2>4
<1>6. ASSUME NEW n \in Node, Rebuild(n)
      PROVE  ServingOwnsZnode' /\ WinnerOwnsZnode'
  BY <1>6 DEF Rebuild, Create, Goto
<1>7. ASSUME NEW n \in Node, IgnoreExpired(n)
      PROVE  ServingOwnsZnode' /\ WinnerOwnsZnode'
  BY <1>7 DEF Handles, IgnoreExpired, Goto
<1>8. ASSUME NEW n \in Node, NoticeDeleted(n)
      PROVE  ServingOwnsZnode' /\ WinnerOwnsZnode'
  BY <1>8 DEF Handles, NoticeDeleted, Goto
<1>9. ASSUME NEW n \in Node, Contest(n)
      PROVE  ServingOwnsZnode' /\ WinnerOwnsZnode'
  BY <1>9 DEF Contest, Create, Goto
<1>10. ASSUME NEW n \in Node, TakeOver(n)
      PROVE  ServingOwnsZnode' /\ WinnerOwnsZnode'
  BY <1>10 DEF TakeOver, Goto
<1>11. ASSUME NEW n \in Node, LoserReads(n)
      PROVE  ServingOwnsZnode' /\ WinnerOwnsZnode'
  BY <1>11 DEF LoserReads, Reload, ReadMaster, Goto
<1>12. ASSUME NEW n \in Node, NoticeChanged(n)
      PROVE  ServingOwnsZnode' /\ WinnerOwnsZnode'
  BY <1>12 DEF Handles, NoticeChanged, Reload, ReadMaster, Goto
<1>13. ASSUME NEW n \in Node, Crash(n)
      PROVE  ServingOwnsZnode' /\ WinnerOwnsZnode'
  BY <1>13 DEF Crash, Booted, Goto
<1>14. ASSUME NEW n \in Node, Expire(n)
      PROVE  ServingOwnsZnode' /\ WinnerOwnsZnode'
  <2>1. watch' \subseteq watch \ {n} /\ (watch' # {} => UNCHANGED znode)
    BY <1>14, ExpireEffect
  <2> QED
    BY <1>14, <2>1 DEF Expire, Booted, Goto
<1>15. CASE TimeOut
  BY <1>15 DEF TimeOut, Fire
<1>16. CASE UNCHANGED vars
  BY <1>16 DEF vars
<1> QED
  BY <1>1, <1>2, <1>3, <1>4, <1>5, <1>6, <1>7, <1>8, <1>9, <1>10, <1>11, <1>12, <1>13, <1>14, <1>15,
     <1>16 DEF Next, EventStep, BootStep

LEMMA WatchersKept ==
  ASSUME Shape, Shape', WatcherIsCurrent, [Next]_vars
  PROVE  WatcherIsCurrent'
<1>0. ZnodeTyped /\ Typed /\ Alive /\ Fresh /\ OnlyMasters /\ Typed' /\ Alive'
  BY DEF Shape
<1> USE <1>0, NodeAssumption DEF ZnodeTyped, Typed, Exists, NoZnode, znodeVars, processVars,
        boundVars, Alive, Fresh, WatcherIsCurrent
<1>1. ASSUME NEW n \in Node, Boot(n)
      PROVE  WatcherIsCurrent'
  BY <1>1 DEF Boot, Goto
<1>2. ASSUME NEW n \in Node, BootMaster(n)
      PROVE  WatcherIsCurrent'
  BY <1>2 DEF BootMaster, Create, Exit, Goto
<1>3. ASSUME NEW n \in Node, BootSlave(n)
      PROVE  WatcherIsCurrent'
  BY <1>3 DEF BootSlave, ReadMaster, Exit, Goto
<1>4. ASSUME NEW n \in Node, ReconnectFollower(n)
      PROVE  WatcherIsCurrent'
  BY <1>4 DEF Handles, ReconnectFollower, ReadMaster, Goto
<1>5. ASSUME NEW n \in Node, ReconnectMaster(n)
      PROVE  WatcherIsCurrent'
  <2>1. znode'.owner = znode.owner
    BY <1>5, ReconnectMasterEffect
  <2>2. UNCHANGED <<ghost, serves, partitioned, deletions, up, level, following>>
    BY <1>5 DEF ReconnectMaster
  <2>3. watch' = {} \/ UNCHANGED <<watch, znode>>
    BY <1>5 DEF ReconnectMaster
  <2>4. \A k \in Node : \/ thread'[k] = thread[k]
                        \/ thread'[k] = "rebuilding" /\ k = n
    <3>1. thread' = thread \/ thread' = [thread EXCEPT ![n] = "rebuilding"]
      BY <1>5, Zenon DEF ReconnectMaster, Goto
    <3>2. thread \in [Node -> Thread]
      OBVIOUS
    <3> QED
      BY ONLY <3>1, <3>2
  <2> QED
    BY <2>1, <2>2, <2>3, <2>4
<1>6. ASSUME NEW n \in Node, Rebuild(n)
      PROVE  WatcherIsCurrent'
  BY <1>6 DEF Rebuild, Create, Goto
<1>7. ASSUME NEW n \in Node, IgnoreExpired(n)
      PROVE  WatcherIsCurrent'
  BY <1>7 DEF Handles, IgnoreExpired, Goto
<1>8. ASSUME NEW n \in Node, NoticeDeleted(n)
      PROVE  WatcherIsCurrent'
  BY <1>8 DEF Handles, NoticeDeleted, Goto
<1>9. ASSUME NEW n \in Node, Contest(n)
      PROVE  WatcherIsCurrent'
  BY <1>9 DEF Contest, Create, Goto
<1>10. ASSUME NEW n \in Node, TakeOver(n)
      PROVE  WatcherIsCurrent'
  BY <1>10 DEF TakeOver, Goto
<1>11. ASSUME NEW n \in Node, LoserReads(n)
      PROVE  WatcherIsCurrent'
  BY <1>11 DEF LoserReads, Reload, ReadMaster, Goto
<1>12. ASSUME NEW n \in Node, NoticeChanged(n)
      PROVE  WatcherIsCurrent'
  BY <1>12 DEF Handles, NoticeChanged, Reload, ReadMaster, Goto
<1>13. ASSUME NEW n \in Node, Crash(n)
      PROVE  WatcherIsCurrent'
  BY <1>13 DEF Crash, Booted, Goto
<1>14. ASSUME NEW n \in Node, Expire(n)
      PROVE  WatcherIsCurrent'
  <2>1. watch' \subseteq watch \ {n} /\ (watch' # {} => UNCHANGED znode)
    BY <1>14, ExpireEffect
  <2> QED
    BY <1>14, <2>1 DEF Expire, Booted, Goto
<1>15. CASE TimeOut
  BY <1>15 DEF TimeOut, Fire
<1>16. CASE UNCHANGED vars
  BY <1>16 DEF vars
<1> QED
  BY <1>1, <1>2, <1>3, <1>4, <1>5, <1>6, <1>7, <1>8, <1>9, <1>10, <1>11, <1>12, <1>13, <1>14, <1>15,
     <1>16 DEF Next, EventStep, BootStep

LEMMA HandlesPending ==
  ASSUME EventsFormed, NEW n \in Node, NEW e, Handles(n, e)
  PROVE  e \in Event /\ Pending(n, e)
<1>1. events[n] \in Seq(Event) /\ events[n] # <<>> /\ Head(events[n]) = e
  BY DEF EventsFormed, Handles
<1> QED
  BY <1>1, HeadOccurs, Zenon DEF Pending

LEMMA BootHeard ==
  ASSUME Shape, Shape', WinnerOwnsZnode, Heard, NEW n \in Node, Boot(n)
  PROVE  Heard'
<1>0. ZnodeTyped /\ Typed /\ Alive /\ Fresh /\ OnlyMasters /\ Typed' /\ Alive' /\ ZnodeTyped' /\ EventsFormed
  BY DEF Shape
<1>2. events' = events /\ \A k \in Node : \A f \in Event : Pending(k, f)' <=> Pending(k, f)
  BY DEF Boot, Pending
<1> USE <1>0, <1>2, NodeAssumption DEF Goto, Boot, Exists, NoZnode, znodeVars, processVars,
        boundVars, ZnodeTyped, Typed, Event, Heard
<1>3. ExpiredTells'
  BY DEF ExpiredTells, Alive, Fresh
<1>4. DeletedTells'
  BY DEF DeletedTells, ExpiredTells, FirstMaster, Booted, Fresh, Alive
<1>5. ChangedTells'
  BY DEF ChangedTells, DeletedTells, Alive
<1>6. FirstMaster'
  BY DEF FirstMaster, Booted, Fresh, Alive, OnlyMasters, DeletedTells
<1>7. IdleHears'
  BY DEF IdleHears, Idle, Booted, WinnerOwnsZnode, ExpiredTells, ChangedTells, OnlyMasters, Alive, Fresh
<1> QED
  BY <1>3, <1>4, <1>5, <1>6, <1>7

LEMMA BootMasterHeard ==
  ASSUME Shape, Shape', WinnerOwnsZnode, Heard, NEW n \in Node, BootMaster(n)
  PROVE  Heard'
<1>0. ZnodeTyped /\ Typed /\ Alive /\ Fresh /\ OnlyMasters /\ Typed' /\ Alive' /\ ZnodeTyped' /\ EventsFormed
  BY DEF Shape
<1>2. events' = events /\ \A k \in Node : \A f \in Event : Pending(k, f)' <=> Pending(k, f)
  BY DEF BootMaster, Pending
<1> USE <1>0, <1>2, NodeAssumption DEF Goto, BootMaster, Create, Exit, Exists, NoZnode, znodeVars,
        processVars, boundVars, ZnodeTyped, Typed, Event, Heard
<1>3. ExpiredTells'
  BY DEF ExpiredTells, Alive, Fresh
<1>4. DeletedTells'
  BY DEF DeletedTells, ExpiredTells, FirstMaster, Booted, Fresh, Alive
<1>5. ChangedTells'
  BY DEF ChangedTells, DeletedTells, Alive
<1>6. FirstMaster'
  BY DEF FirstMaster, Booted, Fresh, Alive, OnlyMasters, DeletedTells
<1>7. IdleHears'
  BY DEF IdleHears, Idle, Booted, WinnerOwnsZnode, ExpiredTells, ChangedTells, OnlyMasters, Alive, Fresh
<1> QED
  BY <1>3, <1>4, <1>5, <1>6, <1>7

LEMMA BootSlaveHeard ==
  ASSUME Shape, Shape', WinnerOwnsZnode, Heard, NEW n \in Node, BootSlave(n)
  PROVE  Heard'
<1>0. ZnodeTyped /\ Typed /\ Alive /\ Fresh /\ OnlyMasters /\ Typed' /\ Alive' /\ ZnodeTyped' /\ EventsFormed
  BY DEF Shape
<1>2. events' = events /\ \A k \in Node : \A f \in Event : Pending(k, f)' <=> Pending(k, f)
  BY DEF BootSlave, Pending
<1> USE <1>0, <1>2, NodeAssumption DEF Goto, BootSlave, ReadMaster, Exit, Exists, NoZnode, znodeVars,
        processVars, boundVars, ZnodeTyped, Typed, Event, Heard
<1>3. ExpiredTells'
  BY DEF ExpiredTells, Alive, Fresh
<1>4. DeletedTells'
  BY DEF DeletedTells, ExpiredTells, FirstMaster, Booted, Fresh, Alive
<1>5. ChangedTells'
  BY DEF ChangedTells, DeletedTells, Alive
<1>6. FirstMaster'
  BY DEF FirstMaster, Booted, Fresh, Alive, OnlyMasters, DeletedTells
<1>7. IdleHears'
  BY DEF IdleHears, Idle, Booted, WinnerOwnsZnode, ExpiredTells, ChangedTells, OnlyMasters, Alive, Fresh
<1> QED
  BY <1>3, <1>4, <1>5, <1>6, <1>7

LEMMA ReconnectFollowerHeard ==
  ASSUME Shape, Shape', WinnerOwnsZnode, Heard, NEW n \in Node, ReconnectFollower(n)
  PROVE  Heard'
<1>0. ZnodeTyped /\ Typed /\ Alive /\ Fresh /\ OnlyMasters /\ Typed' /\ Alive' /\ ZnodeTyped' /\ EventsFormed
  BY DEF Shape
<1>1. "expired" \in Event /\ Pending(n, "expired")
  BY <1>0, HandlesPending DEF ReconnectFollower
<1>2. /\ \A k \in Node : k # n => events'[k] = events[k]
      /\ \A k \in Node : \A f \in Event : Pending(k, f)' => Pending(k, f)
  BY <1>0, HandledAlone DEF ReconnectFollower, Handles
<1> USE <1>0, <1>1, <1>2, NodeAssumption DEF Goto, Handles, ReconnectFollower, ReadMaster, Exists,
        NoZnode, znodeVars, processVars, boundVars, ZnodeTyped, Typed, Event, Heard
<1>3. ExpiredTells'
  BY DEF ExpiredTells, Alive, Fresh
<1>4. DeletedTells'
  BY DEF DeletedTells, ExpiredTells, FirstMaster, Booted, Fresh, Alive
<1>5. ChangedTells'
  BY DEF ChangedTells, DeletedTells, Alive
<1>6. FirstMaster'
  BY DEF FirstMaster, Booted, Fresh, Alive, OnlyMasters, DeletedTells
<1>7. IdleHears'
  BY DEF IdleHears, Idle, Booted, WinnerOwnsZnode, ExpiredTells, ChangedTells, OnlyMasters, Alive, Fresh
<1> QED
  BY <1>3, <1>4, <1>5, <1>6, <1>7

LEMMA ReconnectMasterHeard ==
  ASSUME Shape, Shape', WinnerOwnsZnode, Heard, NEW n \in Node, ReconnectMaster(n)
  PROVE  Heard'
<1>0. ZnodeTyped /\ Typed /\ Alive /\ Fresh /\ OnlyMasters /\ Typed' /\ Alive' /\ ZnodeTyped' /\ EventsFormed
  BY DEF Shape
<1>1. "expired" \in Event /\ Pending(n, "expired")
  BY <1>0, HandlesPending DEF ReconnectMaster
<1>2. /\ znode'.owner = znode.owner
      /\ \A k \in Node : k # n => (events'[k] # <<>> <=> events[k] # <<>> \/ k \in watch \ watch')
      /\ \A k \in Node : \A f \in Event : Pending(k, f)' => Pending(k, f) \/ (f = "changed" /\ Exists)
  BY ReconnectMasterEffect
<1>8. UNCHANGED <<ghost, serves, partitioned, deletions, up, level>>
  BY DEF ReconnectMaster, boundVars
<1>10. watch' = {} \/ UNCHANGED <<watch, znode>>
  BY DEF ReconnectMaster
<1>11. thread[n] = "free" /\ level[n] = "master"
  BY DEF ReconnectMaster, Handles
<1>9. \A k \in Node : thread'[k] = thread[k] \/ (thread'[k] = "rebuilding" /\ k = n)
  <2>1. thread' = thread \/ thread' = [thread EXCEPT ![n] = "rebuilding"]
    BY Zenon DEF ReconnectMaster, Goto
  <2>2. thread \in [Node -> Thread]
    BY <1>0 DEF Typed
  <2> QED
    BY ONLY <2>1, <2>2
<1> USE <1>0, <1>1, <1>8, <1>9, <1>10, <1>11, <1>2, NodeAssumption DEF Handles, Exists, NoZnode,
        znodeVars, processVars, boundVars, ZnodeTyped, Typed, Event, Heard
<1>3. ExpiredTells'
  BY DEF ExpiredTells, Alive, Fresh
<1>4. DeletedTells'
  BY DEF DeletedTells, ExpiredTells, FirstMaster, Booted, Fresh, Alive
<1>5. ChangedTells'
  BY DEF ChangedTells, DeletedTells, Alive
<1>6. FirstMaster'
  BY DEF FirstMaster, Booted, Fresh, Alive, OnlyMasters, DeletedTells
<1>7. IdleHears'
  BY DEF IdleHears, Idle, Booted, WinnerOwnsZnode, ExpiredTells, ChangedTells, OnlyMasters, Alive, Fresh
<1> QED
  BY <1>3, <1>4, <1>5, <1>6, <1>7

LEMMA RebuildHeard ==
  ASSUME Shape, Shape', WinnerOwnsZnode, Heard, NEW n \in Node, Rebuild(n)
  PROVE  Heard'
<1>0. ZnodeTyped /\ Typed /\ Alive /\ Fresh /\ OnlyMasters /\ Typed' /\ Alive' /\ ZnodeTyped' /\ EventsFormed
  BY DEF Shape
<1>2. events' = events /\ \A k \in Node : \A f \in Event : Pending(k, f)' <=> Pending(k, f)
  BY DEF Rebuild, Pending
<1> USE <1>0, <1>2, NodeAssumption DEF Goto, Rebuild, Create, Exists, NoZnode, znodeVars,
        processVars, boundVars, ZnodeTyped, Typed, Event, Heard
<1>3. ExpiredTells'
  BY DEF ExpiredTells, Alive, Fresh
<1>4. DeletedTells'
  BY DEF DeletedTells, ExpiredTells, FirstMaster, Booted, Fresh, Alive
<1>5. ChangedTells'
  BY DEF ChangedTells, DeletedTells, Alive
<1>6. FirstMaster'
  BY DEF FirstMaster, Booted, Fresh, Alive, OnlyMasters, DeletedTells
<1>7. IdleHears'
  BY DEF IdleHears, Idle, Booted, WinnerOwnsZnode, ExpiredTells, ChangedTells, OnlyMasters, Alive, Fresh
<1> QED
  BY <1>3, <1>4, <1>5, <1>6, <1>7

LEMMA IgnoreExpiredHeard ==
  ASSUME Shape, Shape', WinnerOwnsZnode, Heard, NEW n \in Node, IgnoreExpired(n)
  PROVE  Heard'
<1>0. ZnodeTyped /\ Typed /\ Alive /\ Fresh /\ OnlyMasters /\ Typed' /\ Alive' /\ ZnodeTyped' /\ EventsFormed
  BY DEF Shape
<1>1. "expired" \in Event /\ Pending(n, "expired")
  BY <1>0, HandlesPending DEF IgnoreExpired
<1>2. /\ \A k \in Node : k # n => events'[k] = events[k]
      /\ \A k \in Node : \A f \in Event : Pending(k, f)' => Pending(k, f)
  BY <1>0, HandledAlone DEF IgnoreExpired, Handles
<1> USE <1>0, <1>1, <1>2, NodeAssumption DEF Goto, Handles, IgnoreExpired, Exists, NoZnode,
        znodeVars, processVars, boundVars, ZnodeTyped, Typed, Event, Heard
<1>3. ExpiredTells'
  BY DEF ExpiredTells, Alive, Fresh
<1>4. DeletedTells'
  BY DEF DeletedTells, ExpiredTells, FirstMaster, Booted, Fresh, Alive
<1>5. ChangedTells'
  BY DEF ChangedTells, DeletedTells, Alive
<1>6. FirstMaster'
  BY DEF FirstMaster, Booted, Fresh, Alive, OnlyMasters, DeletedTells
<1>7. IdleHears'
  BY DEF IdleHears, Idle, Booted, WinnerOwnsZnode, ExpiredTells, ChangedTells, OnlyMasters, Alive, Fresh
<1> QED
  BY <1>3, <1>4, <1>5, <1>6, <1>7

LEMMA NoticeDeletedHeard ==
  ASSUME Shape, Shape', WinnerOwnsZnode, Heard, NEW n \in Node, NoticeDeleted(n)
  PROVE  Heard'
<1>0. ZnodeTyped /\ Typed /\ Alive /\ Fresh /\ OnlyMasters /\ Typed' /\ Alive' /\ ZnodeTyped' /\ EventsFormed
  BY DEF Shape
<1>1. "deleted" \in Event /\ Pending(n, "deleted")
  BY <1>0, HandlesPending DEF NoticeDeleted
<1>2. /\ \A k \in Node : k # n => events'[k] = events[k]
      /\ \A k \in Node : \A f \in Event : Pending(k, f)' => Pending(k, f)
  BY <1>0, HandledAlone DEF NoticeDeleted, Handles
<1> USE <1>0, <1>1, <1>2, NodeAssumption DEF Goto, Handles, NoticeDeleted, Exists, NoZnode,
        znodeVars, processVars, boundVars, ZnodeTyped, Typed, Event, Heard
<1>3. ExpiredTells'
  BY DEF ExpiredTells, Alive, Fresh
<1>4. DeletedTells'
  BY DEF DeletedTells, ExpiredTells, FirstMaster, Booted, Fresh, Alive
<1>5. ChangedTells'
  BY DEF ChangedTells, DeletedTells, Alive
<1>6. FirstMaster'
  BY DEF FirstMaster, Booted, Fresh, Alive, OnlyMasters, DeletedTells
<1>7. IdleHears'
  BY DEF IdleHears, Idle, Booted, WinnerOwnsZnode, ExpiredTells, ChangedTells, OnlyMasters, Alive, Fresh
<1> QED
  BY <1>3, <1>4, <1>5, <1>6, <1>7

LEMMA ContestHeard ==
  ASSUME Shape, Shape', WinnerOwnsZnode, Heard, NEW n \in Node, Contest(n)
  PROVE  Heard'
<1>0. ZnodeTyped /\ Typed /\ Alive /\ Fresh /\ OnlyMasters /\ Typed' /\ Alive' /\ ZnodeTyped' /\ EventsFormed
  BY DEF Shape
<1>2. events' = events /\ \A k \in Node : \A f \in Event : Pending(k, f)' <=> Pending(k, f)
  BY DEF Contest, Pending
<1> USE <1>0, <1>2, NodeAssumption DEF Goto, Contest, Create, Exists, NoZnode, znodeVars,
        processVars, boundVars, ZnodeTyped, Typed, Event, Heard
<1>3. ExpiredTells'
  BY DEF ExpiredTells, Alive, Fresh
<1>4. DeletedTells'
  BY DEF DeletedTells, ExpiredTells, FirstMaster, Booted, Fresh, Alive
<1>5. ChangedTells'
  BY DEF ChangedTells, DeletedTells, Alive
<1>6. FirstMaster'
  BY DEF FirstMaster, Booted, Fresh, Alive, OnlyMasters, DeletedTells
<1>7. IdleHears'
  BY DEF IdleHears, Idle, Booted, WinnerOwnsZnode, ExpiredTells, ChangedTells, OnlyMasters, Alive, Fresh
<1> QED
  BY <1>3, <1>4, <1>5, <1>6, <1>7

LEMMA TakeOverHeard ==
  ASSUME Shape, Shape', WinnerOwnsZnode, Heard, NEW n \in Node, TakeOver(n)
  PROVE  Heard'
<1>0. ZnodeTyped /\ Typed /\ Alive /\ Fresh /\ OnlyMasters /\ Typed' /\ Alive' /\ ZnodeTyped' /\ EventsFormed
  BY DEF Shape
<1>2. events' = events /\ \A k \in Node : \A f \in Event : Pending(k, f)' <=> Pending(k, f)
  BY DEF TakeOver, Pending
<1> USE <1>0, <1>2, NodeAssumption DEF Goto, TakeOver, Exists, NoZnode, znodeVars, processVars,
        boundVars, ZnodeTyped, Typed, Event, Heard
<1>3. ExpiredTells'
  BY DEF ExpiredTells, Alive, Fresh
<1>4. DeletedTells'
  BY DEF DeletedTells, ExpiredTells, FirstMaster, Booted, Fresh, Alive
<1>5. ChangedTells'
  BY DEF ChangedTells, DeletedTells, Alive
<1>6. FirstMaster'
  BY DEF FirstMaster, Booted, Fresh, Alive, OnlyMasters, DeletedTells
<1>7. IdleHears'
  BY DEF IdleHears, Idle, Booted, WinnerOwnsZnode, ExpiredTells, ChangedTells, OnlyMasters, Alive, Fresh
<1> QED
  BY <1>3, <1>4, <1>5, <1>6, <1>7

LEMMA LoserReadsHeard ==
  ASSUME Shape, Shape', WinnerOwnsZnode, Heard, NEW n \in Node, LoserReads(n)
  PROVE  Heard'
<1>0. ZnodeTyped /\ Typed /\ Alive /\ Fresh /\ OnlyMasters /\ Typed' /\ Alive' /\ ZnodeTyped' /\ EventsFormed
  BY DEF Shape
<1>2. events' = events /\ \A k \in Node : \A f \in Event : Pending(k, f)' <=> Pending(k, f)
  BY DEF LoserReads, Pending
<1> USE <1>0, <1>2, NodeAssumption DEF Goto, LoserReads, Reload, ReadMaster, Exists, NoZnode,
        znodeVars, processVars, boundVars, ZnodeTyped, Typed, Event, Heard
<1>3. ExpiredTells'
  BY DEF ExpiredTells, Alive, Fresh
<1>4. DeletedTells'
  BY DEF DeletedTells, ExpiredTells, FirstMaster, Booted, Fresh, Alive
<1>5. ChangedTells'
  BY DEF ChangedTells, DeletedTells, Alive
<1>6. FirstMaster'
  BY DEF FirstMaster, Booted, Fresh, Alive, OnlyMasters, DeletedTells
<1>7. IdleHears'
  BY DEF IdleHears, Idle, Booted, WinnerOwnsZnode, ExpiredTells, ChangedTells, OnlyMasters, Alive, Fresh
<1> QED
  BY <1>3, <1>4, <1>5, <1>6, <1>7

LEMMA NoticeChangedHeard ==
  ASSUME Shape, Shape', WinnerOwnsZnode, Heard, NEW n \in Node, NoticeChanged(n)
  PROVE  Heard'
<1>0. ZnodeTyped /\ Typed /\ Alive /\ Fresh /\ OnlyMasters /\ Typed' /\ Alive' /\ ZnodeTyped' /\ EventsFormed
  BY DEF Shape
<1>1. "changed" \in Event /\ Pending(n, "changed")
  BY <1>0, HandlesPending DEF NoticeChanged
<1>2. /\ \A k \in Node : k # n => events'[k] = events[k]
      /\ \A k \in Node : \A f \in Event : Pending(k, f)' => Pending(k, f)
  BY <1>0, HandledAlone DEF NoticeChanged, Handles
<1> USE <1>0, <1>1, <1>2, NodeAssumption DEF Goto, Handles, NoticeChanged, Reload, ReadMaster,
        Exists, NoZnode, znodeVars, processVars, boundVars, ZnodeTyped, Typed, Event, Heard
<1>3. ExpiredTells'
  BY DEF ExpiredTells, Alive, Fresh
<1>4. DeletedTells'
  BY DEF DeletedTells, ExpiredTells, FirstMaster, Booted, Fresh, Alive
<1>5. ChangedTells'
  BY DEF ChangedTells, DeletedTells, Alive
<1>6. FirstMaster'
  BY DEF FirstMaster, Booted, Fresh, Alive, OnlyMasters, DeletedTells
<1>7. IdleHears'
  BY DEF IdleHears, Idle, Booted, WinnerOwnsZnode, ExpiredTells, ChangedTells, OnlyMasters, Alive, Fresh
<1> QED
  BY <1>3, <1>4, <1>5, <1>6, <1>7

LEMMA CrashHeard ==
  ASSUME Shape, Shape', WinnerOwnsZnode, Heard, NEW n \in Node, Crash(n)
  PROVE  Heard'
<1>0. ZnodeTyped /\ Typed /\ Alive /\ Fresh /\ OnlyMasters /\ Typed' /\ Alive' /\ ZnodeTyped' /\ EventsFormed
  BY DEF Shape
<1>2. /\ \A k \in Node : k # n => events'[k] = events[k]
      /\ \A k \in Node : \A f \in Event : Pending(k, f)' => k # n /\ Pending(k, f)
  <2>1. events'[n] = <<>> /\ \A k \in Node : k # n => events'[k] = events[k]
    BY <1>0 DEF Crash, EventsFormed
  <2> QED
    BY <2>1 DEF Pending, Occurs
<1> USE <1>0, <1>2, NodeAssumption DEF Goto, Crash, Booted, Exists, NoZnode, znodeVars, processVars,
        boundVars, ZnodeTyped, Typed, Event, Heard
<1>3. ExpiredTells'
  BY DEF ExpiredTells, Alive, Fresh
<1>4. DeletedTells'
  BY DEF DeletedTells, ExpiredTells, FirstMaster, Booted, Fresh, Alive
<1>5. ChangedTells'
  BY DEF ChangedTells, DeletedTells, Alive
<1>6. FirstMaster'
  BY DEF FirstMaster, Booted, Fresh, Alive, OnlyMasters, DeletedTells
<1>7. IdleHears'
  BY DEF IdleHears, Idle, Booted, WinnerOwnsZnode, ExpiredTells, ChangedTells, OnlyMasters, Alive, Fresh
<1> QED
  BY <1>3, <1>4, <1>5, <1>6, <1>7

LEMMA ExpireHeard ==
  ASSUME Shape, Shape', WinnerOwnsZnode, Heard, NEW n \in Node, Expire(n)
  PROVE  Heard'
<1>0. ZnodeTyped /\ Typed /\ Alive /\ Fresh /\ OnlyMasters /\ Typed' /\ Alive' /\ ZnodeTyped' /\ EventsFormed
  BY DEF Shape
<1>2. /\ watch' \subseteq watch \ {n}
      /\ \A k \in Node : k # n => (events'[k] # <<>> <=> events[k] # <<>> \/ k \in watch \ watch')
      /\ \A k \in Node : \A f \in Event :
            Pending(k, f)' => \/ Pending(k, f)
                              \/ f = "expired" /\ k = n
                              \/ f = "deleted" /\ deletions' = deletions + 1
  BY ExpireEffect
<1> USE <1>0, <1>2, NodeAssumption DEF Goto, Expire, Booted, Exists, NoZnode, znodeVars, processVars,
        boundVars, ZnodeTyped, Typed, Event, Heard
<1>3. ExpiredTells'
  BY DEF ExpiredTells, Alive, Fresh
<1>4. DeletedTells'
  BY DEF DeletedTells, ExpiredTells, FirstMaster, Booted, Fresh, Alive
<1>5. ChangedTells'
  BY DEF ChangedTells, DeletedTells, Alive
<1>6. FirstMaster'
  BY DEF FirstMaster, Booted, Fresh, Alive, OnlyMasters, DeletedTells
<1>7. IdleHears'
  BY DEF IdleHears, Idle, Booted, WinnerOwnsZnode, ExpiredTells, ChangedTells, OnlyMasters, Alive, Fresh
<1> QED
  BY <1>3, <1>4, <1>5, <1>6, <1>7

LEMMA TimeOutHeard ==
  ASSUME Shape, Shape', WinnerOwnsZnode, Heard, TimeOut
  PROVE  Heard'
<1>0. ZnodeTyped /\ Typed /\ Alive /\ Fresh /\ OnlyMasters /\ Typed' /\ Alive' /\ ZnodeTyped' /\ EventsFormed
  BY DEF Shape
<1>2. /\ watch' = {}
      /\ \A k \in Node : events'[k] # <<>> <=> events[k] # <<>> \/ k \in watch
      /\ \A k \in Node : \A f \in Event : Pending(k, f)' => Pending(k, f) \/ f = "deleted"
  BY TimeOutEffect
<1> USE <1>0, <1>2, NodeAssumption DEF Goto, TimeOut, Exists, NoZnode, znodeVars, processVars,
        boundVars, ZnodeTyped, Typed, Event, Heard
<1>3. ExpiredTells'
  BY DEF ExpiredTells, Alive, Fresh
<1>4. DeletedTells'
  BY DEF DeletedTells, ExpiredTells, FirstMaster, Booted, Fresh, Alive
<1>5. ChangedTells'
  BY DEF ChangedTells, DeletedTells, Alive
<1>6. FirstMaster'
  BY DEF FirstMaster, Booted, Fresh, Alive, OnlyMasters, DeletedTells
<1>7. IdleHears'
  BY DEF IdleHears, Idle, Booted, WinnerOwnsZnode, ExpiredTells, ChangedTells, OnlyMasters, Alive, Fresh
<1> QED
  BY <1>3, <1>4, <1>5, <1>6, <1>7

LEMMA HeardKept ==
  ASSUME Shape, Shape', WinnerOwnsZnode, Heard, [Next]_vars
  PROVE  Heard'
<1>1. CASE UNCHANGED vars
  <2>1. \A k \in Node : \A f \in Event : Pending(k, f)' <=> Pending(k, f)
    BY <1>1 DEF vars, Pending
  <2> QED
    BY <1>1, <2>1 DEF vars, znodeVars, processVars, boundVars, Heard, ExpiredTells, DeletedTells,
       ChangedTells,
                      FirstMaster, IdleHears, Idle, Booted, Exists, NoZnode, Event
<1>2. CASE TimeOut
  BY <1>2, TimeOutHeard
<1>3. ASSUME NEW n \in Node, Boot(n) \/ BootStep(n) \/ EventStep(n) \/ Crash(n) \/ Expire(n)
      PROVE  Heard'
  BY <1>3, BootHeard, BootMasterHeard, BootSlaveHeard, ReconnectFollowerHeard, ReconnectMasterHeard,
     RebuildHeard, IgnoreExpiredHeard, NoticeDeletedHeard, ContestHeard, TakeOverHeard,
     LoserReadsHeard, NoticeChangedHeard, CrashHeard, ExpireHeard DEF BootStep, EventStep
<1> QED
  BY <1>1, <1>2, <1>3 DEF Next

-----------------------------------------------------------------------------
(* The theorems.                                                           *)

Inv == Shape /\ ServingOwnsZnode /\ WinnerOwnsZnode /\ WatcherIsCurrent /\ Heard

LEMMA InvHolds == Spec => []Inv
<1>1. Init => Inv
  <2> SUFFICES ASSUME Init PROVE Inv
    OBVIOUS
  <2>1. Shape
    BY ShapeInit
  <2>2. ServingOwnsZnode /\ WinnerOwnsZnode /\ WatcherIsCurrent
    BY DEF Init, ServingOwnsZnode, WinnerOwnsZnode, WatcherIsCurrent
  <2>3. \A n \in Node : \A f \in Event : ~Pending(n, f)
    BY DEF Init, Pending, Occurs
  <2>4. Heard
    BY <2>3 DEF Init, Heard, ExpiredTells, DeletedTells, ChangedTells, FirstMaster, IdleHears, Idle,
       Booted, Event
  <2> QED
    BY <2>1, <2>2, <2>4 DEF Inv
<1>2. Inv /\ [Next]_vars => Inv'
  BY ShapeKept, ServingKept, WatchersKept, HeardKept, Zenon DEF Inv
<1> QED
  BY <1>1, <1>2, PTL DEF Spec

\* The state of the election is always well formed.
THEOREM ElectionTypeCorrect == Spec => []TypeOK
<1>1. Inv => TypeOK
  BY ShapeIsTyped DEF Inv
<1> QED
  BY <1>1, InvHolds, PTL

\* A process that serves as the master owns the master's znode unless it has
\* lost a session (SpiderProcess.java:72-88, 130-138): so two processes that
\* have kept their sessions never serve at once.
THEOREM ServingMasterOwnsZnode == Spec => []ServingOwnsZnode
<1>1. Inv => ServingOwnsZnode
  BY DEF Inv
<1> QED
  BY <1>1, InvHolds, PTL

\* While a process watches the master's znode, it calls the master that the
\* znode names (SpiderProcess.java:157-175).
THEOREM WatchersAreCurrent == Spec => []WatcherIsCurrent
<1>1. Inv => WatcherIsCurrent
  BY DEF Inv
<1> QED
  BY <1>1, InvHolds, PTL

\* No follower that keeps its session is deaf after one failover
\* (SpiderProcess.java:146-147), for any number of followers.
THEOREM FirstFailoverReachesAll == Spec => []FirstFailoverIsHeard
<1>1. Inv => FirstFailoverIsHeard
  BY DEF Inv, Heard, IdleHears, Idle, FirstFailoverIsHeard, Deaf
<1> QED
  BY <1>1, InvHolds, PTL
=============================================================================
