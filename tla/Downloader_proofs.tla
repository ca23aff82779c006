------------------------- MODULE Downloader_proofs --------------------------
(***************************************************************************)
(* Theorems about the address pool of a spider and about the requests that *)
(* use it, for any addresses, threads, accounts and limits.                *)
(***************************************************************************)
EXTENDS Downloader, TLAPS, FiniteSetTheorems

-----------------------------------------------------------------------------
(* The inductive invariant of the address pool.                            *)

Proxies == [addr : Addr, fails : Nat, deads : Nat]

\* Type correctness, the loader apart.
PoolTyped ==
  /\ all \subseteq Addr /\ idle \in [Addr -> Nat]
  /\ fails \in [Addr -> Nat] /\ deads \in [Addr -> Nat]
  /\ revive \subseteq Proxies
  /\ pc \in [Thread -> Place] /\ hold \in [Thread -> Addr \cup {NoAddr}]
  /\ \A t \in Thread : hold[t] = NoAddr <=> pc[t] \in {"idle", "waiting", "starving"}
  /\ opened \in BOOLEAN
  /\ lent \subseteq Addr /\ gone \subseteq Addr /\ releases \in 0..MaxRelease
  /\ stray \subseteq Addr /\ lost \subseteq Addr

LoaderTyped ==
  /\ loader = [at |-> loader.at, map |-> loader.map, left |-> loader.left, addr |-> loader.addr]
  /\ loader.at \in {"rest", "asking", "adding", "putting"} /\ loader.left \in Nat
  /\ loader.map \subseteq Proxies
  /\ (loader.at = "putting" => loader.addr \in Addr)

\* An address is in the queue or in a request.
Held(a) == \E t \in Thread : Holding(t) /\ hold[t] = a
Out(a) == idle[a] > 0 \/ Held(a)

\* One that is, is counted, or about to be between the two steps of addProxy.
OutIsCounted ==
  \A a \in Addr \ all : Out(a) => loader.at = "putting" /\ loader.addr = a

PutIsOut ==
  loader.at = "putting" =>
    loader.addr \notin all /\ (Out(loader.addr) \/ loader.addr \in stray)

\* Whatever goes back into the pool with too many failures has been punished.
PunishedEverywhere ==
  /\ \A p \in revive : p.deads > 0
  /\ \A p \in loader.map : p.fails > FailedTimes => p.deads > 0
  /\ \A a \in Addr : fails[a] > FailedTimes /\ Out(a) => deads[a] > 0

PoolInv ==
  /\ PoolTyped /\ LoaderTyped
  /\ OneHolder /\ OutIsCounted
  /\ CountedIsAvailable /\ PutIsOut
  /\ PunishedEverywhere

-----------------------------------------------------------------------------
(* Each step of the pool keeps it.                                         *)

LEMMA Counts ==
  /\ ProxyIpCount \in Nat /\ ProxyIpLoadCount \in Nat /\ FailedTimes \in Nat
  /\ DeadTimes \in Nat /\ MaxDeads \in Nat /\ MaxRelease \in Nat
BY CountAssumption

LEMMA PoolInitially == ProxyInit => PoolInv
<1> SUFFICES ASSUME ProxyInit PROVE PoolInv
  OBVIOUS
<1>1. /\ loader.at = "asking" /\ loader.map = {} /\ loader.left = ProxyIpCount
      /\ loader = [at |-> loader.at, map |-> loader.map, left |-> loader.left, addr |-> loader.addr]
  BY DEF ProxyInit
<1>2. LoaderTyped
  BY <1>1, Counts DEF LoaderTyped
<1>3. PoolTyped
  <2>1. /\ idle \in [Addr -> Nat] /\ fails \in [Addr -> Nat] /\ deads \in [Addr -> Nat]
        /\ pc \in [Thread -> Place] /\ hold \in [Thread -> Addr \cup {NoAddr}]
        /\ \A t \in Thread : hold[t] = NoAddr <=> pc[t] \in {"idle", "waiting", "starving"}
    BY DEF ProxyInit, Place
  <2>2. 0 \in 0 .. MaxRelease
    BY Counts
  <2> QED
    BY <2>1, <2>2 DEF ProxyInit, PoolTyped
<1> QED
  BY <1>1, <1>2, <1>3 DEF ProxyInit, PoolInv, OneHolder, OutIsCounted, CountedIsAvailable, PutIsOut,
                          PunishedEverywhere, Out, Held, Holding

LEMMA CheckProxyCountKeeps ==
  ASSUME PoolInv, NEW expired \in SUBSET revive, CheckProxyCount(expired)
  PROVE  PoolInv'
<1>0. PoolTyped /\ LoaderTyped /\ OneHolder /\ OutIsCounted /\ CountedIsAvailable /\ PutIsOut /\ PunishedEverywhere
  BY DEF PoolInv
<1>1. ProxyIpLoadCount \in Nat /\ loader'.at = "asking" /\ loader'.map = expired
      /\ loader'.left = ProxyIpLoadCount /\ loader'.addr = NoAddr
      /\ loader' = [at |-> loader'.at, map |-> loader'.map, left |-> loader'.left, addr |-> loader'.addr]
  BY Counts DEF CheckProxyCount
<1> USE <1>0, <1>1, AddrAssumption, Counts DEF CheckProxyCount, poolVars, threadVars, masterVars, historyVars
<1>2. PoolTyped'
  BY DEF PoolTyped, LoaderTyped, Place, Proxies
<1>3. LoaderTyped'
  BY DEF LoaderTyped, PoolTyped, Proxies
<1>4. OneHolder'
  BY DEF OneHolder, Out, Held, Holding, PoolTyped, LoaderTyped, OutIsCounted
<1>5. OutIsCounted'
  BY DEF OutIsCounted, OneHolder, Out, Held, Holding, PoolTyped, LoaderTyped
<1>6. CountedIsAvailable'
  BY DEF CountedIsAvailable, PutIsOut, OutIsCounted, OneHolder, Out, Held, Holding, PoolTyped,
     LoaderTyped, Place
<1>7. PutIsOut'
  BY DEF PutIsOut, OneHolder, OutIsCounted, Out, Held, Holding, PoolTyped, LoaderTyped
<1>8. PunishedEverywhere'
  BY DEF PunishedEverywhere, OneHolder, OutIsCounted, Out, Held, Holding, PoolTyped, LoaderTyped, Proxies
<1> QED
  BY <1>2, <1>3, <1>4, <1>5, <1>6, <1>7, <1>8 DEF PoolInv

LEMMA GetIpsKeeps ==
  ASSUME PoolInv, GetIps
  PROVE  PoolInv'
<1>0. PoolTyped /\ LoaderTyped /\ OneHolder /\ OutIsCounted /\ CountedIsAvailable /\ PutIsOut /\ PunishedEverywhere
  BY DEF PoolInv
<1>1. PICK rows \in SUBSET (Addr \ (lent \cup gone)) :
        LET new == rows \ all IN
        /\ Asking /\ rows # {} /\ Cardinality(rows) <= loader.left
        /\ lent' = lent \cup rows
        /\ loader' = [loader EXCEPT !.map = {p \in @ : p.addr \notin new} \cup {Fresh(a) : a \in new},
                                    !.left = @ - Cardinality(new)]
        /\ lost' = lost \ rows
  BY DEF GetIps
<1> DEFINE new == rows \ all
           map == {p \in loader.map : p.addr \notin new} \cup {Fresh(a) : a \in new}
<1>2. loader.left - Cardinality(new) \in Nat
  <2>1. IsFiniteSet(rows) /\ new \in SUBSET rows
    BY AddrAssumption, FS_Subset
  <2>2. /\ Cardinality(rows) \in Nat /\ Cardinality(new) \in Nat
        /\ Cardinality(new) <= Cardinality(rows)
    BY <2>1, FS_Subset, FS_CardinalityType
  <2>3. Cardinality(rows) <= loader.left /\ loader.left \in Nat
    BY <1>0, <1>1 DEF LoaderTyped
  <2> HIDE DEF new
  <2> QED
    BY <2>2, <2>3
<1>3. /\ loader.at = "asking" /\ loader'.at = "asking" /\ loader'.map = map
      /\ loader'.left = loader.left - Cardinality(new) /\ loader'.addr = loader.addr
      /\ loader' = [at |-> loader'.at, map |-> loader'.map, left |-> loader'.left, addr |-> loader'.addr]
  <2> DEFINE left == loader.left - Cardinality(new)
  <2>1. loader' = [loader EXCEPT !.map = map, !.left = left]
    BY <1>1
  <2>2. loader = [at |-> loader.at, map |-> loader.map, left |-> loader.left, addr |-> loader.addr]
    BY <1>0 DEF LoaderTyped
  <2>3. loader.at = "asking"
    BY <1>1 DEF Asking
  <2> HIDE DEF map, left
  <2>4. loader' = [at |-> loader.at, map |-> map, left |-> left, addr |-> loader.addr]
    BY <2>1, <2>2
  <2>5. loader'.at = loader.at /\ loader'.map = map /\ loader'.left = left /\ loader'.addr = loader.addr
    BY <2>4
  <2> QED
    BY <2>3, <2>4, <2>5 DEF left
<1>4. \A p \in map : p \in loader.map \/ (p \in Proxies /\ p.fails = 0)
  <2>1. \A a \in Addr : Fresh(a) \in Proxies /\ Fresh(a).fails = 0
    BY DEF Fresh, Proxy, Proxies
  <2>2. new \subseteq Addr
    OBVIOUS
  <2> HIDE DEF new
  <2> QED
    BY <2>1, <2>2
<1>5. UNCHANGED <<poolVars, threadVars, opened, gone, releases, stray>> /\ lent' \subseteq Addr /\ lost' \subseteq Addr
  <2>1. lent' = lent \cup rows /\ lost' = lost \ rows
    BY <1>1
  <2> QED
    BY <1>0, <2>1 DEF PoolTyped, GetIps
<1> HIDE DEF map, new
<1> USE <1>0, <1>2, <1>3, <1>4, <1>5, AddrAssumption, Counts DEF poolVars, threadVars
<1>6. PoolTyped'
  BY DEF PoolTyped, LoaderTyped, Place, Proxies
<1>7. LoaderTyped'
  BY DEF LoaderTyped, PoolTyped, Proxies
<1>8. OneHolder'
  BY DEF OneHolder, Out, Held, Holding, PoolTyped, LoaderTyped, OutIsCounted
<1>9. OutIsCounted'
  BY DEF OutIsCounted, OneHolder, Out, Held, Holding, PoolTyped, LoaderTyped
<1>10. CountedIsAvailable'
  BY DEF CountedIsAvailable, PutIsOut, OutIsCounted, OneHolder, Out, Held, Holding, PoolTyped,
     LoaderTyped, Place
<1>11. PutIsOut'
  BY DEF PutIsOut, OneHolder, OutIsCounted, Out, Held, Holding, PoolTyped, LoaderTyped
<1>12. PunishedEverywhere'
  BY DEF PunishedEverywhere, OneHolder, OutIsCounted, Out, Held, Holding, PoolTyped, LoaderTyped, Proxies
<1> QED
  BY <1>6, <1>7, <1>8, <1>9, <1>10, <1>11, <1>12 DEF PoolInv

LEMMA GetIpsFailsKeeps ==
  ASSUME PoolInv, GetIpsFails
  PROVE  PoolInv'
<1>0. PoolTyped /\ LoaderTyped /\ OneHolder /\ OutIsCounted /\ CountedIsAvailable /\ PutIsOut /\ PunishedEverywhere
  BY DEF PoolInv
<1>1. /\ loader'.at = "rest" /\ loader'.map = {} /\ loader'.left = 0
      /\ loader' = [at |-> loader'.at, map |-> loader'.map, left |-> loader'.left, addr |-> loader'.addr]
  BY DEF GetIpsFails, Rest
<1> USE <1>0, <1>1, AddrAssumption, Counts DEF GetIpsFails, AddrsOf, Asking, poolVars, threadVars,
        masterVars, historyVars
<1>2. PoolTyped'
  BY DEF PoolTyped, LoaderTyped, Place, Proxies
<1>3. LoaderTyped'
  BY DEF LoaderTyped, PoolTyped, Proxies
<1>4. OneHolder'
  BY DEF OneHolder, Out, Held, Holding, PoolTyped, LoaderTyped, OutIsCounted
<1>5. OutIsCounted'
  BY DEF OutIsCounted, OneHolder, Out, Held, Holding, PoolTyped, LoaderTyped
<1>6. CountedIsAvailable'
  BY DEF CountedIsAvailable, PutIsOut, OutIsCounted, OneHolder, Out, Held, Holding, PoolTyped,
     LoaderTyped, Place
<1>7. PutIsOut'
  BY DEF PutIsOut, OneHolder, OutIsCounted, Out, Held, Holding, PoolTyped, LoaderTyped
<1>8. PunishedEverywhere'
  BY DEF PunishedEverywhere, OneHolder, OutIsCounted, Out, Held, Holding, PoolTyped, LoaderTyped, Proxies
<1> QED
  BY <1>2, <1>3, <1>4, <1>5, <1>6, <1>7, <1>8 DEF PoolInv

LEMMA GetIpsEndsKeeps ==
  ASSUME PoolInv, GetIpsEnds
  PROVE  PoolInv'
<1>0. PoolTyped /\ LoaderTyped /\ OneHolder /\ OutIsCounted /\ CountedIsAvailable /\ PutIsOut /\ PunishedEverywhere
  BY DEF PoolInv
<1>1. loader.at = "asking" /\ loader'.at = "adding" /\ loader'.map = loader.map
      /\ loader'.left = loader.left /\ loader'.addr = loader.addr
      /\ loader' = [at |-> loader'.at, map |-> loader'.map, left |-> loader'.left, addr |-> loader'.addr]
  BY <1>0 DEF GetIpsEnds, LoaderTyped
<1> USE <1>0, <1>1, AddrAssumption, Counts DEF GetIpsEnds, poolVars, threadVars, masterVars, historyVars
<1>2. PoolTyped'
  BY DEF PoolTyped, LoaderTyped, Place, Proxies
<1>3. LoaderTyped'
  BY DEF LoaderTyped, PoolTyped, Proxies
<1>4. OneHolder'
  BY DEF OneHolder, Out, Held, Holding, PoolTyped, LoaderTyped, OutIsCounted
<1>5. OutIsCounted'
  BY DEF OutIsCounted, OneHolder, Out, Held, Holding, PoolTyped, LoaderTyped
<1>6. CountedIsAvailable'
  BY DEF CountedIsAvailable, PutIsOut, OutIsCounted, OneHolder, Out, Held, Holding, PoolTyped,
     LoaderTyped, Place
<1>7. PutIsOut'
  BY DEF PutIsOut, OneHolder, OutIsCounted, Out, Held, Holding, PoolTyped, LoaderTyped
<1>8. PunishedEverywhere'
  BY DEF PunishedEverywhere, OneHolder, OutIsCounted, Out, Held, Holding, PoolTyped, LoaderTyped, Proxies
<1> QED
  BY <1>2, <1>3, <1>4, <1>5, <1>6, <1>7, <1>8 DEF PoolInv

LEMMA AddProxyKeeps ==
  ASSUME PoolInv, NEW p \in loader.map, AddProxy(p)
  PROVE  PoolInv'
<1>0. PoolTyped /\ LoaderTyped /\ OneHolder /\ OutIsCounted /\ CountedIsAvailable /\ PutIsOut /\ PunishedEverywhere
  BY DEF PoolInv
<1>1. /\ loader.at = "adding" /\ loader'.map \subseteq loader.map /\ loader'.left = loader.left
      /\ loader' = [at |-> loader'.at, map |-> loader'.map, left |-> loader'.left, addr |-> loader'.addr]
      /\ IF p.addr \in all THEN loader'.at = "adding" ELSE loader'.at = "putting" /\ loader'.addr = p.addr
  BY <1>0 DEF AddProxy, LoaderTyped
<1>2. p \in Proxies /\ p.addr \in Addr /\ p.fails \in Nat /\ p.deads \in Nat
  BY <1>0 DEF LoaderTyped, Proxies
<1>3. UNCHANGED <<all, revive, threadVars, opened, masterVars, historyVars>>
  BY DEF AddProxy
<1>4. IF p.addr \in all
      THEN UNCHANGED <<idle, fails, deads>>
      ELSE idle' = [idle EXCEPT ![p.addr] = @ + 1] /\ Count(p.addr, p.fails, p.deads)
  BY DEF AddProxy
<1> USE <1>0, <1>1, <1>2, <1>3, <1>4, AddrAssumption, Counts DEF Count, threadVars, masterVars, historyVars
<1>5. PoolTyped'
  BY DEF PoolTyped, LoaderTyped, Place, Proxies
<1>6. LoaderTyped'
  BY DEF LoaderTyped, PoolTyped, Proxies
<1>7. OneHolder'
  BY DEF OneHolder, Out, Held, Holding, PoolTyped, LoaderTyped, OutIsCounted
<1>8. OutIsCounted'
  BY DEF OutIsCounted, OneHolder, Out, Held, Holding, PoolTyped, LoaderTyped
<1>9. CountedIsAvailable'
  BY DEF CountedIsAvailable, PutIsOut, OutIsCounted, OneHolder, Out, Held, Holding, PoolTyped,
     LoaderTyped, Place
<1>10. PutIsOut'
  BY DEF PutIsOut, OneHolder, OutIsCounted, Out, Held, Holding, PoolTyped, LoaderTyped
<1>11. PunishedEverywhere'
  BY DEF PunishedEverywhere, OneHolder, OutIsCounted, Out, Held, Holding, PoolTyped, LoaderTyped, Proxies
<1> QED
  BY <1>5, <1>6, <1>7, <1>8, <1>9, <1>10, <1>11 DEF PoolInv

LEMMA PutProxyKeeps ==
  ASSUME PoolInv, PutProxy
  PROVE  PoolInv'
<1>0. PoolTyped /\ LoaderTyped /\ OneHolder /\ OutIsCounted /\ CountedIsAvailable /\ PutIsOut /\ PunishedEverywhere
  BY DEF PoolInv
<1>1. loader.at = "putting" /\ loader'.at = "adding" /\ loader'.map = loader.map
      /\ loader'.left = loader.left /\ loader'.addr = NoAddr
      /\ loader' = [at |-> loader'.at, map |-> loader'.map, left |-> loader'.left, addr |-> loader'.addr]
  BY <1>0 DEF PutProxy, LoaderTyped
<1> USE <1>0, <1>1, AddrAssumption, Counts DEF PutProxy, poolVars, threadVars, masterVars, historyVars
<1>2. PoolTyped'
  BY DEF PoolTyped, LoaderTyped, Place, Proxies
<1>3. LoaderTyped'
  BY DEF LoaderTyped, PoolTyped, Proxies
<1>4. OneHolder'
  BY DEF OneHolder, Out, Held, Holding, PoolTyped, LoaderTyped, OutIsCounted
<1>5. OutIsCounted'
  BY DEF OutIsCounted, OneHolder, Out, Held, Holding, PoolTyped, LoaderTyped
<1>6. CountedIsAvailable'
  BY DEF CountedIsAvailable, PutIsOut, OutIsCounted, OneHolder, Out, Held, Holding, PoolTyped,
     LoaderTyped, Place
<1>7. PutIsOut'
  BY DEF PutIsOut, OneHolder, OutIsCounted, Out, Held, Holding, PoolTyped, LoaderTyped
<1>8. PunishedEverywhere'
  BY DEF PunishedEverywhere, OneHolder, OutIsCounted, Out, Held, Holding, PoolTyped, LoaderTyped, Proxies
<1> QED
  BY <1>2, <1>3, <1>4, <1>5, <1>6, <1>7, <1>8 DEF PoolInv

LEMMA LoadEndsKeeps ==
  ASSUME PoolInv, LoadEnds
  PROVE  PoolInv'
<1>0. PoolTyped /\ LoaderTyped /\ OneHolder /\ OutIsCounted /\ CountedIsAvailable /\ PutIsOut /\ PunishedEverywhere
  BY DEF PoolInv
<1>1. /\ loader'.at = "rest" /\ loader'.map = {} /\ loader'.left = 0
      /\ loader' = [at |-> loader'.at, map |-> loader'.map, left |-> loader'.left, addr |-> loader'.addr]
  BY DEF LoadEnds, Rest
<1> USE <1>0, <1>1, AddrAssumption, Counts DEF LoadEnds, poolVars, threadVars, masterVars, historyVars
<1>2. PoolTyped'
  BY DEF PoolTyped, LoaderTyped, Place, Proxies
<1>3. LoaderTyped'
  BY DEF LoaderTyped, PoolTyped, Proxies
<1>4. OneHolder'
  BY DEF OneHolder, Out, Held, Holding, PoolTyped, LoaderTyped, OutIsCounted
<1>5. OutIsCounted'
  BY DEF OutIsCounted, OneHolder, Out, Held, Holding, PoolTyped, LoaderTyped
<1>6. CountedIsAvailable'
  BY DEF CountedIsAvailable, PutIsOut, OutIsCounted, OneHolder, Out, Held, Holding, PoolTyped,
     LoaderTyped, Place
<1>7. PutIsOut'
  BY DEF PutIsOut, OneHolder, OutIsCounted, Out, Held, Holding, PoolTyped, LoaderTyped
<1>8. PunishedEverywhere'
  BY DEF PunishedEverywhere, OneHolder, OutIsCounted, Out, Held, Holding, PoolTyped, LoaderTyped, Proxies
<1> QED
  BY <1>2, <1>3, <1>4, <1>5, <1>6, <1>7, <1>8 DEF PoolInv

LEMMA WaitKeeps ==
  ASSUME PoolInv, NEW t \in Thread, Wait(t)
  PROVE  PoolInv'
<1>0. PoolTyped /\ LoaderTyped /\ OneHolder /\ OutIsCounted /\ CountedIsAvailable /\ PutIsOut /\ PunishedEverywhere
  BY DEF PoolInv
<1> USE <1>0, AddrAssumption, Counts DEF Wait, poolVars, threadVars, masterVars, historyVars
<1>2. PoolTyped'
  BY DEF PoolTyped, LoaderTyped, Place, Proxies
<1>3. LoaderTyped'
  BY DEF LoaderTyped, PoolTyped, Proxies
<1>4. OneHolder'
  BY DEF OneHolder, Out, Held, Holding, PoolTyped, LoaderTyped, OutIsCounted
<1>5. OutIsCounted'
  BY DEF OutIsCounted, OneHolder, Out, Held, Holding, PoolTyped, LoaderTyped
<1>6. CountedIsAvailable'
  BY DEF CountedIsAvailable, PutIsOut, OutIsCounted, OneHolder, Out, Held, Holding, PoolTyped,
     LoaderTyped, Place
<1>7. PutIsOut'
  BY DEF PutIsOut, OneHolder, OutIsCounted, Out, Held, Holding, PoolTyped, LoaderTyped
<1>8. PunishedEverywhere'
  BY DEF PunishedEverywhere, OneHolder, OutIsCounted, Out, Held, Holding, PoolTyped, LoaderTyped, Proxies
<1> QED
  BY <1>2, <1>3, <1>4, <1>5, <1>6, <1>7, <1>8 DEF PoolInv

LEMMA StarveKeeps ==
  ASSUME PoolInv, NEW t \in Thread, Starve(t)
  PROVE  PoolInv'
<1>0. PoolTyped /\ LoaderTyped /\ OneHolder /\ OutIsCounted /\ CountedIsAvailable /\ PutIsOut /\ PunishedEverywhere
  BY DEF PoolInv
<1> USE <1>0, AddrAssumption, Counts DEF Starve, poolVars, threadVars, masterVars, historyVars
<1>2. PoolTyped'
  BY DEF PoolTyped, LoaderTyped, Place, Proxies
<1>3. LoaderTyped'
  BY DEF LoaderTyped, PoolTyped, Proxies
<1>4. OneHolder'
  BY DEF OneHolder, Out, Held, Holding, PoolTyped, LoaderTyped, OutIsCounted
<1>5. OutIsCounted'
  BY DEF OutIsCounted, OneHolder, Out, Held, Holding, PoolTyped, LoaderTyped
<1>6. CountedIsAvailable'
  BY DEF CountedIsAvailable, PutIsOut, OutIsCounted, OneHolder, Out, Held, Holding, PoolTyped,
     LoaderTyped, Place
<1>7. PutIsOut'
  BY DEF PutIsOut, OneHolder, OutIsCounted, Out, Held, Holding, PoolTyped, LoaderTyped
<1>8. PunishedEverywhere'
  BY DEF PunishedEverywhere, OneHolder, OutIsCounted, Out, Held, Holding, PoolTyped, LoaderTyped, Proxies
<1> QED
  BY <1>2, <1>3, <1>4, <1>5, <1>6, <1>7, <1>8 DEF PoolInv

LEMMA TakeKeeps ==
  ASSUME PoolInv, NEW t \in Thread, NEW a \in Addr, Take(t, a)
  PROVE  PoolInv'
<1>0. PoolTyped /\ LoaderTyped /\ OneHolder /\ OutIsCounted /\ CountedIsAvailable /\ PutIsOut /\ PunishedEverywhere
  BY DEF PoolInv
<1> USE <1>0, AddrAssumption, Counts DEF Take, FailWith, Leave, poolVars, threadVars, masterVars, historyVars
<1>2. PoolTyped'
  BY DEF PoolTyped, LoaderTyped, Place, Proxies
<1>3. LoaderTyped'
  BY DEF LoaderTyped, PoolTyped, Proxies
<1>4. OneHolder'
  BY DEF OneHolder, Out, Held, Holding, PoolTyped, LoaderTyped, OutIsCounted
<1>5. OutIsCounted'
  BY DEF OutIsCounted, OneHolder, Out, Held, Holding, PoolTyped, LoaderTyped
<1>6. CountedIsAvailable'
  BY DEF CountedIsAvailable, PutIsOut, OutIsCounted, OneHolder, Out, Held, Holding, PoolTyped,
     LoaderTyped, Place
<1>7. PutIsOut'
  BY DEF PutIsOut, OneHolder, OutIsCounted, Out, Held, Holding, PoolTyped, LoaderTyped
<1>8. PunishedEverywhere'
  BY DEF PunishedEverywhere, OneHolder, OutIsCounted, Out, Held, Holding, PoolTyped, LoaderTyped, Proxies
<1> QED
  BY <1>2, <1>3, <1>4, <1>5, <1>6, <1>7, <1>8 DEF PoolInv

LEMMA TookKeeps ==
  ASSUME PoolInv, NEW t \in Thread, Took(t)
  PROVE  PoolInv'
<1>0. PoolTyped /\ LoaderTyped /\ OneHolder /\ OutIsCounted /\ CountedIsAvailable /\ PutIsOut /\ PunishedEverywhere
  BY DEF PoolInv
<1> USE <1>0, AddrAssumption, Counts DEF Took, FailWith, Leave, poolVars, threadVars, masterVars, historyVars
<1>2. PoolTyped'
  BY DEF PoolTyped, LoaderTyped, Place, Proxies
<1>3. LoaderTyped'
  BY DEF LoaderTyped, PoolTyped, Proxies
<1>4. OneHolder'
  BY DEF OneHolder, Out, Held, Holding, PoolTyped, LoaderTyped, OutIsCounted
<1>5. OutIsCounted'
  BY DEF OutIsCounted, OneHolder, Out, Held, Holding, PoolTyped, LoaderTyped
<1>6. CountedIsAvailable'
  BY DEF CountedIsAvailable, PutIsOut, OutIsCounted, OneHolder, Out, Held, Holding, PoolTyped,
     LoaderTyped, Place
<1>7. PutIsOut'
  BY DEF PutIsOut, OneHolder, OutIsCounted, Out, Held, Holding, PoolTyped, LoaderTyped
<1>8. PunishedEverywhere'
  BY DEF PunishedEverywhere, OneHolder, OutIsCounted, Out, Held, Holding, PoolTyped, LoaderTyped, Proxies
<1> QED
  BY <1>2, <1>3, <1>4, <1>5, <1>6, <1>7, <1>8 DEF PoolInv

LEMMA DeleteKeeps ==
  ASSUME PoolInv, NEW t \in Thread, Delete(t)
  PROVE  PoolInv'
<1>0. PoolTyped /\ LoaderTyped /\ OneHolder /\ OutIsCounted /\ CountedIsAvailable /\ PutIsOut /\ PunishedEverywhere
  BY DEF PoolInv
<1> USE <1>0, AddrAssumption, Counts DEF Delete, Leave, poolVars, threadVars, masterVars, historyVars
<1>2. PoolTyped'
  BY DEF PoolTyped, LoaderTyped, Place, Proxies
<1>3. LoaderTyped'
  BY DEF LoaderTyped, PoolTyped, Proxies
<1>4. OneHolder'
  BY DEF OneHolder, Out, Held, Holding, PoolTyped, LoaderTyped, OutIsCounted
<1>5. OutIsCounted'
  BY DEF OutIsCounted, OneHolder, Out, Held, Holding, PoolTyped, LoaderTyped
<1>6. CountedIsAvailable'
  BY DEF CountedIsAvailable, PutIsOut, OutIsCounted, OneHolder, Out, Held, Holding, PoolTyped,
     LoaderTyped, Place
<1>7. PutIsOut'
  BY DEF PutIsOut, OneHolder, OutIsCounted, Out, Held, Holding, PoolTyped, LoaderTyped
<1>8. PunishedEverywhere'
  BY DEF PunishedEverywhere, OneHolder, OutIsCounted, Out, Held, Holding, PoolTyped, LoaderTyped, Proxies
<1> QED
  BY <1>2, <1>3, <1>4, <1>5, <1>6, <1>7, <1>8 DEF PoolInv

LEMMA ReleaseKeeps ==
  ASSUME PoolInv, Release
  PROVE  PoolInv'
<1>0. PoolTyped /\ LoaderTyped /\ OneHolder /\ OutIsCounted /\ CountedIsAvailable /\ PutIsOut /\ PunishedEverywhere
  BY DEF PoolInv
<1> USE <1>0, AddrAssumption, Counts DEF Release, poolVars, threadVars, masterVars, historyVars
<1>2. PoolTyped'
  BY DEF PoolTyped, LoaderTyped, Place, Proxies
<1>3. LoaderTyped'
  BY DEF LoaderTyped, PoolTyped, Proxies
<1>4. OneHolder'
  BY DEF OneHolder, Out, Held, Holding, PoolTyped, LoaderTyped, OutIsCounted
<1>5. OutIsCounted'
  BY DEF OutIsCounted, OneHolder, Out, Held, Holding, PoolTyped, LoaderTyped
<1>6. CountedIsAvailable'
  BY DEF CountedIsAvailable, PutIsOut, OutIsCounted, OneHolder, Out, Held, Holding, PoolTyped,
     LoaderTyped, Place
<1>7. PutIsOut'
  BY DEF PutIsOut, OneHolder, OutIsCounted, Out, Held, Holding, PoolTyped, LoaderTyped
<1>8. PunishedEverywhere'
  BY DEF PunishedEverywhere, OneHolder, OutIsCounted, Out, Held, Holding, PoolTyped, LoaderTyped, Proxies
<1> QED
  BY <1>2, <1>3, <1>4, <1>5, <1>6, <1>7, <1>8 DEF PoolInv

LEMMA PutBackKeeps ==
  ASSUME PoolInv, NEW t \in Thread, Found(t), NEW f \in Nat, NEW d \in Nat, f > FailedTimes => d > 0,
         PutBack(t, f, d), UNCHANGED <<loader, opened, masterVars, historyVars>>
  PROVE  PoolInv'
<1>0. PoolTyped /\ LoaderTyped /\ OneHolder /\ OutIsCounted /\ CountedIsAvailable /\ PutIsOut /\ PunishedEverywhere
  BY DEF PoolInv
<1> USE <1>0, AddrAssumption, Counts DEF Found, PutBack, Count, Leave, poolVars, threadVars,
        masterVars, historyVars
<1>2. PoolTyped'
  BY DEF PoolTyped, LoaderTyped, Place, Proxies
<1>3. LoaderTyped'
  BY DEF LoaderTyped, PoolTyped, Proxies
<1>4. OneHolder'
  BY DEF OneHolder, Out, Held, Holding, PoolTyped, LoaderTyped, OutIsCounted
<1>5. OutIsCounted'
  BY DEF OutIsCounted, OneHolder, Out, Held, Holding, PoolTyped, LoaderTyped
<1>6. CountedIsAvailable'
  BY DEF CountedIsAvailable, PutIsOut, OutIsCounted, OneHolder, Out, Held, Holding, PoolTyped,
     LoaderTyped, Place
<1>7. PutIsOut'
  BY DEF PutIsOut, OneHolder, OutIsCounted, Out, Held, Holding, PoolTyped, LoaderTyped
<1>8. PunishedEverywhere'
  BY DEF PunishedEverywhere, OneHolder, OutIsCounted, Out, Held, Holding, PoolTyped, LoaderTyped, Proxies
<1> QED
  BY <1>2, <1>3, <1>4, <1>5, <1>6, <1>7, <1>8 DEF PoolInv

LEMMA RemoveKeeps ==
  ASSUME PoolInv, NEW t \in Thread, Found(t), Remove(t), UNCHANGED <<loader, opened, masterVars, historyVars>>
  PROVE  PoolInv'
<1>0. PoolTyped /\ LoaderTyped /\ OneHolder /\ OutIsCounted /\ CountedIsAvailable /\ PutIsOut /\ PunishedEverywhere
  BY DEF PoolInv
<1> USE <1>0, AddrAssumption, Counts DEF Found, Remove, Count, poolVars, threadVars, masterVars, historyVars
<1>2. PoolTyped'
  BY DEF PoolTyped, LoaderTyped, Place, Proxies
<1>3. LoaderTyped'
  BY DEF LoaderTyped, PoolTyped, Proxies
<1>4. OneHolder'
  BY DEF OneHolder, Out, Held, Holding, PoolTyped, LoaderTyped, OutIsCounted
<1>5. OutIsCounted'
  BY DEF OutIsCounted, OneHolder, Out, Held, Holding, PoolTyped, LoaderTyped
<1>6. CountedIsAvailable'
  BY DEF CountedIsAvailable, PutIsOut, OutIsCounted, OneHolder, Out, Held, Holding, PoolTyped,
     LoaderTyped, Place
<1>7. PutIsOut'
  BY DEF PutIsOut, OneHolder, OutIsCounted, Out, Held, Holding, PoolTyped, LoaderTyped
<1>8. PunishedEverywhere'
  BY DEF PunishedEverywhere, OneHolder, OutIsCounted, Out, Held, Holding, PoolTyped, LoaderTyped, Proxies
<1> QED
  BY <1>2, <1>3, <1>4, <1>5, <1>6, <1>7, <1>8 DEF PoolInv

LEMMA PunishKeeps ==
  ASSUME PoolInv, NEW t \in Thread, Found(t), NEW f \in Nat, Punish(t, f),
         UNCHANGED <<loader, opened, masterVars, historyVars>>
  PROVE  PoolInv'
<1>0. PoolTyped /\ LoaderTyped /\ OneHolder /\ OutIsCounted /\ CountedIsAvailable /\ PutIsOut /\ PunishedEverywhere
  BY DEF PoolInv
<1> USE <1>0, AddrAssumption, Counts DEF Found, Punish, Count, Leave, Proxy, poolVars, threadVars,
        masterVars, historyVars
<1>2. PoolTyped'
  BY DEF PoolTyped, LoaderTyped, Place, Proxies
<1>3. LoaderTyped'
  BY DEF LoaderTyped, PoolTyped, Proxies
<1>4. OneHolder'
  BY DEF OneHolder, Out, Held, Holding, PoolTyped, LoaderTyped, OutIsCounted
<1>5. OutIsCounted'
  BY DEF OutIsCounted, OneHolder, Out, Held, Holding, PoolTyped, LoaderTyped
<1>6. CountedIsAvailable'
  BY DEF CountedIsAvailable, PutIsOut, OutIsCounted, OneHolder, Out, Held, Holding, PoolTyped,
     LoaderTyped, Place
<1>7. PutIsOut'
  BY DEF PutIsOut, OneHolder, OutIsCounted, Out, Held, Holding, PoolTyped, LoaderTyped
<1>8. PunishedEverywhere'
  BY DEF PunishedEverywhere, OneHolder, OutIsCounted, Out, Held, Holding, PoolTyped, LoaderTyped, Proxies
<1> QED
  BY <1>2, <1>3, <1>4, <1>5, <1>6, <1>7, <1>8 DEF PoolInv

LEMMA ReturnKeeps ==
  ASSUME PoolInv, NEW t \in Thread, ReturnStep(t)
  PROVE  PoolInv'
<1>0. FailedTimes \in Nat /\ (Found(t) => hold[t] \in Addr /\ fails[hold[t]] \in Nat /\ deads[hold[t]] \in Nat)
  BY Counts DEF PoolInv, PoolTyped, Found
<1>1. CASE ReturnSuccess(t)
  <2>1. 0 \in Nat /\ (0 > FailedTimes => 0 > 0)
    BY <1>0
  <2>2. Found(t) /\ PutBack(t, 0, 0) /\ UNCHANGED <<loader, opened, masterVars, historyVars>>
    BY <1>1 DEF ReturnSuccess
  <2> QED
    BY <2>1, <2>2, PutBackKeeps
<1>2. CASE ReturnBanned(t)
  BY <1>0, <1>2, PunishKeeps DEF ReturnBanned
<1>3. CASE ReturnInvalid(t)
  BY <1>3, RemoveKeeps DEF ReturnInvalid
<1>4. ASSUME NEW counted \in BOOLEAN, ReturnFailed(t, counted)
      PROVE  PoolInv'
  <2> DEFINE f == fails[hold[t]] + (IF counted THEN 1 ELSE 0)
  <2>1. Found(t) /\ f \in Nat /\ UNCHANGED <<loader, opened, masterVars, historyVars>>
    BY <1>0, <1>4 DEF ReturnFailed
  <2>2. \/ f <= FailedTimes /\ PutBack(t, f, deads[hold[t]])
        \/ Punish(t, f)
        \/ Remove(t)
    BY <1>4 DEF ReturnFailed, Tolerated
  <2> HIDE DEF f
  <2>3. CASE f <= FailedTimes /\ PutBack(t, f, deads[hold[t]])
    <3>1. deads[hold[t]] \in Nat /\ (f > FailedTimes => deads[hold[t]] > 0)
      BY <1>0, <2>1, <2>3
    <3> QED
      BY <2>1, <2>3, <3>1, PutBackKeeps
  <2>4. CASE Punish(t, f)
    BY <2>1, <2>4, PunishKeeps
  <2>5. CASE Remove(t)
    BY <2>1, <2>5, RemoveKeeps
  <2> QED
    BY <2>2, <2>3, <2>4, <2>5
<1>5. CASE Delete(t)
  BY <1>5, DeleteKeeps
<1> QED
  BY <1>1, <1>2, <1>3, <1>4, <1>5 DEF ReturnStep

LEMMA PoolKept ==
  ASSUME PoolInv, [ProxyNext]_proxyVars
  PROVE  PoolInv'
<1>1. CASE UNCHANGED proxyVars
  BY <1>1 DEF proxyVars, poolVars, threadVars, masterVars, historyVars, PoolInv, PoolTyped,
     LoaderTyped, OneHolder,
              OutIsCounted, CountedIsAvailable, PutIsOut, PunishedEverywhere, Out, Held, Holding
<1>2. ASSUME NEW t \in Thread, Wait(t) \/ Starve(t) \/ TakeStep(t)
      PROVE  PoolInv'
  BY <1>2, WaitKeeps, StarveKeeps, TakeKeeps, TookKeeps DEF TakeStep
<1>3. CASE LoadStep
  <2>1. ASSUME NEW p \in loader.map, AddProxy(p)
        PROVE  PoolInv'
    BY <2>1, AddProxyKeeps
  <2> QED
    BY <1>3, <2>1, GetIpsKeeps, GetIpsFailsKeeps, GetIpsEndsKeeps, PutProxyKeeps, LoadEndsKeeps DEF LoadStep
<1>4. ASSUME NEW expired \in SUBSET revive, CheckProxyCount(expired)
      PROVE  PoolInv'
  BY <1>4, CheckProxyCountKeeps
<1>5. CASE Release
  BY <1>5, ReleaseKeeps
<1> QED
  BY <1>1, <1>2, <1>3, <1>4, <1>5, ReturnKeeps DEF ProxyNext

LEMMA PoolInvHolds == ProxySpec => []PoolInv
<1>1. PoolInv /\ [ProxyNext]_proxyVars => PoolInv'
  BY PoolKept
<1> QED
  BY <1>1, PoolInitially, PTL DEF ProxySpec

-----------------------------------------------------------------------------
(* The requests: every step of the downloader is one of the pool or leaves *)
(* the pool alone.                                                         *)

LEMMA StepOfPool == [Next]_vars => [ProxyNext]_proxyVars
<1> SUFFICES ASSUME [Next]_vars PROVE [ProxyNext]_proxyVars
  OBVIOUS
<1>1. CASE UNCHANGED vars
  BY <1>1 DEF vars
<1>2. ASSUME NEW t \in Thread, TakeConn(t) \/ RetireConn(t) \/ ReturnConn(t)
      PROVE  UNCHANGED proxyVars
  BY <1>2 DEF TakeConn, RetireConn, ReturnConn
<1>3. ASSUME NEW t \in Thread, AskAddress(t) \/ GetAddress(t) \/ Download(t) \/ TellMaster(t)
      PROVE  ProxyNext
  <2>1. Wait(t) \/ Starve(t) \/ TakeStep(t) \/ ReturnStep(t)
    BY <1>3, Zenon DEF AskAddress, GetAddress, Download, TellMaster, ReturnStep
  <2> QED
    BY <2>1 DEF ProxyNext
<1>4. CASE LoadConns
  BY <1>4 DEF LoadConns
<1>5. CASE Load
  BY <1>5 DEF Load, ProxyNext
<1>6. ASSUME NEW expired \in SUBSET revive, Reload(expired)
      PROVE  ProxyNext
  BY <1>6 DEF Reload, ProxyNext
<1>7. CASE Release
  BY <1>7 DEF ProxyNext
<1>8. ASSUME NEW done \in SUBSET retired, ResetHour(done) /\ UNCHANGED <<proxyVars, requestVars>>
      PROVE  UNCHANGED proxyVars
  BY <1>8
<1> QED
  BY <1>1, <1>2, <1>3, <1>4, <1>5, <1>6, <1>7, <1>8, Zenon DEF Next

\* Seen from the address pool, the requests behave as the pool's own
\* specification lets threads behave: they take, use and return addresses in no
\* other order (StatusFulDownloader.java:66-170).
THEOREM DownloaderUsesPool == Spec => ProxySpec
<1>1. Init => ProxyInit
  BY DEF Init
<1> QED
  BY <1>1, StepOfPool, PTL DEF Spec, ProxySpec

-----------------------------------------------------------------------------
(* The connections.                                                        *)

\* Every connection that is somewhere was loaded once; a request on its way
\* through the pool, or with a code, has one.
ConnInv ==
  /\ tried \subseteq Account /\ queued \subseteq tried /\ retired \subseteq tried /\ wait4Login \subseteq tried
  /\ connOpened \in BOOLEAN /\ hourly \in BOOLEAN
  /\ borrowNum \in [Account -> 0..MaxVisit]
  /\ conn \in [Thread -> Account \cup {NoConn}] /\ code \in [Thread -> Code \cup {"open"}]
  /\ \A t \in Thread : conn[t] # NoConn => conn[t] \in tried
  /\ \A t \in Thread : pc[t] # "idle" \/ code[t] # "open" => conn[t] # NoConn
  /\ ConnInOnePlace

LEMMA ConnInitially == Init => ConnInv
<1> SUFFICES ASSUME Init PROVE ConnInv
  OBVIOUS
<1>1. 0 \in 0 .. MaxVisit
  BY ConnAssumption
<1>2. borrowNum \in [Account -> 0..MaxVisit]
  BY <1>1 DEF Init, ConnInit
<1> QED
  BY <1>2, NoConnAssumption DEF Init, ConnInit, ProxyInit, ConnInv, ConnInOnePlace, Code

LEMMA ConnKept ==
  ASSUME ConnInv, PoolTyped, [Next]_vars
  PROVE  ConnInv'
<1>0. MaxVisit \in Nat
  BY ConnAssumption
<1> USE <1>0, NoConnAssumption DEF ConnInv, ConnInOnePlace, Code, connPoolVars, requestVars,
        proxyVars, threadVars
<1>1. CASE UNCHANGED vars
  BY <1>1 DEF vars
<1>2. ASSUME NEW t \in Thread, TakeConn(t)
      PROVE  ConnInv'
  <2>1. PICK c \in Account : Borrow(c) /\ conn' = [conn EXCEPT ![t] = c]
    BY <1>2 DEF TakeConn
  <2>2. borrowNum' \in [Account -> 0..MaxVisit]
    BY <2>1 DEF Borrow, IsValid
  <2> QED
    BY <1>2, <2>1, <2>2 DEF TakeConn, Borrow, Between
<1>3. ASSUME NEW t \in Thread, RetireConn(t)
      PROVE  ConnInv'
  BY <1>3 DEF RetireConn, Retire, Between
<1>4. ASSUME NEW t \in Thread, AskAddress(t)
      PROVE  ConnInv'
  BY <1>4 DEF AskAddress, Wait, PoolTyped
<1>5. ASSUME NEW t \in Thread, GetAddress(t)
      PROVE  ConnInv'
  BY <1>5 DEF GetAddress, Starve, TakeStep, Take, Took, FailWith, Leave, PoolTyped
<1>6. ASSUME NEW t \in Thread, Download(t)
      PROVE  ConnInv'
  <2>1. /\ UNCHANGED <<connPoolVars, conn>> /\ pc[t] = "using"
        /\ \E k \in Code : code' = [code EXCEPT ![t] = k]
    BY <1>6 DEF Download, ReturnSuccess, ReturnFailed, ReturnInvalid, ReturnBanned, Found
  <2>2. \A s \in Thread : s # t => pc'[s] = pc[s]
    BY <1>6 DEF Download, ReturnSuccess, ReturnFailed, ReturnInvalid, ReturnBanned, PutBack, Punish,
       Remove, Leave, PoolTyped
  <2> QED
    BY <2>1, <2>2
<1>7. ASSUME NEW t \in Thread, TellMaster(t)
      PROVE  ConnInv'
  BY <1>7 DEF TellMaster, Delete, Leave, PoolTyped
<1>8. ASSUME NEW t \in Thread, ReturnConn(t)
      PROVE  ConnInv'
  BY <1>8 DEF ReturnConn, GiveBack
<1>9. CASE LoadConns
  <2>1. ASSUME NEW c \in Account, LoadAccount(c)
        PROVE  ConnInv'
    <3>1. /\ c \notin tried /\ tried' = tried \cup {c} /\ (queued' = queued \/ queued' = queued \cup {c})
          /\ UNCHANGED <<connOpened, retired, wait4Login, borrowNum, hourly>>
      BY <2>1 DEF LoadAccount
    <3>2. UNCHANGED <<proxyVars, requestVars>>
      BY <1>9 DEF LoadConns
    <3> QED
      BY <3>1, <3>2
  <2>2. CASE LoadAccountsEnds
    BY <1>9, <2>2 DEF LoadConns, LoadAccountsEnds
  <2> QED
    BY <1>9, <2>1, <2>2 DEF LoadConns
<1>10. CASE Load
  BY <1>10 DEF Load, LoadStep, GetIps, GetIpsFails, GetIpsEnds, AddProxy, PutProxy, LoadEnds
<1>11. ASSUME NEW expired \in SUBSET revive, Reload(expired)
       PROVE  ConnInv'
  BY <1>11 DEF Reload, CheckProxyCount
<1>12. CASE Release /\ UNCHANGED <<connPoolVars, requestVars>>
  BY <1>12 DEF Release
<1>13. ASSUME NEW done \in SUBSET retired, ResetHour(done) /\ UNCHANGED <<proxyVars, requestVars>>
       PROVE  ConnInv'
  BY <1>13 DEF ResetHour
<1> QED
  BY <1>1, <1>2, <1>3, <1>4, <1>5, <1>6, <1>7, <1>8, <1>9, <1>10, <1>11, <1>12, <1>13, Zenon DEF Next

-----------------------------------------------------------------------------
(* The theorems.                                                           *)

LEMMA InvHolds == Spec => [](PoolInv /\ ConnInv)
<1>1. Spec => []PoolInv
  BY DownloaderUsesPool, PoolInvHolds, PTL
<1>2. PoolInv => PoolTyped
  BY DEF PoolInv
<1>3. ConnInv /\ PoolTyped /\ [Next]_vars => ConnInv'
  BY ConnKept
<1> QED
  BY <1>1, <1>2, <1>3, ConnInitially, PTL DEF Spec

\* The state of the pools and of the requests is always well formed.
THEOREM DownloaderTypeCorrect == Spec => []TypeOK
<1>1. PoolInv /\ ConnInv => TypeOK
  <2> SUFFICES ASSUME PoolInv, ConnInv PROVE TypeOK
    OBVIOUS
  <2>1. ProxyTypeOK
    BY Zenon DEF PoolInv, PoolTyped, LoaderTyped, Proxies, ProxyTypeOK
  <2> QED
    BY <2>1 DEF ConnInv, TypeOK
<1> QED
  BY <1>1, InvHolds, PTL

\* No address is twice in the queue and the requests, although the pool takes
\* no lock (LmdnaProxyPool.java:174, 195, 338), for any number of threads.
THEOREM AddressHasOneHolder == Spec => []OneHolder
<1>1. PoolInv => OneHolder
  BY DEF PoolInv
<1> QED
  BY <1>1, InvHolds, PTL

\* An address that is counted is in the queue or in a request, unless a failing
\* getProxy lost it (LmdnaProxyPool.java:81, 105, 211).
THEOREM CountedAreAvailable == Spec => []CountedIsAvailable
<1>1. PoolInv => CountedIsAvailable
  BY DEF PoolInv
<1> QED
  BY <1>1, InvHolds, PTL

\* An address beyond its limit of failures is in use only after a punishment
\* (LmdnaProxyPool.java:302-334), for any limits.
THEOREM OverLimitMeansPunished == Spec => []OverLimitWasPunished
<1>1. PoolInv => OverLimitWasPunished
  BY DEF PoolInv, PunishedEverywhere, Out, Held, Holding, OverLimitWasPunished
<1> QED
  BY <1>1, InvHolds, PTL

\* A connection is in one request or in one collection of its pool
\* (LmdnaStatusfulConnectionPool.java:172, 200, 205, 210).
THEOREM ConnectionInOnePlace == Spec => []ConnInOnePlace
<1>1. ConnInv => ConnInOnePlace
  BY DEF ConnInv
<1> QED
  BY <1>1, InvHolds, PTL
=============================================================================
