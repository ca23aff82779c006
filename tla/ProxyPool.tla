----------------------------- MODULE ProxyPool -----------------------------
(***************************************************************************)
(* The pool of proxy addresses of one spider on a follower                 *)
(* (LmdnaProxyPool): the worker threads take an address for a request and  *)
(* return it with the request's status; a timer thread refills the pool    *)
(* with the addresses whose punishment is over and with new ones that the  *)
(* master lends.                                                           *)
(*                                                                         *)
(* The pool takes no lock.  A step is what a thread does between two       *)
(* accesses to the shared collections: allProxy (all), proxyQueue (idle)   *)
(* and reviveProxyQueue (revive).  A delay queue hands out an entry at any *)
(* time after it was put there.                                            *)
(* A Bad... definition is a faulty variant of the one that follows it.     *)
(***************************************************************************)
EXTENDS Naturals, FiniteSets

CONSTANTS
  Addr,
  Thread,            \* the spider's worker threads
  NoAddr,
  ProxyIpCount,      \* websiteConfig: the least number of addresses
  ProxyIpLoadCount,  \* websiteConfig: how many are fetched at a time
  FailedTimes,       \* websiteConfig: failures in a row that are tolerated
  DeadTimes,         \* websiteConfig: punishments before the blacklist
  MaxDeads,          \* bound: bans of one address without a success between
  MaxRelease         \* bound: times the master takes this machine for dead

ASSUME AddrAssumption == NoAddr \notin Addr /\ IsFiniteSet(Addr)
ASSUME CountAssumption ==
  {ProxyIpCount, ProxyIpLoadCount, FailedTimes, DeadTimes, MaxDeads, MaxRelease} \subseteq Nat

VARIABLES
  all,       \* keys of allProxy
  idle,      \* how often each address is in proxyQueue
  fails,     \* failedNum and
  deads,     \* deadNum of the object that allProxy has for an address, else 0
  revive,    \* objects in reviveProxyQueue
  pc,        \* where each worker thread is
  hold,      \* the address it has
  loader,    \* loadProxy, as far as it has come
  opened,    \* the constructor has returned: the spider's threads run
  lent,      \* addresses that the master counts as lent to this machine
  gone,      \* addresses that it has deleted or put on the blacklist
  releases,  \* how often it has taken the machine for dead
  stray,     \* history: addresses in allProxy that a failing getProxy lost
  lost       \* history: lent addresses that the pool has forgotten

poolVars == <<all, idle, fails, deads, revive>>
threadVars == <<pc, hold>>
masterVars == <<lent, gone, releases>>
historyVars == <<stray, lost>>
proxyVars == <<poolVars, threadVars, loader, opened, masterVars, historyVars>>

\* An LmdnaProxy outside allProxy.
Proxy(a, f, d) == [addr |-> a, fails |-> f, deads |-> d]
Fresh(a) == Proxy(a, 0, 0)
AddrsOf(ps) == {p.addr : p \in ps}

Count(a, f, d) == fails' = [fails EXCEPT ![a] = f] /\ deads' = [deads EXCEPT ![a] = d]

Rest == [at |-> "rest", map |-> {}, left |-> 0, addr |-> NoAddr]

\* The constructor loads ProxyIpCount addresses before it returns.
ProxyInit ==
  /\ all = {} /\ idle = [a \in Addr |-> 0]
  /\ fails = [a \in Addr |-> 0] /\ deads = [a \in Addr |-> 0]
  /\ revive = {}
  /\ pc = [t \in Thread |-> "idle"] /\ hold = [t \in Thread |-> NoAddr]
  /\ loader = [at |-> "asking", map |-> {}, left |-> ProxyIpCount, addr |-> NoAddr]
  /\ opened = FALSE
  /\ lent = {} /\ gone = {} /\ releases = 0
  /\ stray = {} /\ lost = {}

-----------------------------------------------------------------------------
(* loadProxy: the constructor, then the timer.                             *)

BadShort == Cardinality(all \cup AddrsOf(revive)) < ProxyIpCount
Short == Cardinality(all) < ProxyIpCount

\* The entries of reviveProxyQueue whose delay is over move to a local map.
CheckProxyCount(expired) ==
  /\ loader.at = "rest" /\ opened /\ Short
  /\ expired \subseteq revive
  /\ revive' = revive \ expired
  /\ loader' = [at |-> "asking", map |-> expired, left |-> ProxyIpLoadCount, addr |-> NoAddr]
  /\ UNCHANGED <<all, idle, fails, deads, threadVars, opened, masterVars, historyVars>>

Asking == loader.at = "asking" /\ loader.left > 0

\* getIps: the master lends addresses, of which those in the pool are skipped.
\* One whose object was revived is replaced by a new object.
GetIps ==
  \E rows \in SUBSET (Addr \ (lent \cup gone)) :
     LET new == rows \ all IN
     /\ Asking /\ rows # {} /\ Cardinality(rows) <= loader.left
     /\ lent' = lent \cup rows
     /\ loader' = [loader EXCEPT !.map = {p \in @ : p.addr \notin new} \cup {Fresh(a) : a \in new},
                                 !.left = @ - Cardinality(new)]
     /\ lost' = lost \ rows
     /\ UNCHANGED <<poolVars, threadVars, opened, gone, releases, stray>>

\* The call throws: what the local map has is in no collection any more.  After
\* the constructor's attempt the pool opens all the same.
GetIpsFails ==
  /\ Asking
  /\ lost' = lost \cup AddrsOf(loader.map)
  /\ loader' = Rest /\ opened' = TRUE
  /\ UNCHANGED <<poolVars, threadVars, masterVars, stray>>

\* All were fetched, or the master has no more.
GetIpsEnds ==
  /\ loader.at = "asking"
  /\ loader.left > 0 => Addr \subseteq lent \cup gone
  /\ loader' = [loader EXCEPT !.at = "adding"]
  /\ UNCHANGED <<poolVars, threadVars, opened, masterVars, historyVars>>

BadAddUnchecked(p) ==
  /\ loader.at = "adding" /\ p \in loader.map
  /\ idle' = [idle EXCEPT ![p.addr] = @ + 1]
  /\ Count(p.addr, p.fails, p.deads)
  /\ loader' = [loader EXCEPT !.at = "putting", !.map = @ \ {p}, !.addr = p.addr]
  /\ UNCHANGED <<all, revive, threadVars, opened, masterVars, historyVars>>

\* addProxy, the next entry: one in allProxy is passed over, another is queued
\* first and entered in allProxy in a step of its own.
AddProxy(p) ==
  /\ loader.at = "adding" /\ p \in loader.map
  /\ IF p.addr \in all
     THEN /\ loader' = [loader EXCEPT !.map = @ \ {p}]
          /\ UNCHANGED <<idle, fails, deads>>
     ELSE /\ idle' = [idle EXCEPT ![p.addr] = @ + 1]
          /\ Count(p.addr, p.fails, p.deads)
          /\ loader' = [loader EXCEPT !.at = "putting", !.map = @ \ {p}, !.addr = p.addr]
  /\ UNCHANGED <<all, revive, threadVars, opened, masterVars, historyVars>>

PutProxy ==
  /\ loader.at = "putting"
  /\ all' = all \cup {loader.addr}
  /\ loader' = [loader EXCEPT !.at = "adding", !.addr = NoAddr]
  /\ UNCHANGED <<idle, fails, deads, revive, threadVars, opened, masterVars, historyVars>>

LoadEnds ==
  /\ loader.at = "adding" /\ loader.map = {}
  /\ loader' = Rest /\ opened' = TRUE
  /\ UNCHANGED <<poolVars, threadVars, masterVars, historyVars>>

-----------------------------------------------------------------------------
(* getProxy.                                                               *)

\* A thread has a request and waits for an address.
Wait(t) ==
  /\ opened /\ pc[t] = "idle"
  /\ pc' = [pc EXCEPT ![t] = "waiting"]
  /\ UNCHANGED <<poolVars, hold, loader, opened, masterVars, historyVars>>

\* It has waited more than reuseInterval seconds, a thousand times the delay of
\* an entry, which takes a queue that stays empty.
Starve(t) ==
  /\ pc[t] = "waiting" /\ \A a \in Addr : idle[a] = 0
  /\ pc' = [pc EXCEPT ![t] = "starving"]
  /\ UNCHANGED <<poolVars, hold, loader, opened, masterVars, historyVars>>

BadLeave(t) == pc' = [pc EXCEPT ![t] = "idle"] /\ UNCHANGED hold
Leave(t) == pc' = [pc EXCEPT ![t] = "idle"] /\ hold' = [hold EXCEPT ![t] = NoAddr]

\* The thread fails with the address in its hands; it stays in allProxy, if it
\* is or as soon as it is there.
FailWith(t, a) == Leave(t) /\ stray' = stray \cup {a}

\* proxyQueue.take.  After too long a wait the cost in seconds, a double, is
\* formatted with %d, which throws.
Take(t, a) ==
  /\ pc[t] \in {"waiting", "starving"} /\ idle[a] > 0
  /\ idle' = [idle EXCEPT ![a] = @ - 1]
  /\ IF pc[t] = "starving"
     THEN FailWith(t, a)
     ELSE /\ pc' = [pc EXCEPT ![t] = "took"] /\ hold' = [hold EXCEPT ![t] = a]
          /\ UNCHANGED stray
  /\ UNCHANGED <<all, fails, deads, revive, loader, opened, masterVars, lost>>

\* The address's object is looked up in allProxy: null, and a
\* NullPointerException, between the two steps of addProxy.
Took(t) ==
  /\ pc[t] = "took"
  /\ IF hold[t] \in all
     THEN pc' = [pc EXCEPT ![t] = "using"] /\ UNCHANGED <<hold, stray>>
     ELSE FailWith(t, hold[t])
  /\ UNCHANGED <<poolVars, loader, opened, masterVars, lost>>

-----------------------------------------------------------------------------
(* returnProxy.  An address that is not in allProxy would be dropped       *)
(* silently; Found says that the code never meets one.                     *)

Found(t) == pc[t] = "using" /\ hold[t] \in all

PutBack(t, f, d) ==
  /\ idle' = [idle EXCEPT ![hold[t]] = @ + 1] /\ Count(hold[t], f, d)
  /\ Leave(t)
  /\ UNCHANGED <<all, revive>>

\* Out of allProxy; the master is told in a step of its own.
Remove(t) ==
  /\ all' = all \ {hold[t]} /\ Count(hold[t], 0, 0)
  /\ pc' = [pc EXCEPT ![t] = "deleting"]
  /\ UNCHANGED <<hold, idle, revive>>

\* dead, out of allProxy and into reviveProxyQueue, from which nobody can poll
\* it yet, so that the two updates are one step.
Punish(t, f) ==
  /\ all' = all \ {hold[t]} /\ Count(hold[t], 0, 0)
  /\ revive' = revive \cup {Proxy(hold[t], f, deads[hold[t]] + 1)}
  /\ Leave(t)
  /\ UNCHANGED idle

ReturnSuccess(t) ==
  /\ Found(t) /\ PutBack(t, 0, 0)
  /\ UNCHANGED <<loader, opened, masterVars, historyVars>>

ReturnBanned(t) ==
  /\ Found(t) /\ deads[hold[t]] < MaxDeads
  /\ Punish(t, fails[hold[t]])
  /\ UNCHANGED <<loader, opened, masterVars, historyVars>>

\* A proxy error or a timeout, and the address fails the validation.
ReturnInvalid(t) ==
  /\ Found(t) /\ Remove(t)
  /\ UNCHANGED <<loader, opened, masterVars, historyVars>>

BadTolerated(f) == f <= FailedTimes + 1
Tolerated(f) == f <= FailedTimes

BadReturnFailed(t, counted) ==
  LET f == fails[hold[t]] + (IF counted THEN 1 ELSE 0) IN
  /\ Found(t)
  /\ \/ ~counted /\ Leave(t) /\ UNCHANGED poolVars
     \/ counted /\ Tolerated(f) /\ PutBack(t, f, deads[hold[t]])
     \/ counted /\ ~Tolerated(f) /\ Remove(t)
  /\ UNCHANGED <<loader, opened, masterVars, historyVars>>

\* Any other error, and an illegal address of a page, which is not counted: too
\* many failures in a row, and the address is deleted if it fails the
\* validation, else punished, or blacklisted if it has been punished enough.
ReturnFailed(t, counted) ==
  LET f == fails[hold[t]] + (IF counted THEN 1 ELSE 0) IN
  /\ Found(t)
  /\ \/ Tolerated(f) /\ PutBack(t, f, deads[hold[t]])
     \/ ~Tolerated(f) /\ deads[hold[t]] < DeadTimes /\ Punish(t, f)
     \/ ~Tolerated(f) /\ Remove(t)
  /\ UNCHANGED <<loader, opened, masterVars, historyVars>>

\* delProxyIp or addBlackProxyIp.  When the call throws the master keeps the
\* address as lent to a pool that does not know it.
Delete(t) ==
  /\ pc[t] = "deleting" /\ Leave(t)
  /\ \/ gone' = gone \cup {hold[t]} /\ UNCHANGED lost
     \/ lost' = lost \cup {hold[t]} /\ UNCHANGED gone
  /\ UNCHANGED <<poolVars, loader, opened, lent, releases, stray>>

-----------------------------------------------------------------------------
\* The master finds this machine's session expired and takes back what it has
\* lent it; the process lives on and may be lent the same addresses again.
Release ==
  /\ releases < MaxRelease
  /\ releases' = releases + 1 /\ lent' = {}
  /\ UNCHANGED <<poolVars, threadVars, loader, opened, gone, historyVars>>

TakeStep(t) == Took(t) \/ \E a \in Addr : Take(t, a)
ReturnStep(t) ==
  \/ ReturnSuccess(t) \/ ReturnBanned(t) \/ ReturnInvalid(t)
  \/ \E counted \in BOOLEAN : ReturnFailed(t, counted)
  \/ Delete(t)
LoadStep == GetIps \/ GetIpsFails \/ GetIpsEnds \/ (\E p \in loader.map : AddProxy(p)) \/ PutProxy \/ LoadEnds

ProxyNext ==
  \/ \E t \in Thread : Wait(t) \/ Starve(t) \/ TakeStep(t) \/ ReturnStep(t)
  \/ LoadStep
  \/ \E expired \in SUBSET revive : CheckProxyCount(expired)
  \/ Release

ProxySpec == ProxyInit /\ [][ProxyNext]_proxyVars

-----------------------------------------------------------------------------
(* Properties.                                                             *)

Place == {"idle", "waiting", "starving", "took", "using", "deleting"}

\* Type correctness; a thread has an address exactly while it works with one.
ProxyTypeOK ==
  /\ all \subseteq Addr /\ idle \in [Addr -> Nat]
  /\ fails \in [Addr -> Nat] /\ deads \in [Addr -> Nat]
  /\ revive \subseteq [addr : Addr, fails : Nat, deads : Nat]
  /\ pc \in [Thread -> Place] /\ hold \in [Thread -> Addr \cup {NoAddr}]
  /\ \A t \in Thread : hold[t] = NoAddr <=> pc[t] \in {"idle", "waiting", "starving"}
  /\ loader.at \in {"rest", "asking", "adding", "putting"} /\ loader.left \in Nat
  /\ loader.map \subseteq [addr : Addr, fails : Nat, deads : Nat]
  /\ (loader.at = "putting" => loader.addr \in Addr)
  /\ opened \in BOOLEAN
  /\ lent \subseteq Addr /\ gone \subseteq Addr /\ releases \in 0..MaxRelease
  /\ stray \subseteq Addr /\ lost \subseteq Addr

Holding(t) == pc[t] \in {"took", "using"}

\* proxyQueue and the requests never have one address twice
\* (LmdnaProxyPool.java:174, 195, 338): the interval between two requests
\* through an address rests on it.
OneHolder ==
  /\ \A a \in Addr : idle[a] <= 1
  /\ \A t \in Thread : Holding(t) => idle[hold[t]] = 0
  /\ \A s, t \in Thread : Holding(s) /\ Holding(t) /\ hold[s] = hold[t] => s = t

\* An address that is counted in allProxy, and so keeps the timer from loading
\* others (LmdnaProxyPool.java:81, 105), is in the queue or in a request, or a
\* failing getProxy lost it; one in a request is found when it is returned
\* (LmdnaProxyPool.java:211), with one copy at most.
CountedIsAvailable ==
  /\ \A a \in all \ stray : idle[a] > 0 \/ \E t \in Thread : Holding(t) /\ hold[t] = a
  /\ \A t \in Thread : pc[t] = "using" => hold[t] \in all

\* An address with too many failures in a row is in use only after a
\* punishment (LmdnaProxyPool.java:302-334): reviving it resets nothing.
OverLimitWasPunished ==
  \A a \in Addr :
    fails[a] > FailedTimes /\ (idle[a] > 0 \/ \E t \in Thread : pc[t] = "using" /\ hold[t] = a)
      => deads[a] > 0
=============================================================================
