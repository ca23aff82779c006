----------------------------- MODULE Downloader -----------------------------
(***************************************************************************)
(* The worker threads of a spider that logs in and uses proxies: a request *)
(* takes a connection, then an address (StatusFulDownloader.download), and *)
(* the library returns both with the codes that the download leaves on the *)
(* request.                                                                *)
(* A Bad... definition is a faulty variant of the one that follows it.     *)
(***************************************************************************)
EXTENDS ProxyPool, ConnectionPool

CONSTANT NoConn

ASSUME NoConnAssumption == NoConn \notin Account

VARIABLES
  conn,  \* the connection that each thread's request holds
  code   \* "open", then the code it will be returned with

requestVars == <<conn, code>>
vars == <<proxyVars, connPoolVars, requestVars>>

\* SpiderNode.fixSite: the proxy pool is built first, then the other one.
Init ==
  /\ ProxyInit /\ ConnInit
  /\ conn = [t \in Thread |-> NoConn] /\ code = [t \in Thread |-> "open"]

LoadConns ==
  /\ opened
  /\ (\E c \in Account : LoadAccount(c)) \/ LoadAccountsEnds
  /\ UNCHANGED <<proxyVars, requestVars>>

-----------------------------------------------------------------------------
(* One request of a thread.                                                *)

Between(t) == conn[t] = NoConn /\ pc[t] = "idle"

TakeConn(t) ==
  /\ Between(t)
  /\ \E c \in Account : Borrow(c) /\ conn' = [conn EXCEPT ![t] = c]
  /\ UNCHANGED <<proxyVars, code>>

RetireConn(t) ==
  /\ Between(t)
  /\ \E c \in Account : Retire(c)
  /\ UNCHANGED <<proxyVars, requestVars>>

AskAddress(t) ==
  /\ conn[t] # NoConn /\ code[t] = "open" /\ Wait(t)
  /\ UNCHANGED <<connPoolVars, requestVars>>

\* An exception of getProxy leaves download without a code.
GetAddress(t) ==
  /\ Starve(t) \/ TakeStep(t)
  /\ code' = [code EXCEPT ![t] = IF pc'[t] = "idle" THEN "none" ELSE @]
  /\ UNCHANGED <<connPoolVars, conn>>

\* The pairs of codes that download sets, and the address's return.  A page
\* that is not there (404) leaves the connection without a code.
Download(t) ==
  /\ \/ ReturnSuccess(t) /\ \E k \in {"success", "often", "expired", "invalid"} : code' = [code EXCEPT ![t] = k]
     \/ ReturnFailed(t, TRUE) /\ \E k \in {"success", "none"} : code' = [code EXCEPT ![t] = k]
     \/ /\ ReturnFailed(t, FALSE) \/ ReturnInvalid(t) \/ ReturnBanned(t)
        /\ code' = [code EXCEPT ![t] = "success"]
  /\ UNCHANGED <<connPoolVars, conn>>

TellMaster(t) == Delete(t) /\ UNCHANGED <<connPoolVars, requestVars>>

ReturnConn(t) ==
  /\ pc[t] = "idle" /\ code[t] # "open"
  /\ GiveBack(conn[t], code[t])
  /\ conn' = [conn EXCEPT ![t] = NoConn] /\ code' = [code EXCEPT ![t] = "open"]
  /\ UNCHANGED proxyVars

-----------------------------------------------------------------------------
Load == LoadStep /\ UNCHANGED <<connPoolVars, requestVars>>
Reload(expired) == CheckProxyCount(expired) /\ UNCHANGED <<connPoolVars, requestVars>>

Next ==
  \/ \E t \in Thread :
       \/ TakeConn(t) \/ RetireConn(t) \/ AskAddress(t) \/ GetAddress(t)
       \/ Download(t) \/ TellMaster(t) \/ ReturnConn(t)
  \/ LoadConns \/ Load
  \/ \E expired \in SUBSET revive : Reload(expired)
  \/ Release /\ UNCHANGED <<connPoolVars, requestVars>>
  \/ \E done \in SUBSET retired : ResetHour(done) /\ UNCHANGED <<proxyVars, requestVars>>

\* Threads and timers go on.  Delays end, and a call to the master that is
\* tried again and again is answered some time.  The hourly timer runs until an
\* exception ends it.
Fairness ==
  /\ \A t \in Thread :
       /\ WF_vars(TakeConn(t) \/ RetireConn(t)) /\ WF_vars(AskAddress(t) \/ ReturnConn(t))
       /\ WF_vars(TakeStep(t) /\ GetAddress(t)) /\ WF_vars(Download(t) \/ TellMaster(t))
  /\ WF_vars(LoadConns) /\ WF_vars(Load)
  /\ SF_vars(GetIps /\ Load) /\ SF_vars(Reload(revive))
  /\ WF_vars(ResetHour(retired) /\ UNCHANGED <<proxyVars, requestVars>>)

Spec == Init /\ [][Next]_vars /\ Fairness

-----------------------------------------------------------------------------
(* Properties.                                                             *)

\* Type correctness of the address pool, the requests and the connection pool.
TypeOK ==
  /\ ProxyTypeOK
  /\ tried \subseteq Account /\ queued \subseteq tried /\ retired \subseteq tried /\ wait4Login \subseteq tried
  /\ connOpened \in BOOLEAN /\ hourly \in BOOLEAN
  /\ borrowNum \in [Account -> 0..MaxVisit]
  /\ conn \in [Thread -> Account \cup {NoConn}] /\ code \in [Thread -> Code \cup {"open"}]

\* A connection is in one request at most, and then in no collection of the
\* pool (LmdnaStatusfulConnectionPool.java:172, 200, 205, 210): the session of
\* one account is never used by two requests at once, and an account that
\* waits for its login is not queued.
ConnInOnePlace ==
  /\ \A t \in Thread : conn[t] # NoConn => conn[t] \notin queued \cup retired \cup wait4Login
  /\ \A s, t \in Thread : conn[s] = conn[t] /\ conn[s] # NoConn => s = t
  /\ queued \cap retired = {} /\ queued \cap wait4Login = {} /\ retired \cap wait4Login = {}

Waiting(t) == pc[t] \in {"waiting", "starving"}
InHand(t) == pc[t] \in {"took", "using", "deleting"}

\* When requests wait for an address and nobody works with one, a request gets
\* one or all that wait fail (LmdnaProxyPool.java:79-85,
\* StatusFulDownloader.java:66-79), although they keep their connections from
\* the others; unless the lost addresses alone are enough for the timer not to
\* load, or every address is lost or deleted.
PoolComesBack ==
  ((\E t \in Thread : Waiting(t)) /\ (\A t \in Thread : ~InHand(t)))
    ~> \/ (\E t \in Thread : pc[t] = "using") \/ (\A t \in Thread : ~Waiting(t))
       \/ Cardinality(stray \cap all) >= ProxyIpCount
       \/ Addr \subseteq stray \cup lost \cup gone
=============================================================================
