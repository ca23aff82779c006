--------------------------- MODULE ConnectionPool ---------------------------
(***************************************************************************)
(* The logged-in connections of a website (LmdnaStatusfulConnectionPool),  *)
(* one for each account that the master lends.  The module has the pool's  *)
(* operations; who calls them is said by Downloader.                       *)
(* A Bad... definition is a faulty variant of the one that follows it.     *)
(***************************************************************************)
EXTENDS Naturals, FiniteSets

CONSTANTS
  Account,      \* the accounts that the master can lend to this machine
  AccountCount, \* websiteConfig: connections wanted
  MaxVisit      \* websiteConfig: visits of an account in an hour

ASSUME ConnAssumption == AccountCount \in Nat /\ MaxVisit \in Nat \ {0}

VARIABLES
  tried,      \* accounts that load() has asked the master for
  connOpened, \* load() has returned
  queued,     \* connections in connPool, by their account
  retired,    \* those in invalidConnsThisHour
  wait4Login, \* accounts in wait4LoginAccount
  borrowNum,  \* visits of each account
  hourly      \* the hourly timer still runs

connPoolVars == <<tried, connOpened, queued, retired, wait4Login, borrowNum, hourly>>

ConnInit ==
  /\ tried = {} /\ connOpened = FALSE
  /\ queued = {} /\ retired = {} /\ wait4Login = {}
  /\ borrowNum = [c \in Account |-> 0]
  /\ hourly = TRUE

-----------------------------------------------------------------------------
(* load, called by the constructor only.                                   *)

Wanted == Cardinality(queued) < AccountCount

\* getAccount and login; an account that cannot log in stays lent and is not
\* kept.
LoadAccount(c) ==
  /\ ~connOpened /\ Wanted /\ c \notin tried
  /\ tried' = tried \cup {c}
  /\ queued' \in {queued, queued \cup {c}}
  /\ UNCHANGED <<connOpened, retired, wait4Login, borrowNum, hourly>>

LoadAccountsEnds ==
  /\ ~connOpened /\ (Wanted => tried = Account)
  /\ connOpened' = TRUE
  /\ UNCHANGED <<tried, queued, retired, wait4Login, borrowNum, hourly>>

-----------------------------------------------------------------------------
(* getConn.                                                                *)

IsValid(c) == borrowNum[c] < MaxVisit

Borrow(c) ==
  /\ connOpened /\ c \in queued /\ IsValid(c)
  /\ queued' = queued \ {c}
  /\ borrowNum' = [borrowNum EXCEPT ![c] = @ + 1]
  /\ UNCHANGED <<tried, connOpened, retired, wait4Login, hourly>>

\* The thread that takes it goes on waiting.
Retire(c) ==
  /\ connOpened /\ c \in queued /\ ~IsValid(c)
  /\ queued' = queued \ {c} /\ retired' = retired \cup {c}
  /\ UNCHANGED <<tried, connOpened, wait4Login, borrowNum, hourly>>

\* reviveConnsInvalidThisHour: the visits of the retired connections start
\* again at 0; no connection goes back to connPool.  A connection that is
\* retired during the loop ends it, and the timer, with a
\* ConcurrentModificationException.
ResetHour(done) ==
  /\ connOpened /\ hourly /\ retired # {} /\ done \subseteq retired
  /\ borrowNum' = [c \in Account |-> IF c \in done THEN 0 ELSE borrowNum[c]]
  /\ hourly' = (done = retired)
  /\ UNCHANGED <<tried, connOpened, queued, retired, wait4Login>>

-----------------------------------------------------------------------------
(* returnConn, by the code that the request carries.                       *)

\* The other codes, and none, leave the connection in no collection; for
\* "invalid" the master is told.
Code == {"success", "often", "expired", "invalid", "none"}

BadGiveBack(c, code) ==
  /\ queued' = queued \cup (IF code \in {"success", "often", "expired"} THEN {c} ELSE {})
  /\ wait4Login' = wait4Login \cup (IF code = "expired" THEN {c} ELSE {})
  /\ UNCHANGED <<tried, connOpened, retired, borrowNum, hourly>>

GiveBack(c, code) ==
  /\ queued' = queued \cup (IF code \in {"success", "often"} THEN {c} ELSE {})
  /\ wait4Login' = wait4Login \cup (IF code = "expired" THEN {c} ELSE {})
  /\ UNCHANGED <<tried, connOpened, retired, borrowNum, hourly>>
=============================================================================
