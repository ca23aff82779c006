---------------------------- MODULE BlockLedger -----------------------------
(***************************************************************************)
(* What node/master/Task.java promises, without a queue, a log or row      *)
(* counters: every block waits, is with one machine, or is credited; a     *)
(* machine that asks turns in what it has and gets a waiting block if one  *)
(* is left; the task is finished when every block is credited.             *)
(***************************************************************************)
CONSTANTS Machine, Block

VARIABLES place, finished

TypeOK ==
  /\ place \in [Block -> Machine \cup {"waiting", "credited"}]
  /\ finished \in BOOLEAN

Init ==
  /\ place = [b \in Block |-> "waiting"]
  /\ finished = FALSE

\* The machine turns in its block and takes the waiting block b.
Exchange(m, b) ==
  /\ place[b] = "waiting"
  /\ place' = [c \in Block |-> IF c = b THEN m
                               ELSE IF place[c] = m THEN "credited" ELSE place[c]]
  /\ finished' = (finished \/ \A c \in Block : place'[c] = "credited")

\* The machine turns in its block and nothing waits.
TurnIn(m) ==
  /\ \A c \in Block : place[c] # "waiting"
  /\ place' = [c \in Block |-> IF place[c] = m THEN "credited" ELSE place[c]]
  /\ finished' = (finished \/ \A c \in Block : place'[c] = "credited")

\* The machine is gone and what it had waits again.
GiveBack(m) ==
  /\ place' = [c \in Block |-> IF place[c] = m THEN "waiting" ELSE place[c]]
  /\ UNCHANGED finished

Next == \E m \in Machine : TurnIn(m) \/ GiveBack(m) \/ \E b \in Block : Exchange(m, b)

vars == <<place, finished>>

Spec == Init /\ [][Next]_vars
=============================================================================
