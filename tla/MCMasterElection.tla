-------------------------- MODULE MCMasterElection --------------------------
(* A node that is only ever started as the master, and followers.          *)
EXTENDS MasterElection

CONSTANT Master

Levels == [n \in Node |-> IF n = Master THEN {"master", "worker"} ELSE {"follower"}]
=============================================================================
