----------------------- MODULE MCResourceDistribution -----------------------
(* Addresses: every spider is offered all of them.                         *)
EXTENDS ResourceDistribution, TLC

EveryRow == [b \in Biz |-> Resource]

Symmetry == Permutations(Machine) \cup Permutations(Resource)
=============================================================================
