---------------------------- MODULE MCTaskBlocks ----------------------------
(* Three machines and a task of four blocks whose last one is short.       *)
EXTENDS TaskBlocks

\* The row sum of TaskBlocks against the sum of the blocks' sizes.
RECURSIVE SumSizes(_)
SumSizes(S) == IF S = {} THEN 0
               ELSE LET b == CHOOSE x \in S : TRUE IN Size(b) + SumSizes(S \ {b})

ASSUME RowsOfIsTheSum == \A S \in SUBSET Block : RowsOf(S) = SumSizes(S)
=============================================================================
