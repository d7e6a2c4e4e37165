------------------------------- MODULE MCKvdb -------------------------------
(***************************************************************************)
(* Threads t1 and t2 of process p1 share the handle h1; t3, in process p2, *)
(* opens the same file as h2.                                              *)
(***************************************************************************)
EXTENDS KvdbRefinement, TLC

CONSTANTS p1, p2, t3, h2

MCProcOf     == [t \in Thread |-> IF t = t3 THEN p2 ELSE p1]
MCHandleProc == [h \in Handle |-> IF h = h2 THEN p2 ELSE p1]

Symmetry == Permutations(Key) \cup Permutations(Val)
                \cup Permutations(Thread \ {t3})
=============================================================================
