--------------------------- MODULE MCHandleManager ---------------------------
(***************************************************************************)
(* HandleManager on small instances with symmetric threads, slots and      *)
(* references.                                                             *)
(***************************************************************************)
EXTENDS HandleManager, TLC

Symmetry == Permutations(Threads) \cup Permutations(Res) \cup Permutations(Refs)
=============================================================================
