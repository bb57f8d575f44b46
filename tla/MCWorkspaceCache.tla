-------------------------- MODULE MCWorkspaceCache --------------------------
(***************************************************************************)
(* WorkspaceCache with two sizes of blocks.                                *)
(***************************************************************************)
EXTENDS WorkspaceCache

MCReqs == {[size |-> 1, alignment |-> 2], [size |-> 2, alignment |-> 1]}

Symmetry == Permutations(Mems) \cup Permutations(Streams) \cup Permutations(Threads)
=============================================================================
