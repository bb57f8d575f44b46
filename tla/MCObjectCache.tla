--------------------------- MODULE MCObjectCache ---------------------------
(***************************************************************************)
(* ObjectCache with two objects of one key, which differ in size as images *)
(* of one shape and different row alignments do, and a wrapper.            *)
(***************************************************************************)
EXTENDS ObjectCache, TLC

CONSTANTS a1, a2, w

MCKeyOf == (a1 :> "a" @@ a2 :> "a" @@ w :> "w")
MCSizeOf == (a1 :> 2 @@ a2 :> 1 @@ w :> 0)

Symmetry == Permutations(Threads)
=============================================================================
