------------------------- MODULE MCStreamOrderedCache -------------------------
(***************************************************************************)
(* StreamOrderedCache on lists that span several sections of the search.   *)
(***************************************************************************)
EXTENDS StreamOrderedCache
=============================================================================
