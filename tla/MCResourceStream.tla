-------------------------- MODULE MCResourceStream --------------------------
(***************************************************************************)
(* ResourceStream on small sets of threads, streams and resources.         *)
(***************************************************************************)
EXTENDS ResourceStream
=============================================================================
