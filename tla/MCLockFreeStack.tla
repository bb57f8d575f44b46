--------------------------- MODULE MCLockFreeStack ---------------------------
(***************************************************************************)
(* LockFreeStack on a small instance: three threads and two nodes.         *)
(***************************************************************************)
EXTENDS LockFreeStack
=============================================================================
