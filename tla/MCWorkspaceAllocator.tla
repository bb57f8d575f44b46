------------------------ MODULE MCWorkspaceAllocator ------------------------
(***************************************************************************)
(* WorkspaceAllocator with small sizes and alignments.                     *)
(***************************************************************************)
EXTENDS WorkspaceAllocator
=============================================================================
