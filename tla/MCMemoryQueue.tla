--------------------------- MODULE MCMemoryQueue ---------------------------
(***************************************************************************)
(* Instances of MemoryQueue for TLC.                                       *)
(***************************************************************************)
EXTENDS MemoryQueue
=============================================================================
