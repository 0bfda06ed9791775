--------------------------- MODULE MCQueueFactory ---------------------------
(***************************************************************************)
(* Instances of QueueFactory for TLC.                                      *)
(***************************************************************************)
EXTENDS QueueFactory
=============================================================================
