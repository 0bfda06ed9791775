-------------------------- MODULE MCBatchDispatch --------------------------
(***************************************************************************)
(* Instances of BatchDispatch, both ways of sendBatch, for TLC.            *)
(***************************************************************************)
EXTENDS BatchDispatch
=============================================================================
