--------------------------- MODULE MCSQLiteQueue ---------------------------
(***************************************************************************)
(* Instances of SQLiteQueue for TLC.                                       *)
(***************************************************************************)
EXTENDS SQLiteQueue
=============================================================================
