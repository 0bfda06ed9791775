---------------------------- MODULE MCSendLimits ----------------------------
(***************************************************************************)
(* Instances of SendLimits for TLC.                                        *)
(***************************************************************************)
EXTENDS SendLimits

CONSTANTS d1, d2
=============================================================================
