----------------------------- MODULE MCWebhooks -----------------------------
(***************************************************************************)
(* Instances of Webhooks for TLC.                                          *)
(***************************************************************************)
EXTENDS Webhooks

CONSTANTS opened, clicked, h1, h2
=============================================================================
