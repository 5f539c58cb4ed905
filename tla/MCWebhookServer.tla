-------------------------- MODULE MCWebhookServer --------------------------
(***************************************************************************)
(* A small instance of WebhookServer for TLC.                              *)
(***************************************************************************)
EXTENDS WebhookServer

CONSTANTS r1, r2
=============================================================================
