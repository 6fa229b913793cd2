---------------------------- MODULE MCWebhookFlush ----------------------------
(***************************************************************************)
(* Instances of WebhookFlush for TLC.                                      *)
(***************************************************************************)
EXTENDS WebhookFlush
=============================================================================
