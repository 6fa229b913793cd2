---------------------------- MODULE MCWebhookScan ----------------------------
(***************************************************************************)
(* Instances of WebhookScan for TLC.                                       *)
(***************************************************************************)
EXTENDS WebhookScan

\* Two events: a late one is overtaken by the other, and a tie is cut by the limit.
TwoEvents == 1..2
=============================================================================
