----------------------------- MODULE MCAiCredits -----------------------------
(***************************************************************************)
(* Instances of AiCredits for TLC.                                         *)
(***************************************************************************)
EXTENDS AiCredits
=============================================================================
