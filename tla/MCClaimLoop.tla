----------------------------- MODULE MCClaimLoop -----------------------------
(***************************************************************************)
(* Instances of ClaimLoop for TLC.                                         *)
(***************************************************************************)
EXTENDS ClaimLoop

MCSpec == UsualSpec /\ Fairness
=============================================================================
