--------------------------- MODULE MCBulkRecordJobs ---------------------------
(***************************************************************************)
(* Instance of BulkRecordJobs for TLC: one job whose list ends in a short  *)
(* chunk, and two ticks.                                                   *)
(***************************************************************************)
EXTENDS BulkRecordJobs

OneJob == {1}
BothOps == {"update", "delete"}
=============================================================================
