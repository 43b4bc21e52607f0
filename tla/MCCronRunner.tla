---------------------------- MODULE MCCronRunner ----------------------------
(***************************************************************************)
(* Small instances of CronRunner: two container instances, the first with  *)
(* room for two drains (the boot drain or the poll, and one started by a   *)
(* notification); rows 1 and 2 share a dedup key, row 3 is a pg_cron tick. *)
(***************************************************************************)
EXTENDS CronRunner

CONSTANTS i1, i2, d1, d2, d3, k1

MCHost     == [d \in Drains |-> IF d = d3 THEN i2 ELSE i1]
MCDedupKey == [r \in Rows |-> IF r \in {1, 2} THEN k1 ELSE NoKey]
=============================================================================
