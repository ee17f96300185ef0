-------------------------- MODULE MCOrderExecution --------------------------
(* A two-lot order: partial fills, stale reports and all three reporters.  *)
EXTENDS OrderExecution

CONSTANT o1
=============================================================================
