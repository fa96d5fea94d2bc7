----------------------------- MODULE SyncNodes -----------------------------
(* The nodes whose clocks and replicated data types mnemo-core's sync      *)
(* module keeps, and u64::max, with which all of them merge counters.      *)
EXTENDS Integers

CONSTANT Nodes   \* node ids

Larger(a, b) == IF a >= b THEN a ELSE b
=============================================================================
