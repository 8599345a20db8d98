----------------------------- MODULE MCHarness -----------------------------
(* Model of start_threads with two workers on cores 1 and 2 (first_cpu > 0 *)
(* so that core numbers and ranks differ) and two possible phase lengths,  *)
(* enough for every worker to see a fastest phase at any position.         *)
EXTENDS Harness

MCDurations == {1, 2}
MCUint64Max == 1000
=============================================================================
