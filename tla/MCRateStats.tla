---------------------------- MODULE MCRateStats ----------------------------
(* Constant values for model checking RateStats: a window of three ticks   *)
(* and times long enough to slide it past several samples.                 *)
EXTENDS RateStats

MCSizes == {1, 3}
=============================================================================
