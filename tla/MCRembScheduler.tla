-------------------------- MODULE MCRembScheduler --------------------------
(* Constant values for model checking RembScheduler: an interval of four   *)
(* clock ticks with one of jitter, and estimates on both sides of the 3 %  *)
(* threshold (98 is not a significant decrease from 100, 97 is).           *)
EXTENDS RembScheduler

MCEstimates == {0, 94, 97, 98, 100}
=============================================================================
