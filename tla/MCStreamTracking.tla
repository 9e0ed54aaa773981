-------------------------- MODULE MCStreamTracking --------------------------
(* Constant values for model checking StreamTracking: two streams, a       *)
(* timeout of two cleanup periods as in the code, and two clock ticks per  *)
(* period so that a goroutine can be late within one.                      *)
EXTENDS StreamTracking, TLC

CONSTANTS k1, k2
MCSSRCs == {k1, k2}
Symmetry == Permutations(MCSSRCs)
=============================================================================
