------------------------- MODULE MCOveruseDetector -------------------------
(* Constant values for model checking OveruseDetector.  A tick is 5 ms when *)
(* compared with OveruseTimeThresh (10 ms); Ku is enlarged so that the long *)
(* gap of 25 ticks plays the part of the 100 seconds beyond which           *)
(* deltaT * Ku exceeds 1.                                                   *)
EXTENDS OveruseDetector

MCEstimates == {-60, -5, 0, 15, 30, 60}
MCGaps == {0, 1, 2, 25}
=============================================================================
