----------------------------- MODULE MCRembLoop -----------------------------
(* Constant values for model checking RembLoop.                            *)
EXTENDS RembLoop

MCEstimates == 1 .. 2
MCRembLoops == {"remb1", "remb2"}
=============================================================================
