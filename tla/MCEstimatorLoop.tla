--------------------------- MODULE MCEstimatorLoop ---------------------------
(* Constant values for model checking EstimatorLoop, and BandwidthEstimator *)
(* in it.  The window is two ticks, overuse must last one, and a group ends *)
(* with a packet that comes two ticks later, so that a measurement, a       *)
(* sustained overuse, its end and a window that runs empty all fit; three   *)
(* ticks of the loop, each on time or late, fit behind a decrease.  Growth  *)
(* doubles the rate per tick, so that few estimates occur; the threshold    *)
(* stays where it starts (Ku = Kd = 0): OveruseDetector's own run moves it. *)
EXTENDS EstimatorLoop

MCEta == [e \in 0 .. 3 |-> 2 ^ e]
MCFilterOutputs == {-20, 0, 20}
MCSizes == {20}
MCSSRCs == {"audio"}
MCTimes == 0 .. 7
MCIncomingRates == 0 .. 960     \* two packets of 20 bytes within a tick
=============================================================================
