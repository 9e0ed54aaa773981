-------------------------- MODULE MCDelayEstimator --------------------------
(* Constant values for model checking DelayEstimator: a counter that wraps  *)
(* every twelve units of 3/2 ticks, bursts below and above the threshold,  *)
(* packets that arrive or were sent out of order, on time, late and early,  *)
(* the near ones less than half a wrap apart, the others half and more.    *)
(* A coefficient of 1/2 and 2^5 units keep smoothing exact.                 *)
EXTENDS DelayEstimator

MCFilterTypes == {"Kalman", "Trendline"}
MCTrendlineOnly == {"Trendline"}
MCNearPackets == {<<-3, -2>>, <<3, 2>>, <<3, -1>>, <<6, 2>>, <<3, 5>>}
MCPackets == MCNearPackets \cup {<<6, 6>>, <<6, 7>>}
MCArrivalGaps == {-3, 3, 6}
MCSendGaps == {-2, -1, 2, 5, 6, 7}
=============================================================================
