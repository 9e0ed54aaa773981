--------------------------- MODULE DelayEstimator ---------------------------
(***************************************************************************)
(* The delay pipeline, pkg/bwe/estimator.go: InterArrival, then one of the *)
(* two filters, Kalman or Trendline, then OveruseDetector.  Here the send  *)
(* times, the measurements and the filters are all concrete.               *)
(*                                                                         *)
(* The filters' numbers are integers of which UnitsPerUs make a            *)
(* microsecond; the code's float64 is in milliseconds.  The clock that the *)
(* detector reads is at the latest arrival seen so far.                    *)
(***************************************************************************)
EXTENDS InterArrival, Sequences

CONSTANTS
  FilterTypes,                                        (* config.FilterType *)
  TicksPerUs, UsPerMs, UnitsPerUs,
  ProcessNoise, InitialError, ChiNum, ChiDen, One,    (* KalmanConfig      *)
  WindowSize, CoefNum, CoefDen, Gain, CountCap,       (* TrendlineConfig   *)
  InitialThreshold, MinThreshold, MaxThreshold,       (* OveruseConfig     *)
  Ku, Kd, KDen, OveruseTimeThresh,
  Packets,              (* <<gap, send gap>> of a packet                   *)
  MaxPackets            (* bound on the packets between two Resets         *)

VARIABLES
  filterType,
  kf, tl,       (* the filter: the one that filterType names is in use     *)
  trend,        (* what the trendline filter last returned                 *)
  det,          (* the detector                                            *)
  now,          (* the clock                                               *)
  oneWay,       (* history: one-way delay of the packets since Reset       *)
  inputs        (* history: the calls of the filter since Reset            *)

pipeline == <<kf, tl, trend, det>>
delayVars == <<vars, filterType, pipeline, now, oneWay, inputs>>

K == INSTANCE Kalman WITH UnitsPerMs <- UnitsPerUs * UsPerMs
T == INSTANCE Trendline WITH TicksPerMs <- TicksPerUs * UsPerMs
OD == INSTANCE OveruseDetector WITH
        Estimates <- {}, Gaps <- {}, MaxRun <- 0, d <- det, reported <- 0, run <- 0

ASSUME PipelineAssumption ==
  /\ FilterTypes \subseteq {"Kalman", "Trendline"}
  /\ {TicksPerUs, UsPerMs, UnitsPerUs} \subseteq Nat \ {0}
  /\ K!FilterAssumption /\ T!FitAssumption
  /\ {MinThreshold, MaxThreshold, Ku, Kd, OveruseTimeThresh} \subseteq Nat
  /\ InitialThreshold \in MinThreshold .. MaxThreshold /\ KDen \in Nat \ {0}
  /\ Packets \subseteq ArrivalGaps \X SendGaps
  /\ MaxPackets \in Nat

DelayInit ==
  /\ Init
  /\ filterType \in FilterTypes
  /\ kf = K!NewKalmanFilter
  /\ tl = T!NewTrendlineEstimator /\ trend = T!Zero
  /\ det = OD!NewDetector
  /\ now = 0
  /\ oneWay = <<>> /\ inputs = <<>>

(* Microseconds() of the Duration truncates toward zero.                   *)
DelayMs(ticks) ==
  UnitsPerUs * (IF ticks >= 0 THEN ticks \div TicksPerUs ELSE -((-ticks) \div TicksPerUs))

(* The filter's answer, in the unit of the detector's thresholds. *)
Estimate(k, tr) == IF filterType = "Kalman" THEN k.estimate ELSE tr.num \div tr.den

Filter(at, variation) ==
  IF filterType = "Kalman"
    THEN kf' = K!KalmanUpdated(kf, variation) /\ UNCHANGED <<tl, trend>>
    ELSE tl' = T!TrendUpdated(tl, at, variation) /\ trend' = T!Trend(tl') /\ UNCHANGED kf

OnPacket(gap, sendGap) ==
  /\ Len(oneWay) < MaxPackets
  /\ AddPacket(gap, sendGap)
  /\ now' = IF arrival' > now THEN arrival' ELSE now
  /\ oneWay' = Append(oneWay, arrival' * UnitDen - sent' * UnitNum)
  /\ IF measured'.hasResult
       THEN LET variation == DelayMs(measured'.delayVariation)
            IN  /\ Filter(arrival', variation)
                /\ det' = OD!Detected(det, Estimate(kf', trend'), now')
                /\ inputs' = Append(inputs,
                     [at |-> arrival', variation |-> variation,
                      sendDelta |-> truth'.currentFirst - truth'.previousLast])
       ELSE UNCHANGED <<pipeline, inputs>>
  /\ UNCHANGED filterType

ResetKeepsFilter ==                 \* mutation: the filter survives
  /\ Reset
  /\ det' = OD!NewDetector
  /\ oneWay' = <<>> /\ inputs' = <<>>
  /\ UNCHANGED <<filterType, now, kf, tl, trend>>

ResetAll ==
  /\ Reset
  /\ kf' = K!NewKalmanFilter
  /\ tl' = T!NewTrendlineEstimator /\ trend' = T!Zero
  /\ det' = OD!NewDetector
  /\ oneWay' = <<>> /\ inputs' = <<>>
  /\ UNCHANGED <<filterType, now>>

DelayNext ==
  \/ \E p \in Packets : OnPacket(p[1], p[2])
  \/ ResetAll

DelaySpec == DelayInit /\ [][DelayNext]_delayVars

-----------------------------------------------------------------------------
(* The trend depends on the calls since the last Reset alone, and is the   *)
(* regression over the last WindowSize of them: neither the accumulated    *)
(* delay, nor the sliding of the history, nor the reference time drifts,   *)
(* and points at one time give no quotient by zero.                        *)
TrendIsReference == filterType = "Trendline" => T!IsReferenceTrend(trend, inputs)

(* The Kalman estimate never overshoots: it stays between the smallest and *)
(* the largest measurement since Reset (or zero), however its gain and its *)
(* noise have adapted.                                                     *)
KalmanWithinMeasurements ==
  filterType = "Kalman" =>
    /\ kf.estimate > 0 => \E i \in DOMAIN inputs : inputs[i].variation >= kf.estimate
    /\ kf.estimate < 0 => \E i \in DOMAIN inputs : inputs[i].variation <= kf.estimate

(* No single measurement, however far out, raises the noise variance by    *)
(* more than the factor 1 + 8 * Chi: outliers cannot disable the filter.   *)
NoiseGrowthBounded ==
  [][kf'.measureNoise = One
       \/ ChiDen * kf'.measureNoise <= (ChiDen + 8 * ChiNum) * kf.measureNoise]_kf

(* No two neighbouring groups were sent half the counter's range apart.    *)
Unambiguous ==
  \A i \in DOMAIN inputs : -HalfRange < inputs[i].sendDelta /\ inputs[i].sendDelta < HalfRange

(* A path whose one-way delay is constant is Normal, whatever the bursts,  *)
(* the order of packets, the wraps of the counter and the Resets.          *)
SteadyPathIsNormal ==
  Unambiguous /\ (\A i, j \in DOMAIN oneWay : oneWay[i] = oneWay[j])
    => det.hypothesis = "Normal" /\ Estimate(kf, trend) = 0

(* With the Kalman filter, overuse is signalled only if some packet since  *)
(* Reset was delayed more than an earlier one: measuring, truncating,      *)
(* filtering and adapting the threshold never make it up.                  *)
OveruseMeansDelayGrew ==
  filterType = "Kalman" /\ Unambiguous /\ det.hypothesis = "Overusing"
    => \E i, j \in DOMAIN oneWay : i < j /\ oneWay[i] < oneWay[j]

InOrder == \A i \in 1 .. Len(inputs) - 1 : inputs[i].at <= inputs[i + 1].at

-----------------------------------------------------------------------------
(* The trend "is positive when delays are increasing (congestion building) *)
(* and negative when delays are decreasing" (trendline.go:84): it is never *)
(* negative while every packet is delayed more than the one before.        *)
IncreasingDelayNotNegative ==
  InOrder /\ (\A i \in DOMAIN inputs : inputs[i].variation > 0) => trend.num >= 0
=============================================================================
