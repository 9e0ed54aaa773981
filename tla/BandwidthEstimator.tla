------------------------- MODULE BandwidthEstimator -------------------------
(***************************************************************************)
(* The estimator, pkg/bwe/bandwidth_estimator.go, composed of the delay    *)
(* pipeline of pkg/bwe/estimator.go (InterArrival, a filter and            *)
(* OveruseDetector), RateStats, RateController and RembScheduler.  It      *)
(* EXTENDS RateController, whose state is the only one it steps as a       *)
(* whole: every step is an Update, a Reset or none of the controller's.    *)
(*                                                                         *)
(* Every operation runs under the estimator's lock and is one action.      *)
(* Readers stamp a packet up to MaxLag before they get the lock, while the *)
(* detector reads the clock under it.  The filter is abstract: any of      *)
(* FilterOutputs may come out of it, so the delay variation that goes into *)
(* it, and with it the send time, is left out.                             *)
(***************************************************************************)
EXTENDS RateController, Sequences

CONSTANTS
  BurstThreshold,
  InitialThreshold, MinThreshold, MaxThreshold, Ku, Kd, KDen, OveruseTimeThresh,
  WindowSize, MinElapsed,
  Interval, DecreaseNum, DecreaseDen,
  FilterOutputs,       (* what the delay filter may return                 *)
  SSRCs, Sizes,        (* of packets                                       *)
  MaxLag,              (* bound: how long a reader waits for the lock      *)
  MaxTime,             (* bound on the clock                               *)
  MaxSamples           (* bound on the packets in the window               *)

(* NewRateStats and the interceptor install positive windows and thresholds. *)
ASSUME EstimatorAssumption ==
  /\ {WindowSize, MinElapsed, DecreaseNum, DecreaseDen} \subseteq Nat \ {0}
  /\ {MaxLag, MaxTime, MaxSamples} \subseteq Nat
  /\ Sizes \subseteq Nat /\ FilterOutputs \subseteq Int

VARIABLES
  now,              (* the clock                                           *)
  ia, det,          (* the DelayEstimator: its calculator and its detector *)
  rs,               (* rateStats; RateController has rc                    *)
  estimate, ssrcs, lastPacketTime,
  sched,            (* the attached REMBScheduler                          *)
  op,               (* history: the last operation, where it matters       *)
  lastArrival,      (* history: arrival time of the last packet processed  *)
  rateKnown         (* history: whether RateStats had a rate for it        *)

estimatorVars == <<vars, now, ia, det, rs, estimate, ssrcs, lastPacketTime, sched,
                   op, lastArrival, rateKnown>>
pipeline == <<vars, ia, det, estimate, ssrcs, lastPacketTime>>
history == <<lastArrival, rateKnown>>

IA == INSTANCE InterArrival WITH
        AbsSendTimeMax <- 2, UnitNum <- 1, UnitDen <- 1, ArrivalGaps <- {}, SendGaps <- {0},
        arrival <- lastArrival, sent <- 0, truth <- 0, measured <- 0
OD == INSTANCE OveruseDetector WITH
        Estimates <- FilterOutputs, Gaps <- {}, MaxRun <- 0,
        d <- det, reported <- 0, run <- 0
RS == INSTANCE RateStats WITH
        TicksPerSecond <- Second, Skew <- MaxLag,
        answer <- 0, latest <- now, lastCall <- lastArrival, lateness <- 0
Sched == INSTANCE RembScheduler WITH
        Jitter <- 0, Estimates <- {}, clock <- now, nextTick <- 0,
        s <- sched, overstatedSince <- 0

EstimatorInit ==
  /\ Init
  /\ now = 0
  /\ ia = IA!NewCalculator
  /\ det = OD!NewDetector
  /\ rs = RS!NewRateStats
  /\ estimate = ConfigInitial
  /\ ssrcs = {}
  /\ lastPacketTime = NoTime
  /\ sched = Sched!NewREMBScheduler
  /\ op = "new" /\ lastArrival = NoTime /\ rateKnown = FALSE

-----------------------------------------------------------------------------
(* DelayEstimator.OnPacket: a packet that opens a group after another one  *)
(* is filtered and put to the detector; any other leaves it as it is.      *)
Measures(t) == IA!Result(ia, IA!Added(ia, t, 0), t).hasResult

Observed(t, m) == IF Measures(t) THEN OD!Detected(det, m, now) ELSE det

SignalOnlyFresh(t) ==          \* mutation: Normal while a group accumulates
  IF Measures(t) THEN det'.hypothesis ELSE "Normal"

(* The signal is the detector's state, fresh or not. *)
Signal(t) == det'.hypothesis

(* RateStats.Update and then Rate, for the same arrival time. *)
CountedUntrimmed(size, t) ==            \* mutation: Rate without its removeExpired
  [samples    |-> Append(rs.samples, [timestamp |-> t, bytes |-> size]),
   totalBytes |-> rs.totalBytes + size]

Counted(size, t) == RS!RemoveExpired(RS!Updated(rs, size, t), t)

(* What both ends of OnPacket have in common: SSRC, window, delay pipeline. *)
Receive(ssrc, size, t, m) ==
  /\ ssrcs' = ssrcs \cup {ssrc}
  /\ rs' = Counted(size, t)
  /\ Len(rs'.samples) <= MaxSamples
  /\ ia' = IA!Added(ia, t, 0)
  /\ det' = Observed(t, m)
  /\ op' = "packet" /\ lastArrival' = t
  /\ UNCHANGED <<now, sched>>

(* OnPacket returns early while there is no rate ... *)
OnPacketWithoutRate(ssrc, size, t, m) ==
  /\ Receive(ssrc, size, t, m)
  /\ RS!Measured(rs') = RS!NoRate
  /\ rateKnown' = FALSE
  /\ UNCHANGED <<vars, estimate, lastPacketTime>>

(* ... and otherwise updates the rate controller. *)
OnPacketWithRate(ssrc, size, t, m) ==
  /\ Receive(ssrc, size, t, m)
  /\ RS!Measured(rs') # RS!NoRate
  /\ rateKnown' = TRUE
  /\ Update(Signal(t), RS!Measured(rs'), t)
  /\ estimate' = rc'.currentRate
  /\ lastPacketTime' = t

(* GetIncomingRate trims the window. *)
GetIncomingRate ==
  /\ rs' = RS!RemoveExpired(rs, now)
  /\ op' = "other"
  /\ UNCHANGED <<now, sched, pipeline, history>>

AnnounceableWithRate == lastPacketTime # NoTime    \* mutation: waits for a rate

Announceable == ssrcs # {}

MaybeBuildREMB ==
  /\ sched' = IF Announceable THEN Sched!MaybeSendREMB(sched, estimate, now) ELSE sched
  /\ op' = "remb"
  /\ UNCHANGED <<now, rs, pipeline, history>>

ResetKeepsEstimate ==          \* mutation: the controller restarts, the estimate stays
  /\ Reset
  /\ ia' = IA!NewCalculator
  /\ det' = OD!NewDetector
  /\ rs' = RS!NewRateStats
  /\ ssrcs' = {}
  /\ lastPacketTime' = NoTime
  /\ op' = "reset" /\ lastArrival' = NoTime /\ rateKnown' = FALSE
  /\ UNCHANGED <<now, sched, estimate>>

(* The scheduler is not reset: it is provided from outside. *)
ResetAll ==
  /\ Reset
  /\ ia' = IA!NewCalculator
  /\ det' = OD!NewDetector
  /\ rs' = RS!NewRateStats
  /\ estimate' = ConfigInitial
  /\ ssrcs' = {}
  /\ lastPacketTime' = NoTime
  /\ op' = "reset" /\ lastArrival' = NoTime /\ rateKnown' = FALSE
  /\ UNCHANGED <<now, sched>>

Advance ==
  /\ now < MaxTime
  /\ now' = now + 1
  /\ op' = "other"
  /\ UNCHANGED <<rs, sched, pipeline, history>>

(* What readers and the owner of the estimator call.                       *)
Call ==
  \/ \E ssrc \in SSRCs, size \in Sizes, lag \in 0 .. MaxLag, m \in FilterOutputs :
        /\ now >= lag
        /\ \/ OnPacketWithoutRate(ssrc, size, now - lag, m)
           \/ OnPacketWithRate(ssrc, size, now - lag, m)
  \/ GetIncomingRate
  \/ ResetAll

EstimatorNext == Call \/ MaybeBuildREMB \/ Advance

EstimatorSpec == EstimatorInit /\ [][EstimatorNext]_estimatorVars

-----------------------------------------------------------------------------
(* With a configured initial bitrate the estimate that readers and REMBs    *)
(* see is always the rate controller's, through early returns and resets.   *)
EstimateIsControllers == estimate = rc.currentRate

(* After every packet that had a rate the controller's state answers the    *)
(* detector's verdict, also while a burst accumulates and no new verdict    *)
(* is reached, and after any mixture of resets and packets without a rate.  *)
ControllerFollowsDetector ==
  rateKnown =>
    /\ rc.state = "Decrease" <=> det.hypothesis = "Overusing"
    /\ rc.state = "Increase" => det.hypothesis = "Normal"

(* Whenever MaybeBuildREMB has been asked and a source is known, the value  *)
(* last sent does not overstate the estimate by the decrease threshold,     *)
(* whatever packets, resets and failing measurements came before.           *)
RembHonest ==
  op = "remb" /\ ssrcs # {} => ~Sched!SignificantDecrease(sched, estimate)

(* The first packet after everything in the window has expired never moves  *)
(* the estimate: a single sample makes no rate.                             *)
IdleKeepsEstimate ==
  [][op' = "packet"
       /\ (\A i \in DOMAIN rs.samples : rs.samples[i].timestamp < lastArrival' - WindowSize)
     => estimate' = estimate]_estimatorVars
=============================================================================
