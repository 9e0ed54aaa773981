----------------------- MODULE BandwidthEstimatorProofs -----------------------
(***************************************************************************)
(* Theorems about RateController, and about BandwidthEstimator, which      *)
(* extends it: the controller's own invariants and bounds on its growth;   *)
(* that the estimator implements the controller, so that they hold of it   *)
(* too; that its parts agree with each other; and, of EstimatorLoop, how   *)
(* long a remote sender can be overstated or without a REMB: for every     *)
(* configuration, filter, packet sequence, lag and jitter.                 *)
(***************************************************************************)
EXTENDS EstimatorLoop, SequenceTheorems, FiniteSetTheorems, TLAPS

-----------------------------------------------------------------------------
(* The controller by itself, for every sequence of signals, incoming rates *)
(* and times.                                                              *)

(* The bounds the constructor installs are positive, whatever it was given. *)
LEMMA BoundsPositive ==
  /\ MinBitrate \in Nat \ {0}
  /\ MaxBitrate \in Nat \ {0}
  /\ InitialBitrate \in Nat \ {0}
BY ConfigAssumption DEF MinBitrate, MaxBitrate, InitialBitrate, OrDefault

(* A fixed-point product of naturals truncates to a natural. *)
LEMMA ScaledIsNat ==
  ASSUME NEW n \in Nat, NEW d \in Nat \ {0}
  PROVE  n \div d \in Nat
OBVIOUS

LEMMA BetaIsNat == Beta \in Nat
BY ConfigAssumption DEF Beta

LEMMA ProductIsNat ==
  ASSUME NEW a \in Nat, NEW b \in Nat
  PROVE  a * b \in Nat
OBVIOUS

(* Adjusting leaves a natural, in each of the three states. *)
LEMMA AdjustRateType ==
  ASSUME NEW c \in [state : RateControlStates, currentRate : Nat,
                    lastUpdate : Times \cup {NoTime}],
         NEW incoming \in IncomingRates, NEW t \in Times
  PROVE  AdjustRate(c, incoming, t) \in Nat
<1>1. Reduced(incoming) \in Nat
  <2>1. incoming \in Nat
    BY InputAssumption
  <2>2. Beta * incoming \in Nat
    BY <2>1, BetaIsNat, ProductIsNat
  <2> QED BY <2>2, ScaledIsNat, ConfigAssumption DEF Reduced
<1>2. ASSUME Elapsed(c, t) > 0, c.lastUpdate # NoTime
      PROVE  Grown(c.currentRate, Elapsed(c, t)) \in Nat
  <2>1. Elapsed(c, t) \in 0 .. Second
    <3>1. c.lastUpdate \in Times
      BY <1>2
    <3>2. c.lastUpdate \in Nat /\ t \in Nat
      BY <3>1, InputAssumption
    <3>3. Second \in Nat
      BY EtaAssumption
    <3> QED BY <1>2, <3>2, <3>3 DEF Elapsed, MinOf
  <2>2. Eta[Elapsed(c, t)] \in Nat
    BY <2>1, EtaAssumption
  <2>3. Eta[Elapsed(c, t)] * c.currentRate \in Nat
    BY <2>2, ProductIsNat
  <2> QED BY <2>3, ScaledIsNat, EtaAssumption DEF Grown
<1> QED BY <1>1, <1>2 DEF AdjustRate, RateControlStates

LEMMA RatioPositive ==
  ASSUME NEW incoming \in Nat, incoming > 0
  PROVE  Ratio(incoming) \in Nat /\ Ratio(incoming) > 0
BY DEF Ratio

(* Clamping and limiting any natural leaves a positive natural inside the  *)
(* band of EstimateInBand.                                                 *)
LEMMA LimitedInBand ==
  ASSUME NEW rate \in Nat, NEW incoming \in Nat
  PROVE  LET final == LimitByIncoming(ClampRate(rate), incoming)
         IN  /\ final \in Nat
             /\ final > 0
             /\ final <= Ceiling(incoming)
             /\ final >= MinOf(MinBitrate, Ceiling(incoming))
<1>1. CASE incoming = 0
  BY <1>1, BoundsPositive DEF LimitByIncoming, ClampRate, Ceiling, MinOf, MaxOf
<1>2. CASE incoming > 0
  BY <1>2, BoundsPositive, RatioPositive
     DEF LimitByIncoming, ClampRate, Ceiling, MinOf, MaxOf
<1> QED BY <1>1, <1>2

-----------------------------------------------------------------------------
(* What one Update does to the record, in one place for the theorems below. *)
LEMMA UpdatedFields ==
  ASSUME TypeOK,
         NEW signal \in Signals, NEW incoming \in IncomingRates, NEW t \in Times
  PROVE  LET u == Updated(rc, signal, incoming, t)
         IN  /\ u \in [state : RateControlStates, currentRate : Nat,
                       lastUpdate : Times \cup {NoTime}]
             /\ u.state = TransitionState(rc.state, signal)
             /\ u.currentRate > 0
             /\ u.currentRate <= Ceiling(incoming)
             /\ u.currentRate >= MinOf(MinBitrate, Ceiling(incoming))
<1> DEFINE moved == [rc EXCEPT !.state = TransitionState(@, signal)]
           adjusted == AdjustRate(moved, incoming, t)
           final == LimitByIncoming(ClampRate(adjusted), incoming)
<1>1. TransitionState(rc.state, signal) \in RateControlStates
  BY DEF TypeOK, TransitionState, Signals, RateControlStates
<1>2. moved \in [state : RateControlStates, currentRate : Nat,
                 lastUpdate : Times \cup {NoTime}]
  BY <1>1 DEF TypeOK
<1>3. adjusted \in Nat
  BY <1>2, AdjustRateType
<1>4. incoming \in Nat
  BY InputAssumption
<1>5. /\ final \in Nat
      /\ final > 0
      /\ final <= Ceiling(incoming)
      /\ final >= MinOf(MinBitrate, Ceiling(incoming))
  BY <1>3, <1>4, LimitedInBand
<1>6. Updated(rc, signal, incoming, t)
        = [moved EXCEPT !.currentRate = final, !.lastUpdate = t]
  BY DEF Updated
<1> HIDE DEF final
<1> QED BY <1>1, <1>2, <1>5, <1>6 DEF TypeOK

(* The controller's fields keep their types in every execution. *)
THEOREM TypeCorrect == Spec => []TypeOK
<1>1. Init => TypeOK
  BY BoundsPositive DEF Init, TypeOK, NewController, RateControlStates
<1>2. TypeOK /\ [Next]_vars => TypeOK'
  <2> SUFFICES ASSUME TypeOK, [Next]_vars PROVE TypeOK'
    OBVIOUS
  <2>1. ASSUME NEW signal \in Signals, NEW incoming \in IncomingRates,
               NEW t \in Times, Update(signal, incoming, t)
        PROVE  TypeOK'
    BY <2>1, UpdatedFields DEF TypeOK, Update
  <2>2. CASE Reset
    BY <2>2, BoundsPositive DEF Reset, TypeOK, NewController, RateControlStates
  <2>3. CASE UNCHANGED vars
    BY <2>3 DEF vars, TypeOK
  <2> QED BY <2>1, <2>2, <2>3 DEF Next
<1> QED BY <1>1, <1>2, PTL DEF Spec

(* The estimate is positive in every reachable state: neither a zero       *)
(* incoming rate nor truncation can strand the controller at zero.         *)
THEOREM PositiveEstimate == Spec => []EstimatePositive
<1>1. Init => EstimatePositive
  BY BoundsPositive DEF Init, EstimatePositive, NewController
<1>2. TypeOK /\ EstimatePositive /\ [Next]_vars => EstimatePositive'
  <2> SUFFICES ASSUME TypeOK, EstimatePositive, [Next]_vars
               PROVE  EstimatePositive'
    OBVIOUS
  <2>1. ASSUME NEW signal \in Signals, NEW incoming \in IncomingRates,
               NEW t \in Times, Update(signal, incoming, t)
        PROVE  EstimatePositive'
    BY <2>1, UpdatedFields DEF EstimatePositive, Update
  <2>2. CASE Reset
    BY <2>2, BoundsPositive DEF Reset, EstimatePositive, NewController
  <2>3. CASE UNCHANGED vars
    BY <2>3 DEF vars, EstimatePositive
  <2> QED BY <2>1, <2>2, <2>3 DEF Next
<1> QED BY <1>1, <1>2, TypeCorrect, PTL DEF Spec

(* After every update the estimate lies in the band that MinBitrate,       *)
(* MaxBitrate and the measured incoming rate span together.                *)
THEOREM BandedEstimate == Spec => []EstimateInBand
<1>1. Init => EstimateInBand
  BY DEF Init, EstimateInBand
<1>2. TypeOK /\ EstimateInBand /\ [Next]_vars => EstimateInBand'
  <2> SUFFICES ASSUME TypeOK, EstimateInBand, [Next]_vars
               PROVE  EstimateInBand'
    OBVIOUS
  <2>1. ASSUME NEW signal \in Signals, NEW incoming \in IncomingRates,
               NEW t \in Times, Update(signal, incoming, t)
        PROVE  EstimateInBand'
    BY <2>1, UpdatedFields DEF EstimateInBand, Update
  <2>2. CASE Reset
    BY <2>2 DEF Reset, EstimateInBand
  <2>3. CASE UNCHANGED vars
    BY <2>3 DEF vars, EstimateInBand
  <2> QED BY <2>1, <2>2, <2>3 DEF Next
<1> QED BY <1>1, <1>2, TypeCorrect, PTL DEF Spec

-----------------------------------------------------------------------------
(* The state answers the last signal: after an overuse it is Decrease.     *)
StateOfOveruse == lastSignal = "Overusing" => rc.state = "Decrease"

LEMMA StateOfOveruseInvariant == Spec => []StateOfOveruse
<1>1. Init => StateOfOveruse
  BY DEF Init, StateOfOveruse
<1>2. TypeOK /\ StateOfOveruse /\ [Next]_vars => StateOfOveruse'
  <2> SUFFICES ASSUME TypeOK, StateOfOveruse, [Next]_vars PROVE StateOfOveruse'
    OBVIOUS
  <2>1. ASSUME NEW signal \in Signals, NEW incoming \in IncomingRates,
               NEW t \in Times, Update(signal, incoming, t)
        PROVE  StateOfOveruse'
    <3>1. rc'.state = TransitionState(rc.state, signal) /\ lastSignal' = signal
      BY <2>1, UpdatedFields DEF Update
    <3> QED BY <3>1 DEF StateOfOveruse, TransitionState
  <2>2. CASE Reset
    BY <2>2 DEF Reset, StateOfOveruse
  <2>3. CASE UNCHANGED vars
    BY <2>3 DEF vars, StateOfOveruse
  <2> QED BY <2>1, <2>2, <2>3 DEF Next
<1> QED BY <1>1, <1>2, TypeCorrect, PTL DEF Spec

(* The last two clamps raise a rate at most to the floor. *)
LEMMA LimitedFromAbove ==
  ASSUME NEW rate \in Nat, NEW incoming \in Nat, NEW bound \in Nat, rate <= bound
  PROVE  LimitByIncoming(ClampRate(rate), incoming) <= MaxOf(bound, MinBitrate)
<1>1. ClampRate(rate) \in Nat /\ ClampRate(rate) <= MaxOf(bound, MinBitrate)
  BY BoundsPositive DEF ClampRate, MinOf, MaxOf
<1>2. MaxOf(bound, MinBitrate) \in Nat
  BY BoundsPositive DEF MaxOf
<1> HIDE DEF ClampRate
<1> QED BY <1>1, <1>2 DEF LimitByIncoming, MinOf, Ratio

(* What an update computes before the clamps, when it is not an overuse.   *)
LEMMA UpdatedFromAbove ==
  ASSUME TypeOK,
         NEW signal \in Signals, NEW incoming \in IncomingRates, NEW t \in Times,
         NEW bound \in Nat,
         AdjustRate([rc EXCEPT !.state = TransitionState(@, signal)], incoming, t) <= bound
  PROVE  Updated(rc, signal, incoming, t).currentRate <= MaxOf(bound, MinBitrate)
<1> DEFINE moved == [rc EXCEPT !.state = TransitionState(@, signal)]
           final == LimitByIncoming(ClampRate(AdjustRate(moved, incoming, t)), incoming)
<1>1. TransitionState(rc.state, signal) \in RateControlStates
  BY DEF TypeOK, TransitionState, Signals, RateControlStates
<1>2. moved \in [state : RateControlStates, currentRate : Nat,
                 lastUpdate : Times \cup {NoTime}]
  BY <1>1 DEF TypeOK
<1>3. AdjustRate(moved, incoming, t) \in Nat /\ incoming \in Nat
  BY <1>2, AdjustRateType, InputAssumption
<1>4. final <= MaxOf(bound, MinBitrate)
  BY <1>3, LimitedFromAbove
<1>5. Updated(rc, signal, incoming, t)
        = [moved EXCEPT !.currentRate = final, !.lastUpdate = t]
  BY DEF Updated
<1> HIDE DEF final
<1> QED BY <1>2, <1>4, <1>5

(* After an overuse the next update passes through Hold, so that nothing   *)
(* but another overuse or the floor raises the estimate.                   *)
THEOREM OveruseThenHold == Spec => NoGrowthAfterOveruse
<1>1. ASSUME TypeOK, StateOfOveruse, [Next]_vars, lastSignal = "Overusing",
             lastSignal' \in {"Normal", "Underusing"}
      PROVE  rc'.currentRate <= MaxOf(rc.currentRate, MinBitrate)
  <2>1. PICK signal \in Signals, incoming \in IncomingRates, t \in Times :
          Update(signal, incoming, t)
    BY <1>1 DEF Next, Reset, vars
  <2>2. signal \in {"Normal", "Underusing"}
    BY <1>1, <2>1 DEF Update
  <2> DEFINE moved == [rc EXCEPT !.state = TransitionState(@, signal)]
  <2>3. moved.state = "Hold" /\ moved.currentRate = rc.currentRate
    BY <1>1, <2>2 DEF TypeOK, StateOfOveruse, TransitionState
  <2>4. AdjustRate(moved, incoming, t) = rc.currentRate /\ rc.currentRate \in Nat
    BY <1>1, <2>3 DEF AdjustRate, TypeOK
  <2>5. Updated(rc, signal, incoming, t).currentRate <= MaxOf(rc.currentRate, MinBitrate)
    BY <1>1, <2>4, UpdatedFromAbove
  <2> QED BY <2>1, <2>5 DEF Update
<1>2. TypeOK /\ StateOfOveruse /\ [Next]_vars
        => [lastSignal = "Overusing" /\ lastSignal' \in {"Normal", "Underusing"} =>
              rc'.currentRate <= MaxOf(rc.currentRate, MinBitrate)]_vars
  BY <1>1
<1> QED BY <1>2, TypeCorrect, StateOfOveruseInvariant, PTL DEF Spec, NoGrowthAfterOveruse

-----------------------------------------------------------------------------
LEMMA DivMonotone ==
  ASSUME NEW a \in Nat, NEW b \in Nat, NEW d \in Nat \ {0}, a <= b
  PROVE  a \div d <= b \div d
OBVIOUS

LEMMA ProductMonotone ==
  ASSUME NEW a \in Nat, NEW b \in Nat, NEW r \in Nat, a <= b
  PROVE  a * r <= b * r
OBVIOUS

(* Growth is monotone in the elapsed time, and none in no time.            *)
LEMMA GrownMonotone ==
  ASSUME NEW rate \in Nat, NEW e \in 0 .. Second
  PROVE  /\ Grown(rate, e) \in Nat /\ Grown(rate, Second) \in Nat
         /\ Grown(rate, e) <= Grown(rate, Second)
         /\ rate <= Grown(rate, Second)
<1>1. /\ Eta[e] \in Nat /\ Eta[Second] \in Nat /\ Eta[e] <= Eta[Second]
      /\ Eta[0] = EtaDen /\ Eta[0] <= Eta[Second] /\ EtaDen \in Nat \ {0}
  BY EtaAssumption
<1>2. /\ Eta[e] * rate \in Nat /\ Eta[Second] * rate \in Nat
      /\ Eta[e] * rate <= Eta[Second] * rate
  BY <1>1, ProductIsNat, ProductMonotone
<1>3. EtaDen * rate \in Nat /\ EtaDen * rate <= Eta[Second] * rate
  BY <1>1, ProductIsNat, ProductMonotone
<1>4. (EtaDen * rate) \div EtaDen = rate
  BY <1>1
<1> QED BY <1>1, <1>2, <1>3, <1>4, DivMonotone, ScaledIsNat DEF Grown

(* However long the silence before it, and however far back the time of a  *)
(* packet, one update grows the estimate by a second's worth at most.      *)
THEOREM GrowthBounded == Spec => GrowthPerUpdateBounded
<1>1. ASSUME TypeOK, Next, lastSignal' \in {"Normal", "Underusing"}
      PROVE  rc'.currentRate <= MaxOf(Grown(rc.currentRate, Second), MinBitrate)
  <2>1. PICK signal \in Signals, incoming \in IncomingRates, t \in Times :
          Update(signal, incoming, t)
    BY <1>1 DEF Next, Reset
  <2>2. signal \in {"Normal", "Underusing"}
    BY <1>1, <2>1 DEF Update
  <2> DEFINE moved == [rc EXCEPT !.state = TransitionState(@, signal)]
             bound == Grown(rc.currentRate, Second)
  <2>3. /\ moved.state \in {"Hold", "Increase"}
        /\ moved.currentRate = rc.currentRate /\ moved.lastUpdate = rc.lastUpdate
    BY <1>1, <2>2 DEF TypeOK, RateControlStates, TransitionState
  <2>4. /\ rc.currentRate \in Nat /\ t \in Nat /\ Second \in Nat
        /\ rc.lastUpdate # NoTime => rc.lastUpdate \in Nat
    BY <1>1, InputAssumption, EtaAssumption DEF TypeOK
  <2>5. bound \in Nat /\ rc.currentRate <= bound
    <3>1. 0 \in 0 .. Second
      BY <2>4
    <3> QED BY <2>4, <3>1, GrownMonotone
  <2>6. AdjustRate(moved, incoming, t) <= bound
    <3>1. CASE moved.lastUpdate # NoTime /\ Elapsed(moved, t) > 0
      <4>1. Elapsed(moved, t) \in 0 .. Second
        BY <2>3, <2>4, <3>1 DEF Elapsed, MinOf
      <4>2. Grown(rc.currentRate, Elapsed(moved, t)) <= bound
        BY <2>4, <4>1, GrownMonotone
      <4> QED BY <2>3, <2>5, <3>1, <4>2 DEF AdjustRate
    <3>2. CASE ~(moved.lastUpdate # NoTime /\ Elapsed(moved, t) > 0)
      BY <2>3, <2>5, <3>2 DEF AdjustRate
    <3> QED BY <3>1, <3>2
  <2> HIDE DEF bound
  <2>7. Updated(rc, signal, incoming, t).currentRate <= MaxOf(bound, MinBitrate)
    BY <1>1, <2>5, <2>6, UpdatedFromAbove
  <2> QED BY <2>1, <2>7 DEF Update, bound
<1>2. TypeOK /\ [Next]_vars
        => [lastSignal' \in {"Normal", "Underusing"} =>
              rc'.currentRate <= MaxOf(Grown(rc.currentRate, Second), MinBitrate)]_vars
  BY <1>1
<1> QED BY <1>2, TypeCorrect, PTL DEF Spec, GrowthPerUpdateBounded

-----------------------------------------------------------------------------
(* The estimator.                                                          *)

(* With an initial bitrate that needs no default, the published estimate   *)
(* and the controller's rate never differ.                                 *)
THEOREM EstimateAgreement ==
  ASSUME ConfigInitial \in Nat \ {0}
  PROVE  EstimatorSpec => []EstimateIsControllers
<1>1. NewController.currentRate = ConfigInitial
  BY DEF NewController, InitialBitrate, OrDefault
<1>2. EstimatorInit => EstimateIsControllers
  BY <1>1 DEF EstimatorInit, Init, EstimateIsControllers
<1>3. EstimateIsControllers /\ [EstimatorNext]_estimatorVars => EstimateIsControllers'
  <2> SUFFICES ASSUME EstimateIsControllers, [EstimatorNext]_estimatorVars PROVE EstimateIsControllers'
    OBVIOUS
  <2>1. ASSUME NEW ssrc, NEW size, NEW t, NEW m, OnPacketWithoutRate(ssrc, size, t, m)
        PROVE  EstimateIsControllers'
    BY <2>1 DEF OnPacketWithoutRate, vars, EstimateIsControllers
  <2>2. ASSUME NEW ssrc, NEW size, NEW t, NEW m, OnPacketWithRate(ssrc, size, t, m)
        PROVE  EstimateIsControllers'
    BY <2>2 DEF OnPacketWithRate, EstimateIsControllers
  <2>3. CASE ResetAll
    BY <1>1, <2>3 DEF ResetAll, Reset, EstimateIsControllers
  <2>4. CASE GetIncomingRate \/ MaybeBuildREMB \/ Advance \/ UNCHANGED estimatorVars
    BY <2>4 DEF GetIncomingRate, MaybeBuildREMB, Advance, estimatorVars, pipeline, vars,
                EstimateIsControllers
  <2> QED BY <2>1, <2>2, <2>3, <2>4 DEF EstimatorNext, Call
<1> QED BY <1>2, <1>3, PTL DEF EstimatorSpec

-----------------------------------------------------------------------------
(* What transitionState does with a signal, whatever the state. *)
LEMMA TransitionFollowsSignal ==
  ASSUME NEW state, NEW signal \in OD!Usages
  PROVE  /\ TransitionState(state, signal) = "Decrease" <=> signal = "Overusing"
         /\ TransitionState(state, signal) = "Increase" => signal = "Normal"
BY DEF OD!Usages, TransitionState

LEMMA UpdatedState ==
  ASSUME NEW c, "state" \in DOMAIN c, NEW signal, NEW incoming, NEW t
  PROVE  /\ Updated(c, signal, incoming, t).state = TransitionState(c.state, signal)
         /\ "state" \in DOMAIN Updated(c, signal, incoming, t)
BY DEF Updated

(* The little that the argument needs to know of a detector's type. *)
IsDetector(x) == "hypothesis" \in DOMAIN x /\ x.hypothesis \in OD!Usages

LEMMA DetectedIsDetector ==
  ASSUME NEW x, IsDetector(x), NEW m, NEW t
  PROVE  IsDetector(OD!Detected(x, m, t))
<1> DEFINE u == OD!UpdateThreshold(x, m, t)
           c == OD!Classify(u, m, t)
<1>1. IsDetector(u)
  BY DEF IsDetector, OD!UpdateThreshold
<1> HIDE DEF u
<1>2. IsDetector(OD!TrackRegion(u, t))
  BY <1>1 DEF IsDetector, OD!TrackRegion
<1>3. IsDetector(c)
  <2>1. CASE m > u.threshold
    BY <1>2, <2>1 DEF IsDetector, OD!Classify, OD!Usages
  <2>2. CASE ~(m > u.threshold)
    BY <1>1, <2>2 DEF IsDetector, OD!Classify, OD!Usages
  <2> QED BY <2>1, <2>2
<1> HIDE DEF c
<1> QED BY <1>3 DEF OD!Detected, IsDetector, c, u

IInv ==
  /\ IsDetector(det)
  /\ "state" \in DOMAIN rc
  /\ ControllerFollowsDetector

LEMMA NewParts == IsDetector(OD!NewDetector) /\ "state" \in DOMAIN NewController
BY DEF IsDetector, OD!NewDetector, OD!Usages, NewController

LEMMA IInvInit == EstimatorInit => IInv
BY NewParts DEF EstimatorInit, Init, IInv, ControllerFollowsDetector

LEMMA IInvStep ==
  ASSUME IInv, [EstimatorNext]_estimatorVars
  PROVE  IInv'
<1>1. ASSUME NEW ssrc, NEW size, NEW t, NEW m, Receive(ssrc, size, t, m)
      PROVE  IsDetector(det')
  BY <1>1, DetectedIsDetector DEF Receive, Observed, IInv
<1>2. ASSUME NEW ssrc, NEW size, NEW t, NEW m, OnPacketWithoutRate(ssrc, size, t, m)
      PROVE  IInv'
  <2>1. IsDetector(det')
    BY <1>1, <1>2 DEF OnPacketWithoutRate
  <2> QED BY <1>2, <2>1 DEF OnPacketWithoutRate, vars, IInv, IsDetector,
                            ControllerFollowsDetector
<1>3. ASSUME NEW ssrc, NEW size, NEW t, NEW m, OnPacketWithRate(ssrc, size, t, m)
      PROVE  IInv'
  <2>1. IsDetector(det')
    BY <1>1, <1>3 DEF OnPacketWithRate
  <2>2. /\ rc'.state = TransitionState(rc.state, det'.hypothesis)
        /\ "state" \in DOMAIN rc'
    BY <1>3, UpdatedState DEF OnPacketWithRate, Update, Signal, IInv
  <2>3. ControllerFollowsDetector'
    BY <2>1, <2>2, TransitionFollowsSignal DEF IsDetector, ControllerFollowsDetector
  <2> QED BY <2>1, <2>2, <2>3 DEF IInv, IsDetector
<1>4. CASE ResetAll
  BY <1>4, NewParts DEF ResetAll, Reset, IInv, IsDetector, ControllerFollowsDetector
<1>5. CASE GetIncomingRate \/ MaybeBuildREMB \/ Advance \/ UNCHANGED estimatorVars
  BY <1>5 DEF GetIncomingRate, MaybeBuildREMB, Advance, estimatorVars, pipeline, vars, history,
              IInv, IsDetector, ControllerFollowsDetector
<1> QED BY <1>2, <1>3, <1>4, <1>5 DEF EstimatorNext, Call

(* Early returns, bursts and resets never leave the rate controller behind *)
(* the detector once a packet has had a rate.                              *)
THEOREM ControllerFollows == EstimatorSpec => []ControllerFollowsDetector
<1>1. IInv => ControllerFollowsDetector
  BY DEF IInv
<1> QED BY <1>1, IInvInit, IInvStep, PTL DEF EstimatorSpec

-----------------------------------------------------------------------------
(* The lemmas on the window and its total, for the estimator's RateStats. *)
RSP == INSTANCE RateStatsProofs WITH
         TicksPerSecond <- Second, Skew <- MaxLag,
         answer <- 0, latest <- now, lastCall <- lastArrival, lateness <- 0

LEMMA StatsConfigured == RSP!ConfigAssumption
BY EstimatorAssumption, EtaAssumption DEF RSP!ConfigAssumption

LEMMA SameStats ==
  ASSUME NEW r, NEW t, NEW size
  PROVE  /\ RS!RemoveExpired(r, t) = RSP!RemoveExpired(r, t)
         /\ RS!Updated(r, size, t) = RSP!Updated(r, size, t)
<1>1. RS!RemoveExpired(r, t) = RSP!RemoveExpired(r, t)
  BY DEF RS!RemoveExpired, RSP!RemoveExpired, RS!ExpiredCount, RSP!ExpiredCount,
         RS!SelectInSeq, RSP!SelectInSeq, RS!Min, RSP!Min, RS!SumBytes, RSP!SumBytes
<1> QED BY <1>1 DEF RS!Updated, RSP!Updated

LEMMA RemoveExpiredExact ==
  ASSUME NEW r, RSP!Exact(r), NEW t \in Int
  PROVE  RSP!Exact(RS!RemoveExpired(r, t))
BY StatsConfigured, SameStats, RSP!RemoveExpiredExact

(* A packet is counted, alone if the window had nothing fresh.             *)
LEMMA CountedExact ==
  ASSUME RSP!Exact(rs), NEW size \in Nat, NEW t \in Nat
  PROVE  /\ RSP!Exact(Counted(size, t))
         /\ (\A i \in 1 .. Len(rs.samples) : rs.samples[i].timestamp < t - WindowSize)
              => Len(Counted(size, t).samples) = 1
<1> DEFINE u == RSP!Updated(rs, size, t)
           kept == RSP!RemoveExpired(rs, t).samples
           arrived == [timestamp |-> t, bytes |-> size]
<1>1. Counted(size, t) = RSP!RemoveExpired(u, t)
  BY SameStats DEF Counted
<1>2. RSP!Exact(u)
  BY StatsConfigured, RSP!UpdatedExact
<1>3. RSP!Exact(RSP!RemoveExpired(u, t))
  <2> HIDE DEF u
  <2> QED BY <1>2, StatsConfigured, RSP!RemoveExpiredExact
<1>4. ASSUME \A i \in 1 .. Len(rs.samples) : rs.samples[i].timestamp < t - WindowSize
      PROVE  Len(RSP!RemoveExpired(u, t).samples) = 1
  <2>1. rs.samples \in Seq(RSP!Sample) /\ t \in Int
    BY DEF RSP!Exact
  <2>2. /\ kept \in Seq(RSP!Sample) /\ Len(kept) <= Len(rs.samples)
        /\ Len(kept) > 0 => kept[1].timestamp >= t - WindowSize
        /\ Len(kept) > 0 => \E i \in 1 .. Len(rs.samples) : kept[1] = rs.samples[i]
    <3> DEFINE n == RSP!ExpiredCount(rs.samples, t - WindowSize)
    <3>1. /\ n \in 0 .. Len(rs.samples)
          /\ kept \in Seq(RSP!Sample) /\ Len(kept) = Len(rs.samples) - n
          /\ \A i \in 1 .. Len(kept) : kept[i] = rs.samples[n + i]
          /\ Len(kept) > 0 => kept[1].timestamp >= t - WindowSize
      BY <2>1, StatsConfigured, RSP!Trimmed
    <3>2. Len(rs.samples) \in Nat
      BY <2>1, LenProperties
    <3> HIDE DEF n, kept
    <3>3. ASSUME Len(kept) > 0
          PROVE  n + 1 \in 1 .. Len(rs.samples) /\ kept[1] = rs.samples[n + 1]
      BY <3>1, <3>2, <3>3
    <3>4. Len(kept) <= Len(rs.samples)
      BY <3>1, <3>2
    <3> QED BY <3>1, <3>3, <3>4
  <2>3. ASSUME Len(kept) > 0 PROVE FALSE
    <3>1. PICK i \in 1 .. Len(rs.samples) : kept[1] = rs.samples[i]
      BY <2>2, <2>3
    <3>2. rs.samples[i].timestamp \in Nat
      BY <2>1, StatsConfigured, RSP!SampleTypes
    <3>3. t - WindowSize \in Int
      BY EstimatorAssumption
    <3> HIDE DEF kept
    <3> QED BY <1>4, <2>2, <2>3, <3>1, <3>2, <3>3
  <2>4. Len(kept) = 0
    <3>1. Len(kept) \in Nat
      BY <2>2, LenProperties
    <3> HIDE DEF kept
    <3> QED BY <2>3, <3>1
  <2>5. u.samples = Append(kept, arrived)
    BY DEF RSP!Updated
  <2>6. arrived \in RSP!Sample /\ arrived.timestamp = t
    BY DEF RSP!Sample
  <2> HIDE DEF u, kept, arrived
  <2>7. u.samples \in Seq(RSP!Sample) /\ Len(u.samples) = 1 /\ u.samples[1].timestamp = t
    <3>1. /\ Append(kept, arrived)[Len(kept) + 1] = arrived
          /\ Len(Append(kept, arrived)) = Len(kept) + 1
          /\ Append(kept, arrived) \in Seq(RSP!Sample)
      BY <2>2, <2>6, AppendProperties
    <3> QED BY <2>4, <2>5, <2>6, <3>1
  <2> DEFINE n == RSP!ExpiredCount(u.samples, t - WindowSize)
  <2>8. /\ n \in 0 .. Len(u.samples)
        /\ Len(RSP!RemoveExpired(u, t).samples) = Len(u.samples) - n
        /\ \A i \in 1 .. n : u.samples[i].timestamp < t - WindowSize
    BY <2>1, <2>7, StatsConfigured, RSP!Trimmed
  <2>9. ~(t < t - WindowSize)
    BY EstimatorAssumption
  <2> HIDE DEF n
  <2>10. n = 0
    <3>1. n \in 0 .. 1
      BY <2>7, <2>8
    <3>2. n # 1
      BY <2>7, <2>8, <2>9
    <3> QED BY <3>1, <3>2
  <2> QED BY <2>7, <2>8, <2>10
<1> QED BY <1>1, <1>3, <1>4

-----------------------------------------------------------------------------
StatsInv == RSP!Exact(rs) /\ now \in Nat

LEMMA StatsInvInit == EstimatorInit => StatsInv
<1>1. RSP!Exact(RSP!NewRateStats)
  BY StatsConfigured, RSP!NewStatsFacts
<1> QED BY <1>1 DEF EstimatorInit, StatsInv, RS!NewRateStats, RSP!NewRateStats

LEMMA StatsInvStep ==
  ASSUME StatsInv, [EstimatorNext]_estimatorVars
  PROVE  StatsInv'
<1>1. ASSUME NEW ssrc \in SSRCs, NEW size \in Sizes, NEW lag \in 0 .. MaxLag,
             NEW m \in FilterOutputs, now >= lag, Receive(ssrc, size, now - lag, m)
      PROVE  StatsInv'
  <2>1. size \in Nat /\ now - lag \in Nat
    BY <1>1, EstimatorAssumption DEF StatsInv
  <2>2. RSP!Exact(Counted(size, now - lag))
    BY <2>1, CountedExact DEF StatsInv
  <2>3. rs' = Counted(size, now - lag) /\ now' = now
    BY <1>1 DEF Receive
  <2> QED BY <2>2, <2>3 DEF StatsInv, RSP!Exact
<1>2. CASE GetIncomingRate
  <2>1. RSP!Exact(RS!RemoveExpired(rs, now))
    BY RemoveExpiredExact DEF StatsInv
  <2> QED BY <1>2, <2>1 DEF GetIncomingRate, StatsInv, RSP!Exact
<1>3. CASE ResetAll
  <2>1. RSP!Exact(RSP!NewRateStats)
    BY StatsConfigured, RSP!NewStatsFacts
  <2> QED BY <1>3, <2>1 DEF ResetAll, StatsInv, RSP!Exact, RS!NewRateStats, RSP!NewRateStats
<1>4. CASE MaybeBuildREMB \/ Advance \/ UNCHANGED estimatorVars
  BY <1>4 DEF MaybeBuildREMB, Advance, estimatorVars, StatsInv, RSP!Exact
<1> QED BY <1>1, <1>2, <1>3, <1>4 DEF EstimatorNext, Call, OnPacketWithoutRate, OnPacketWithRate

(* A rate, where there is one, is a natural.                               *)
LEMMA MeasuredType ==
  ASSUME NEW r, RSP!Exact(r), RS!Measured(r) # RS!NoRate
  PROVE  RS!Measured(r) \in Nat
<1> DEFINE s == r.samples
           elapsed == s[Len(s)].timestamp - s[1].timestamp
<1>1. s \in Seq(RSP!Sample) /\ Len(s) \in Nat
  BY LenProperties DEF RSP!Exact
<1>2. ~(Len(s) < 2)
  BY DEF RS!Measured
<1>3. s # <<>> /\ 1 \in 1 .. Len(s) /\ Len(s) \in 1 .. Len(s)
  <2>1. s # <<>>
    BY <1>2, EmptySeq
  <2> HIDE DEF s
  <2> QED BY <1>1, <1>2, <2>1
<1>4. RS!Last(s) = s[Len(s)] /\ Head(s) = s[1]
  BY <1>1, <1>3, HeadTailProperties DEF RS!Last
<1>5. elapsed \in Int
  <2>1. s[1].timestamp \in Nat /\ s[Len(s)].timestamp \in Nat
    BY <1>1, <1>3, StatsConfigured, RSP!SampleTypes
  <2> QED BY <2>1
<1>6. r.totalBytes \in Nat
  BY StatsConfigured, RSP!SumType DEF RSP!Exact
<1>7. ~(elapsed < MinElapsed)
  BY <1>4 DEF RS!Measured
<1>8. RS!Measured(r) = (8 * r.totalBytes * Second) \div elapsed
  BY <1>2, <1>4, <1>7 DEF RS!Measured
<1> HIDE DEF elapsed
<1>9. elapsed \in Nat \ {0}
  BY <1>5, <1>7, EstimatorAssumption
<1>10. 8 * r.totalBytes * Second \in Nat
  <2>1. 8 * r.totalBytes \in Nat /\ Second \in Nat
    BY <1>6, EtaAssumption
  <2> QED BY <2>1, ProductIsNat
<1> QED BY <1>8, <1>9, <1>10, ScaledIsNat

-----------------------------------------------------------------------------
(* Every step of the estimator is an Update of its rate controller with a  *)
(* verdict of the detector, a natural rate and a time that is not negative,*)
(* a Reset of it, or leaves it alone.                                      *)
LEMMA StepIsControllers ==
  ASSUME Nat \subseteq IncomingRates, Nat \subseteq Times,
         StatsInv, IInv, IInv', [EstimatorNext]_estimatorVars
  PROVE  [Next]_vars
<1>1. ASSUME NEW ssrc \in SSRCs, NEW size \in Sizes, NEW lag \in 0 .. MaxLag,
             NEW m \in FilterOutputs, now >= lag,
             OnPacketWithRate(ssrc, size, now - lag, m)
      PROVE  Next
  <2>1. size \in Nat /\ now - lag \in Nat
    BY <1>1, EstimatorAssumption DEF StatsInv
  <2>2. RSP!Exact(rs')
    <3>1. RSP!Exact(Counted(size, now - lag))
      BY <2>1, CountedExact DEF StatsInv
    <3> QED BY <1>1, <3>1 DEF OnPacketWithRate, Receive
  <2>3. RS!Measured(rs') \in Nat
    BY <1>1, <2>2, MeasuredType DEF OnPacketWithRate
  <2>4. Signal(now - lag) \in Signals
    BY DEF Signal, IInv, IsDetector, OD!Usages, Signals
  <2>5. Update(Signal(now - lag), RS!Measured(rs'), now - lag)
    BY <1>1 DEF OnPacketWithRate
  <2> QED BY <2>1, <2>3, <2>4, <2>5 DEF Next
<1>2. ASSUME NEW ssrc, NEW size, NEW t, NEW m, OnPacketWithoutRate(ssrc, size, t, m)
      PROVE  UNCHANGED vars
  BY <1>2 DEF OnPacketWithoutRate
<1>3. CASE ResetAll
  BY <1>3 DEF ResetAll, Next
<1>4. CASE GetIncomingRate \/ MaybeBuildREMB \/ Advance \/ UNCHANGED estimatorVars
  BY <1>4 DEF GetIncomingRate, MaybeBuildREMB, Advance, estimatorVars, pipeline, history
<1> QED BY <1>1, <1>2, <1>3, <1>4 DEF EstimatorNext, Call

LEMMA EstimatorInv == EstimatorSpec => [](StatsInv /\ IInv)
<1>1. EstimatorInit => StatsInv /\ IInv
  BY StatsInvInit, IInvInit
<1>2. StatsInv /\ IInv /\ [EstimatorNext]_estimatorVars => StatsInv' /\ IInv'
  BY StatsInvStep, IInvStep
<1> QED BY <1>1, <1>2, PTL DEF EstimatorSpec

(* The estimator implements its rate controller: whatever packets, lags,   *)
(* verdicts, failing measurements and resets do, the controller sees no    *)
(* more than a sequence of updates and resets.                             *)
THEOREM EstimatorImplementsController ==
  ASSUME Nat \subseteq IncomingRates, Nat \subseteq Times
  PROVE  EstimatorSpec => Spec
<1>1. EstimatorInit => Init
  BY DEF EstimatorInit
<1>2. StatsInv /\ IInv /\ (StatsInv /\ IInv)' /\ [EstimatorNext]_estimatorVars => [Next]_vars
  BY StepIsControllers
<1> QED BY <1>1, <1>2, EstimatorInv, PTL DEF Spec, EstimatorSpec

(* So what is proved of the controller holds of the estimate that is fed   *)
(* by real measurements: positive, in the band of its bounds and of the    *)
(* measured rate, and growing no sooner and no faster than AIMD allows.    *)
THEOREM EstimatorKeepsBounds ==
  ASSUME Nat \subseteq IncomingRates, Nat \subseteq Times
  PROVE  EstimatorSpec => /\ [](EstimatePositive /\ EstimateInBand)
                          /\ NoGrowthAfterOveruse /\ GrowthPerUpdateBounded
BY EstimatorImplementsController, PositiveEstimate, BandedEstimate,
   OveruseThenHold, GrowthBounded, PTL

-----------------------------------------------------------------------------
(* A single sample makes no rate, so the first packet after a silence      *)
(* leaves the estimate alone, whatever the sizes, lags and verdicts.       *)
THEOREM SilenceKeepsEstimate == EstimatorSpec => IdleKeepsEstimate
<1> DEFINE Kept ==
             (op' = "packet"
                /\ (\A i \in DOMAIN rs.samples :
                      rs.samples[i].timestamp < lastArrival' - WindowSize))
               => estimate' = estimate
<1>1. StatsInv /\ [EstimatorNext]_estimatorVars => [Kept]_estimatorVars
  <2> SUFFICES ASSUME StatsInv, EstimatorNext, op' = "packet",
                      \A i \in DOMAIN rs.samples :
                        rs.samples[i].timestamp < lastArrival' - WindowSize
               PROVE  estimate' = estimate
    OBVIOUS
  <2>1. PICK ssrc \in SSRCs, size \in Sizes, lag \in 0 .. MaxLag, m \in FilterOutputs :
          /\ now >= lag
          /\ \/ OnPacketWithoutRate(ssrc, size, now - lag, m)
             \/ OnPacketWithRate(ssrc, size, now - lag, m)
    BY DEF EstimatorNext, Call, GetIncomingRate, MaybeBuildREMB, ResetAll, Advance
  <2>2. rs' = Counted(size, now - lag) /\ lastArrival' = now - lag
    BY <2>1 DEF OnPacketWithoutRate, OnPacketWithRate, Receive
  <2>3. size \in Nat /\ now - lag \in Nat /\ DOMAIN rs.samples = 1 .. Len(rs.samples)
    BY <2>1, EstimatorAssumption, LenProperties DEF StatsInv, RSP!Exact
  <2>4. Len(rs'.samples) = 1
    BY <2>2, <2>3, CountedExact DEF StatsInv
  <2>5. RS!Measured(rs') = RS!NoRate
    BY <2>4 DEF RS!Measured
  <2> QED BY <2>1, <2>5 DEF OnPacketWithoutRate, OnPacketWithRate
<1> QED BY <1>1, EstimatorInv, PTL DEF EstimatorSpec, IdleKeepsEstimate

-----------------------------------------------------------------------------
RembInv == estimate \in Int /\ RembHonest

(* Whatever comes between two requests for a REMB, a request leaves the    *)
(* remote sender with a value that is not a significant overstatement.     *)
THEOREM RembIsHonest ==
  ASSUME Nat \subseteq IncomingRates, Nat \subseteq Times
  PROVE  EstimatorSpec => []RembHonest
<1>1. EstimatorInit => RembInv
  BY ConfigAssumption DEF EstimatorInit, RembInv, RembHonest
<1>2. RembInv /\ TypeOK' /\ [EstimatorNext]_estimatorVars => RembInv'
  <2> SUFFICES ASSUME RembInv, TypeOK', [EstimatorNext]_estimatorVars PROVE RembInv'
    OBVIOUS
  <2>1. CASE MaybeBuildREMB
    <3>1. estimate' = estimate /\ ssrcs' = ssrcs
      BY <2>1 DEF MaybeBuildREMB, pipeline
    <3>2. ASSUME ssrcs # {}
          PROVE  ~Sched!SignificantDecrease(sched', estimate)
      <4>1. sched' = Sched!MaybeSendREMB(sched, estimate, now)
        BY <2>1, <3>2 DEF MaybeBuildREMB, Announceable
      <4>2. CASE Sched!ShouldSendREMB(sched, estimate, now)
        <5>1. sched'.lastValue = estimate
          BY <4>1, <4>2 DEF Sched!MaybeSendREMB, Sched!BuildAndRecordREMB
        <5>2. ~(estimate > 0 /\ (estimate - estimate) * DecreaseDen >= DecreaseNum * estimate)
          <6>1. SUFFICES ASSUME estimate > 0
                         PROVE  ~(0 >= DecreaseNum * estimate)
            BY EstimatorAssumption DEF RembInv
          <6> QED BY <6>1, EstimatorAssumption DEF RembInv
        <5> QED BY <5>1, <5>2 DEF Sched!SignificantDecrease
      <4>3. CASE ~Sched!ShouldSendREMB(sched, estimate, now)
        BY <4>1, <4>3 DEF Sched!MaybeSendREMB, Sched!ShouldSendREMB
      <4> QED BY <4>2, <4>3
    <3> QED BY <3>1, <3>2 DEF RembInv, RembHonest, Sched!SignificantDecrease
  <2>2. ASSUME NEW ssrc, NEW size, NEW t, NEW m, OnPacketWithoutRate(ssrc, size, t, m)
        PROVE  RembInv'
    BY <2>2 DEF OnPacketWithoutRate, Receive, RembInv, RembHonest
  <2>3. ASSUME NEW ssrc, NEW size, NEW t, NEW m, OnPacketWithRate(ssrc, size, t, m)
        PROVE  RembInv'
    BY <2>3 DEF OnPacketWithRate, Receive, RembInv, RembHonest, TypeOK
  <2>4. CASE ResetAll
    BY <2>4, ConfigAssumption DEF ResetAll, RembInv, RembHonest
  <2>5. CASE GetIncomingRate \/ Advance
    BY <2>5 DEF GetIncomingRate, Advance, pipeline, RembInv, RembHonest
  <2>6. CASE UNCHANGED estimatorVars
    BY <2>6 DEF estimatorVars, RembInv, RembHonest, Sched!SignificantDecrease
  <2> QED BY <2>1, <2>2, <2>3, <2>4, <2>5, <2>6 DEF EstimatorNext, Call
<1>3. RembInv => RembHonest
  BY DEF RembInv
<1> QED BY <1>1, <1>2, <1>3, EstimatorImplementsController, TypeCorrect, PTL DEF EstimatorSpec

-----------------------------------------------------------------------------
(* The estimator under its ticker.                                         *)
LEMMA LoopStepIsEstimators == [LoopNext]_loopVars => [EstimatorNext]_estimatorVars
BY DEF LoopNext, Tick, Called, Asked, Elapse, EstimatorNext, loopVars

(* The loop makes no call that BandwidthEstimator does not know of, so all *)
(* that is proved of the estimator holds under the loop as well.           *)
THEOREM LoopImplementsEstimator == LoopSpec => EstimatorSpec
<1>1. LoopInit => EstimatorInit
  BY DEF LoopInit
<1> QED BY <1>1, LoopStepIsEstimators, PTL DEF LoopSpec, EstimatorSpec

(* The last tick cleared every overstatement, and it sent a REMB if there  *)
(* was a source, unless the one before it was less than an interval old:   *)
(* so both histories are bounded from the next tick backwards.             *)
LoopInv ==
  /\ now \in Nat /\ nextTick \in Nat
  /\ {sched.lastSent, knownSince, overstatedSince} \subseteq Nat \cup {NoTime}
  /\ nextTick - Interval <= now /\ now <= nextTick + Jitter
  /\ overstatedSince # NoTime <=> Overstated
  /\ overstatedSince # NoTime => nextTick - overstatedSince <= Interval
  /\ knownSince # NoTime <=> ssrcs # {}
  /\ ssrcs # {} => \/ nextTick - knownSince <= Interval
                   \/ sched.lastSent # NoTime /\ nextTick - sched.lastSent < 2 * Interval

LEMMA LoopInvInit == LoopInit => LoopInv
<1> SUFFICES ASSUME LoopInit PROVE LoopInv
  OBVIOUS
<1>1. now = 0 /\ ssrcs = {} /\ sched.lastSent = NoTime /\ nextTick = Interval
      /\ knownSince = NoTime /\ overstatedSince = NoTime
  BY DEF LoopInit, EstimatorInit, Sched!NewREMBScheduler, Sched!NoTime, NoTime
<1> QED BY <1>1, LoopAssumption DEF LoopInv, Overstated

(* What Observe makes of the histories, whatever the step.                 *)
LEMMA ObserveFacts ==
  ASSUME LoopInv, Observe, now' \in Nat
  PROVE  /\ {knownSince', overstatedSince'} \subseteq Nat \cup {NoTime}
         /\ overstatedSince' # NoTime <=> Overstated'
         /\ knownSince' # NoTime <=> ssrcs' # {}
         /\ Overstated' /\ Overstated => overstatedSince' = overstatedSince
         /\ Overstated' /\ ~Overstated => overstatedSince' = now'
         /\ ssrcs' # {} /\ ssrcs # {} => knownSince' = knownSince
         /\ ssrcs' # {} /\ ssrcs = {} => knownSince' = now'
<1>1. knownSince \in Nat \cup {NoTime} /\ overstatedSince \in Nat \cup {NoTime}
  BY DEF LoopInv
<1>2. (knownSince # NoTime <=> ssrcs # {}) /\ (overstatedSince # NoTime <=> Overstated)
  BY DEF LoopInv
<1>3. now' # NoTime
  BY DEF NoTime
<1> HIDE DEF Overstated
<1>4. overstatedSince' = IF ~Overstated' THEN NoTime
                         ELSE IF overstatedSince = NoTime THEN now' ELSE overstatedSince
  BY DEF Observe, Began
<1>5. knownSince' = IF ~(ssrcs' # {}) THEN NoTime
                    ELSE IF knownSince = NoTime THEN now' ELSE knownSince
  BY DEF Observe, Began
<1>6. /\ overstatedSince' \in Nat \cup {NoTime}
      /\ overstatedSince' # NoTime <=> Overstated'
      /\ Overstated' /\ Overstated => overstatedSince' = overstatedSince
      /\ Overstated' /\ ~Overstated => overstatedSince' = now'
  BY <1>1, <1>2, <1>3, <1>4
<1>7. /\ knownSince' \in Nat \cup {NoTime}
      /\ knownSince' # NoTime <=> ssrcs' # {}
      /\ ssrcs' # {} /\ ssrcs # {} => knownSince' = knownSince
      /\ ssrcs' # {} /\ ssrcs = {} => knownSince' = now'
  BY <1>1, <1>2, <1>3, <1>5
<1> QED BY <1>6, <1>7

(* A tick starts both bounds anew.                                         *)
LEMMA LoopInvTick ==
  ASSUME LoopInv, RembHonest', Tick
  PROVE  LoopInv'
<1>1. /\ now \in Nat /\ nextTick \in Nat /\ Interval \in Nat \ {0} /\ Jitter \in Nat
      /\ now >= nextTick /\ now <= nextTick + Jitter /\ nextTick' = nextTick + Interval
      /\ sched.lastSent \in Nat \cup {NoTime}
  BY LoopAssumption DEF LoopInv, Tick
<1>2. /\ now' = now /\ ssrcs' = ssrcs /\ op' = "remb"
      /\ sched' = IF ssrcs # {} THEN Sched!MaybeSendREMB(sched, estimate, now) ELSE sched
  BY DEF Tick, MaybeBuildREMB, pipeline, Announceable
<1>3. ~Overstated'
  BY <1>2 DEF RembHonest, Overstated, Sched!SignificantDecrease
<1>4. sched'.lastSent \in Nat \cup {NoTime}
  BY <1>1, <1>2 DEF Sched!MaybeSendREMB, Sched!BuildAndRecordREMB
<1>5. ASSUME ssrcs # {}
      PROVE  sched'.lastSent # NoTime /\ nextTick' - sched'.lastSent < 2 * Interval
  <2>1. CASE Sched!ShouldSendREMB(sched, estimate, now)
    <3>1. sched'.lastSent = now
      BY <1>2, <1>5, <2>1 DEF Sched!MaybeSendREMB, Sched!BuildAndRecordREMB
    <3> QED BY <1>1, <3>1 DEF NoTime
  <2>2. CASE ~Sched!ShouldSendREMB(sched, estimate, now)
    <3>1. sched' = sched /\ sched.lastSent # NoTime /\ ~(now - sched.lastSent >= Interval)
      BY <1>2, <1>5, <2>2 DEF Sched!MaybeSendREMB, Sched!ShouldSendREMB, Sched!NoTime, NoTime
    <3>2. sched.lastSent \in Nat
      BY <1>1, <3>1
    <3> QED BY <1>1, <3>1, <3>2
  <2> QED BY <2>1, <2>2
<1>6. /\ {knownSince', overstatedSince'} \subseteq Nat \cup {NoTime}
      /\ overstatedSince' # NoTime <=> Overstated'
      /\ knownSince' # NoTime <=> ssrcs' # {}
  BY <1>1, <1>2, ObserveFacts DEF Tick
<1>7. nextTick' \in Nat /\ nextTick' - Interval <= now' /\ now' <= nextTick' + Jitter
  BY <1>1, <1>2
<1> HIDE DEF Overstated
<1> QED BY <1>1, <1>2, <1>3, <1>4, <1>5, <1>6, <1>7 DEF LoopInv

(* A call moves neither the clock nor the scheduler: what it begins begins *)
(* no earlier than an interval before the next tick.                       *)
LEMMA LoopInvCalled ==
  ASSUME LoopInv, Called
  PROVE  LoopInv'
<1>1. /\ now \in Nat /\ nextTick \in Nat /\ nextTick - Interval <= now
      /\ Interval \in Nat /\ sched.lastSent \in Nat \cup {NoTime}
      /\ overstatedSince # NoTime <=> Overstated
  BY LoopAssumption DEF LoopInv
<1>2. UNCHANGED <<now, sched, nextTick>>
  BY DEF Called, Call, OnPacketWithoutRate, OnPacketWithRate, Receive, GetIncomingRate,
         ResetAll
<1>3. Observe /\ now' \in Nat
  BY <1>1, <1>2 DEF Called
<1> HIDE DEF Overstated
<1>4. overstatedSince' # NoTime => nextTick' - overstatedSince' <= Interval
  <2> SUFFICES ASSUME overstatedSince' # NoTime
               PROVE  nextTick' - overstatedSince' <= Interval
    OBVIOUS
  <2>1. CASE Overstated
    BY <1>1, <1>2, <1>3, <2>1, ObserveFacts DEF LoopInv
  <2>2. CASE ~Overstated
    BY <1>1, <1>2, <1>3, <2>2, ObserveFacts
  <2> QED BY <2>1, <2>2
<1>5. ASSUME ssrcs' # {}
      PROVE  \/ nextTick' - knownSince' <= Interval
             \/ sched'.lastSent # NoTime /\ nextTick' - sched'.lastSent < 2 * Interval
  <2>1. CASE ssrcs # {}
    BY <1>2, <1>3, <1>5, <2>1, ObserveFacts DEF LoopInv
  <2>2. CASE ssrcs = {}
    BY <1>1, <1>2, <1>3, <1>5, <2>2, ObserveFacts
  <2> QED BY <2>1, <2>2
<1> QED BY <1>2, <1>3, <1>4, <1>5, ObserveFacts DEF LoopInv

(* A call of the owner between two ticks sends sooner, never later.        *)
LEMMA LoopInvAsked ==
  ASSUME LoopInv, RembHonest', Asked
  PROVE  LoopInv'
<1>1. /\ now \in Nat /\ nextTick \in Nat /\ nextTick - Interval <= now
      /\ Interval \in Nat \ {0} /\ sched.lastSent \in Nat \cup {NoTime}
  BY LoopAssumption DEF LoopInv
<1>2. /\ now' = now /\ nextTick' = nextTick /\ ssrcs' = ssrcs /\ op' = "remb" /\ Observe
      /\ sched' = IF ssrcs # {} THEN Sched!MaybeSendREMB(sched, estimate, now) ELSE sched
  BY DEF Asked, MaybeBuildREMB, pipeline, Announceable
<1>3. ~Overstated'
  BY <1>2 DEF RembHonest, Overstated, Sched!SignificantDecrease
<1>4. sched' = sched \/ sched'.lastSent = now
  BY <1>2 DEF Sched!MaybeSendREMB, Sched!BuildAndRecordREMB
<1> HIDE DEF Overstated
<1>5. ASSUME ssrcs' # {}
      PROVE  \/ nextTick' - knownSince' <= Interval
             \/ sched'.lastSent # NoTime /\ nextTick' - sched'.lastSent < 2 * Interval
  <2>1. CASE sched' = sched
    BY <1>1, <1>2, <1>5, <2>1, ObserveFacts DEF LoopInv
  <2>2. CASE sched'.lastSent = now
    BY <1>1, <1>2, <2>2 DEF NoTime
  <2> QED BY <1>4, <2>1, <2>2
<1>6. sched'.lastSent \in Nat \cup {NoTime}
  BY <1>1, <1>4
<1> QED BY <1>1, <1>2, <1>3, <1>5, <1>6, ObserveFacts DEF LoopInv

LEMMA LoopInvElapse ==
  ASSUME LoopInv, Elapse
  PROVE  LoopInv'
<1>1. /\ now \in Nat /\ nextTick \in Nat /\ now < nextTick + Jitter
      /\ Interval \in Nat /\ Jitter \in Nat /\ nextTick - Interval <= now
  BY LoopAssumption DEF LoopInv, Elapse
<1>2. now' = now + 1 /\ UNCHANGED <<nextTick, sched, ssrcs, estimate>> /\ Observe
  BY DEF Elapse, Advance, pipeline
<1>3. Overstated' = Overstated
  BY <1>2 DEF Overstated, Sched!SignificantDecrease
<1>4. now' \in Nat /\ nextTick' - Interval <= now' /\ now' <= nextTick' + Jitter
  BY <1>1, <1>2
<1> HIDE DEF Overstated
<1> QED BY <1>2, <1>3, <1>4, ObserveFacts DEF LoopInv

LEMMA LoopInvStep ==
  ASSUME LoopInv, RembHonest', [LoopNext]_loopVars
  PROVE  LoopInv'
<1>1. CASE UNCHANGED loopVars
  BY <1>1 DEF loopVars, estimatorVars, LoopInv, Overstated, Sched!SignificantDecrease
<1> QED BY <1>1, LoopInvTick, LoopInvCalled, LoopInvAsked, LoopInvElapse DEF LoopNext

LEMMA LoopInvariance ==
  ASSUME Nat \subseteq IncomingRates, Nat \subseteq Times
  PROVE  LoopSpec => []LoopInv
<1>1. LoopInv /\ RembHonest' /\ [LoopNext]_loopVars => LoopInv'
  BY LoopInvStep
<1> QED BY <1>1, LoopInvInit, LoopImplementsEstimator, RembIsHonest, PTL DEF LoopSpec

(* From packets to REMBs: a significant decrease of the estimate has been  *)
(* recorded as sent within an interval and the jitter of one tick, as long *)
(* as there is a source to announce it for.                                *)
THEOREM DecreaseReachesRemb ==
  ASSUME Nat \subseteq IncomingRates, Nat \subseteq Times
  PROVE  LoopSpec => []OverstatementCleared
<1>1. LoopInv => OverstatementCleared
  <2> SUFFICES ASSUME LoopInv, overstatedSince # NoTime
               PROVE  now - overstatedSince <= Interval + Jitter
    BY DEF OverstatementCleared
  <2> QED BY LoopAssumption DEF LoopInv
<1> QED BY <1>1, LoopInvariance, PTL

(* As long as there is a source REMBs follow each other in less than two   *)
(* intervals and the jitter, whether or not its packets have a rate.       *)
THEOREM AnnouncesWhileKnown ==
  ASSUME Nat \subseteq IncomingRates, Nat \subseteq Times
  PROVE  LoopSpec => []KeepsAnnouncing
<1>1. LoopInv => KeepsAnnouncing
  <2> SUFFICES ASSUME LoopInv, ssrcs # {}
               PROVE  \/ now - knownSince <= Interval + Jitter
                      \/ /\ sched.lastSent # NoTime
                         /\ now - sched.lastSent < 2 * Interval + Jitter
    BY DEF KeepsAnnouncing
  <2>1. /\ now \in Nat /\ nextTick \in Nat /\ knownSince \in Nat /\ now <= nextTick + Jitter
        /\ sched.lastSent # NoTime => sched.lastSent \in Nat
        /\ Interval \in Nat /\ Jitter \in Nat
    BY LoopAssumption DEF LoopInv
  <2>2. CASE nextTick - knownSince <= Interval
    BY <2>1, <2>2
  <2>3. CASE sched.lastSent # NoTime /\ nextTick - sched.lastSent < 2 * Interval
    BY <2>1, <2>3
  <2> QED BY <2>2, <2>3 DEF LoopInv
<1> QED BY <1>1, LoopInvariance, PTL
=============================================================================
