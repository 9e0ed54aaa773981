-------------------------- MODULE OveruseDetector --------------------------
(***************************************************************************)
(* The adaptive-threshold overuse detector, pkg/bwe/overuse.go.            *)
(*                                                                         *)
(* Estimates and the threshold are integers in one fine unit; Ku and Kd    *)
(* are fractions of KDen per tick of the clock.  Detect reads the clock    *)
(* under the estimator's lock, so successive calls see times in order.     *)
(***************************************************************************)
EXTENDS Integers

CONSTANTS
  InitialThreshold, MinThreshold, MaxThreshold, Ku, Kd, KDen,
  OveruseTimeThresh,    (* in ticks                                        *)
  Estimates,            (* filtered delay gradients                        *)
  Gaps,                 (* ticks that may pass between two calls           *)
  MaxTime,              (* bound on the clock                              *)
  MaxRun                (* bound on the length of such a series            *)

(* DefaultOveruseConfig satisfies it; the code validates nothing. *)
ASSUME ConfigAssumption ==
  /\ {MinThreshold, MaxThreshold} \subseteq Nat
  /\ InitialThreshold \in MinThreshold .. MaxThreshold
  /\ Ku \in Nat /\ Kd \in Nat /\ KDen \in Nat \ {0}
  /\ OveruseTimeThresh \in Nat

ASSUME InputAssumption ==
  /\ Estimates \subseteq Int
  /\ Gaps \subseteq Nat
  /\ MaxTime \in Nat /\ MaxRun \in Nat

VARIABLES
  now,        (* the clock                                                 *)
  d,          (* the detector                                              *)
  reported,   (* the state the callback was last told of                   *)
  run         (* history: the current series of consecutive detections     *)
              (* above the threshold, its length and first instant         *)

vars == <<now, d, reported, run>>

Usages == {"Normal", "Underusing", "Overusing"}
NoTime == -1          \* the zero time.Time

NewDetector ==
  [threshold |-> InitialThreshold, lastUpdateTime |-> NoTime,
   overuseStart |-> NoTime, overuseCounter |-> 0, inOveruseRegion |-> FALSE,
   prevEstimate |-> 0, hypothesis |-> "Normal"]

NoRun == [length |-> 0, since |-> NoTime]

Abs(x) == IF x < 0 THEN -x ELSE x
ClampThreshold(x) ==
  IF x < MinThreshold THEN MinThreshold
  ELSE IF x > MaxThreshold THEN MaxThreshold ELSE x

Coefficient(m, threshold) == IF m > threshold THEN Ku ELSE Kd

(* threshold + deltaT * k * (m - threshold), the product rounded toward 0. *)
AdaptedRepelled(threshold, m, deltaT) ==        \* mutation: difference reversed
  LET product == deltaT * Coefficient(m, threshold) * Abs(m - threshold)
  IN  IF m < threshold THEN threshold + product \div KDen
                       ELSE threshold - product \div KDen

Adapted(threshold, m, deltaT) ==
  LET product == deltaT * Coefficient(m, threshold) * Abs(m - threshold)
  IN  IF m < threshold THEN threshold - product \div KDen
                       ELSE threshold + product \div KDen

UpdateThreshold(det, estimate, t) ==
  IF det.lastUpdateTime = NoTime
    THEN [det EXCEPT !.lastUpdateTime = t]
    ELSE [det EXCEPT !.lastUpdateTime = t,
                     !.threshold = ClampThreshold(
                        Adapted(@, Abs(estimate), t - det.lastUpdateTime))]

(* The overuse region is entered on the first estimate above the threshold. *)
TrackRegionRestart(det, t) ==                   \* mutation: start moves with every call
  [det EXCEPT !.overuseStart = t, !.overuseCounter = @ + 1, !.inOveruseRegion = TRUE]

TrackRegion(det, t) ==
  IF det.inOveruseRegion
    THEN [det EXCEPT !.overuseCounter = @ + 1]
    ELSE [det EXCEPT !.overuseStart = t, !.overuseCounter = 1, !.inOveruseRegion = TRUE]

SustainedEither(det, t) ==                      \* mutation: either condition is enough
  t - det.overuseStart >= OveruseTimeThresh \/ det.overuseCounter > 1

SustainedLate(det, t) ==                        \* mutation: off by one in the counter
  t - det.overuseStart >= OveruseTimeThresh /\ det.overuseCounter > 2

Sustained(det, t) ==
  t - det.overuseStart >= OveruseTimeThresh /\ det.overuseCounter > 1

Classify(det, estimate, t) ==
  LET tracked == TrackRegion(det, t)
  IN  IF estimate > det.threshold
        THEN [tracked EXCEPT !.hypothesis =
                IF estimate < det.prevEstimate THEN "Normal"
                ELSE IF Sustained(tracked, t) THEN "Overusing" ELSE @]
        ELSE [det EXCEPT !.inOveruseRegion = FALSE,
                         !.hypothesis = IF estimate < -det.threshold THEN "Underusing"
                                                                    ELSE "Normal"]

(* Detect: adapt the threshold first, classify against the adapted one. *)
Detected(det, estimate, t) ==
  [Classify(UpdateThreshold(det, estimate, t), estimate, t)
     EXCEPT !.prevEstimate = estimate]

(* What the callback knows after Detect: it is told of a change only.       *)
ToldAtOnset(known, old, new) ==       \* mutation: only a departure from Normal is told
  IF old = "Normal" /\ new # old THEN new ELSE known

Told(known, old, new) == IF new # old THEN new ELSE known

-----------------------------------------------------------------------------
Init ==
  /\ now = 0
  /\ d = NewDetector
  /\ reported = "Normal"
  /\ run = NoRun

Detect(gap, estimate) ==
  /\ now + gap <= MaxTime
  /\ now' = now + gap
  /\ d' = Detected(d, estimate, now')
  /\ reported' = Told(reported, d.hypothesis, d'.hypothesis)
  /\ run' = IF estimate <= d'.threshold THEN NoRun
            ELSE IF run = NoRun THEN [length |-> 1, since |-> now']
            ELSE [run EXCEPT !.length = @ + 1]
  /\ run'.length <= MaxRun

Reset ==
  /\ d' = NewDetector
  /\ run' = NoRun
  /\ UNCHANGED <<now, reported>>

Next ==
  \/ \E gap \in Gaps, estimate \in Estimates : Detect(gap, estimate)
  \/ Reset

Spec == Init /\ [][Next]_vars

-----------------------------------------------------------------------------
(* The detector's fields keep their types, and the adaptive threshold the  *)
(* range MinThreshold and MaxThreshold promise.                            *)
TypeOK ==
  /\ now \in Nat
  /\ d \in [threshold : MinThreshold .. MaxThreshold,
            lastUpdateTime : Nat \cup {NoTime}, overuseStart : Nat \cup {NoTime},
            overuseCounter : Nat, inOveruseRegion : BOOLEAN,
            prevEstimate : Int, hypothesis : Usages]
  /\ reported \in Usages
  /\ run \in [length : Nat, since : Nat \cup {NoTime}]

(* Overuse is signalled only for sustained overuse: at least two detections *)
(* in a row, and none below the threshold for OveruseTimeThresh, whatever   *)
(* mixture of calm, underusing and reset came before.                       *)
SustainedOveruse ==
  d.hypothesis = "Overusing" =>
    run.length >= 2 /\ now - run.since >= OveruseTimeThresh

(* Sustained overuse is never missed: a detection that completes it is      *)
(* reported at once unless the gradient is decreasing.                      *)
OveruseNotMissed ==
  [][run'.length >= 2 /\ now' - run'.since >= OveruseTimeThresh
       /\ d'.prevEstimate >= d.prevEstimate
     => d'.hypothesis = "Overusing"]_<<d, run>>

(* The underuse signal outlives the underuse itself only while a rising     *)
(* series above the threshold is still too short to confirm overuse.        *)
UnderusingStaleBounded ==
  d.hypothesis = "Underusing" /\ d.prevEstimate >= -d.threshold =>
    /\ run.length >= 1
    /\ run.length = 1 \/ now - run.since < OveruseTimeThresh

(* As long as the gap since the previous call is below 1/Ku and 1/Kd, the   *)
(* threshold moves toward the estimate's magnitude and never past it.       *)
Between(x, a, b) == (a <= x /\ x <= b) \/ (b <= x /\ x <= a)
ShortGap(gap) == gap * Ku <= KDen /\ gap * Kd <= KDen
ThresholdTracksOverShortGaps ==
  [][d.lastUpdateTime # NoTime /\ d'.lastUpdateTime # NoTime
       /\ ShortGap(d'.lastUpdateTime - d.lastUpdateTime)
     => Between(d'.threshold, d.threshold, Abs(d'.prevEstimate))]_d

(* The callback "will be invoked whenever the bandwidth usage state         *)
(* changes" (overuse.go:100).  Reset changes it without a word, and yet     *)
(* overuse and underuse are never in force without the listener knowing:    *)
(* all it can miss is a return to Normal.                                   *)
DepartureIsReported == d.hypothesis # "Normal" => reported = d.hypothesis
=============================================================================
