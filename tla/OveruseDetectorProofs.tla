----------------------- MODULE OveruseDetectorProofs -----------------------
(***************************************************************************)
(* Theorems about OveruseDetector: type correctness with the threshold     *)
(* inside its bounds, overuse exactly when sustained, the bound on a stale *)
(* underuse signal, that listeners know of overuse, and how the threshold  *)
(* moves, for every configuration and every sequence of estimates, gaps    *)
(* and resets.                                                             *)
(***************************************************************************)
EXTENDS OveruseDetector, TLAPS

DetectorType ==
  [threshold : MinThreshold .. MaxThreshold,
   lastUpdateTime : Nat \cup {NoTime}, overuseStart : Nat \cup {NoTime},
   overuseCounter : Nat, inOveruseRegion : BOOLEAN,
   prevEstimate : Int, hypothesis : Usages]

(* The detector's counter and start mirror the series of detections above  *)
(* the threshold exactly while the region flag is set.                     *)
RegionIsRun ==
  IF d.inOveruseRegion
    THEN /\ run.length = d.overuseCounter /\ run.length >= 1
         /\ run.since = d.overuseStart /\ run.since \in Nat
    ELSE run = NoRun

IInv == TypeOK /\ RegionIsRun /\ SustainedOveruse /\ UnderusingStaleBounded

-----------------------------------------------------------------------------
LEMMA ThresholdsAreInts ==
  /\ MinThreshold \in Int /\ MaxThreshold \in Int
  /\ MinThreshold <= MaxThreshold
  /\ InitialThreshold \in MinThreshold .. MaxThreshold
BY ConfigAssumption

LEMMA AdaptedIsInt ==
  ASSUME NEW threshold \in Int, NEW m \in Int, NEW deltaT \in Int
  PROVE  Adapted(threshold, m, deltaT) \in Int
<1>1. Coefficient(m, threshold) \in Int
  BY ConfigAssumption DEF Coefficient
<1>2. Abs(m - threshold) \in Int
  BY DEF Abs
<1>3. deltaT * Coefficient(m, threshold) \in Int
  BY <1>1
<1> DEFINE product == deltaT * Coefficient(m, threshold) * Abs(m - threshold)
<1>4. product \in Int
  BY <1>2, <1>3
<1>5. KDen \in Nat \ {0}
  BY ConfigAssumption
<1> HIDE DEF product
<1>6. product \div KDen \in Int
  BY <1>4, <1>5
<1>7. Adapted(threshold, m, deltaT)
        = IF m < threshold THEN threshold - product \div KDen
                           ELSE threshold + product \div KDen
  BY DEF Adapted, product
<1> QED BY <1>6, <1>7

LEMMA ClampedInRange ==
  ASSUME NEW x \in Int
  PROVE  ClampThreshold(x) \in MinThreshold .. MaxThreshold
BY ThresholdsAreInts DEF ClampThreshold

(* Adapting keeps the type and touches only the threshold and its time. *)
LEMMA UpdateThresholdType ==
  ASSUME NEW det \in DetectorType, NEW estimate \in Int, NEW t \in Nat
  PROVE  LET u == UpdateThreshold(det, estimate, t)
         IN  /\ u \in DetectorType
             /\ u.overuseStart = det.overuseStart
             /\ u.overuseCounter = det.overuseCounter
             /\ u.inOveruseRegion = det.inOveruseRegion
             /\ u.prevEstimate = det.prevEstimate
             /\ u.hypothesis = det.hypothesis
<1>1. CASE det.lastUpdateTime = NoTime
  BY <1>1 DEF UpdateThreshold, DetectorType
<1>2. CASE det.lastUpdateTime # NoTime
  <2> DEFINE new == ClampThreshold(
                      Adapted(det.threshold, Abs(estimate), t - det.lastUpdateTime))
  <2>1. det.lastUpdateTime \in Nat
    BY <1>2 DEF DetectorType
  <2>2. det.threshold \in MinThreshold .. MaxThreshold
    BY DEF DetectorType
  <2>3. det.threshold \in Int
    BY <2>2, ThresholdsAreInts
  <2>4. Abs(estimate) \in Int /\ t - det.lastUpdateTime \in Int
    BY <2>1 DEF Abs
  <2>5. new \in MinThreshold .. MaxThreshold
    BY <2>3, <2>4, AdaptedIsInt, ClampedInRange
  <2>6. UpdateThreshold(det, estimate, t)
          = [det EXCEPT !.lastUpdateTime = t, !.threshold = new]
    BY <1>2 DEF UpdateThreshold
  <2> HIDE DEF new
  <2> QED BY <2>5, <2>6 DEF DetectorType
<1> QED BY <1>1, <1>2

(* Entering or staying in the overuse region. *)
LEMMA TrackRegionFields ==
  ASSUME NEW det \in DetectorType, NEW t \in Nat
  PROVE  LET r == TrackRegion(det, t)
         IN  /\ r \in DetectorType
             /\ r.threshold = det.threshold
             /\ r.prevEstimate = det.prevEstimate
             /\ r.inOveruseRegion
             /\ r.hypothesis = det.hypothesis
             /\ det.inOveruseRegion =>
                  /\ r.overuseCounter = det.overuseCounter + 1
                  /\ r.overuseStart = det.overuseStart
             /\ ~det.inOveruseRegion =>
                  /\ r.overuseCounter = 1
                  /\ r.overuseStart = t
<1>1. CASE det.inOveruseRegion
  BY <1>1 DEF TrackRegion, DetectorType
<1>2. CASE ~det.inOveruseRegion
  BY <1>2 DEF TrackRegion, DetectorType
<1> QED BY <1>1, <1>2

(* What Detect leaves in r, given the adapted threshold: the facts the     *)
(* inductive step needs, for an estimate above it and for any other.       *)
Above(det, estimate, t, r) ==
  /\ r.inOveruseRegion
  /\ det.inOveruseRegion =>
       /\ r.overuseCounter = det.overuseCounter + 1
       /\ r.overuseStart = det.overuseStart
  /\ ~det.inOveruseRegion => r.overuseCounter = 1 /\ r.overuseStart = t
  /\ r.hypothesis \in {"Normal", "Overusing", det.hypothesis}
  /\ r.hypothesis = "Overusing" => Sustained(r, t) \/ det.hypothesis = "Overusing"
  /\ r.hypothesis = "Underusing" => ~Sustained(r, t)

NotAbove(estimate, r) ==
  /\ ~r.inOveruseRegion
  /\ r.hypothesis \in {"Normal", "Underusing"}
  /\ r.hypothesis = "Underusing" => estimate < -r.threshold

LEMMA ClassifyFields ==
  ASSUME NEW det \in DetectorType, NEW estimate \in Int, NEW t \in Nat
  PROVE  LET r == Classify(det, estimate, t)
         IN  /\ r \in DetectorType
             /\ r.threshold = det.threshold
             /\ estimate > det.threshold => Above(det, estimate, t, r)
             /\ estimate <= det.threshold => NotAbove(estimate, r)
<1>1. det.threshold \in Nat
  <2>1. det.threshold \in MinThreshold .. MaxThreshold
    BY DEF DetectorType
  <2> QED BY <2>1, ConfigAssumption
<1>2. CASE estimate > det.threshold
  <2> DEFINE k == TrackRegion(det, t)
             h == IF estimate < det.prevEstimate THEN "Normal"
                  ELSE IF Sustained(k, t) THEN "Overusing" ELSE k.hypothesis
             r == [k EXCEPT !.hypothesis = h]
  <2>1. Classify(det, estimate, t) = r
    BY <1>1, <1>2 DEF Classify
  <2>2. k \in DetectorType /\ k.hypothesis = det.hypothesis
    BY TrackRegionFields
  <2>3. h \in Usages
    BY <2>2 DEF Usages, DetectorType
  <2>4. /\ h \in {"Normal", "Overusing", det.hypothesis}
        /\ h = "Overusing" => Sustained(k, t) \/ det.hypothesis = "Overusing"
        /\ h = "Underusing" => ~Sustained(k, t)
    BY <2>2
  <2> HIDE DEF h
  <2>5. /\ r \in DetectorType
        /\ r.threshold = k.threshold
        /\ r.inOveruseRegion = k.inOveruseRegion
        /\ r.overuseCounter = k.overuseCounter
        /\ r.overuseStart = k.overuseStart
        /\ r.hypothesis = h
    BY <2>2, <2>3 DEF DetectorType
  <2>6. Sustained(r, t) = Sustained(k, t)
    BY <2>5 DEF Sustained
  <2> HIDE DEF k, r
  <2>7. /\ k.threshold = det.threshold
        /\ k.inOveruseRegion
        /\ det.inOveruseRegion =>
             /\ k.overuseCounter = det.overuseCounter + 1
             /\ k.overuseStart = det.overuseStart
        /\ ~det.inOveruseRegion => k.overuseCounter = 1 /\ k.overuseStart = t
    BY TrackRegionFields DEF k
  <2>8. Above(det, estimate, t, r)
    BY <2>4, <2>5, <2>6, <2>7 DEF Above
  <2> QED BY <1>1, <1>2, <2>1, <2>5, <2>7, <2>8
<1>3. CASE estimate <= det.threshold
  <2> DEFINE h == IF estimate < -det.threshold THEN "Underusing" ELSE "Normal"
             r == [det EXCEPT !.inOveruseRegion = FALSE, !.hypothesis = h]
  <2>1. Classify(det, estimate, t) = r
    BY <1>1, <1>3 DEF Classify
  <2>2. h \in Usages /\ h \in {"Normal", "Underusing"}
        /\ (h = "Underusing" => estimate < -det.threshold)
    BY DEF Usages
  <2> HIDE DEF h
  <2>3. /\ r \in DetectorType /\ r.threshold = det.threshold
        /\ ~r.inOveruseRegion /\ r.hypothesis = h
    BY <2>2 DEF DetectorType
  <2> HIDE DEF r
  <2>4. NotAbove(estimate, r)
    BY <2>2, <2>3 DEF NotAbove
  <2> QED BY <1>1, <1>3, <2>1, <2>3, <2>4
<1> QED BY <1>1, <1>2, <1>3

(* One Detect: adapt, classify, remember the estimate. *)
LEMMA DetectedFields ==
  ASSUME NEW det \in DetectorType, NEW estimate \in Int, NEW t \in Nat
  PROVE  LET r == Detected(det, estimate, t)
         IN  /\ r \in DetectorType
             /\ r.prevEstimate = estimate
             /\ estimate > r.threshold => Above(det, estimate, t, r)
             /\ estimate <= r.threshold => NotAbove(estimate, r)
<1> DEFINE u == UpdateThreshold(det, estimate, t)
           c == Classify(u, estimate, t)
           r == [c EXCEPT !.prevEstimate = estimate]
<1>1. /\ u \in DetectorType
      /\ u.overuseStart = det.overuseStart
      /\ u.overuseCounter = det.overuseCounter
      /\ u.inOveruseRegion = det.inOveruseRegion
      /\ u.hypothesis = det.hypothesis
  BY UpdateThresholdType
<1> HIDE DEF u
<1>2. /\ c \in DetectorType
      /\ c.threshold = u.threshold
      /\ estimate > u.threshold => Above(u, estimate, t, c)
      /\ estimate <= u.threshold => NotAbove(estimate, c)
  BY <1>1, ClassifyFields
<1> HIDE DEF c
<1>3. /\ r \in DetectorType
      /\ r.prevEstimate = estimate
      /\ r.threshold = c.threshold
      /\ r.inOveruseRegion = c.inOveruseRegion
      /\ r.overuseCounter = c.overuseCounter
      /\ r.overuseStart = c.overuseStart
      /\ r.hypothesis = c.hypothesis
  BY <1>2 DEF DetectorType
<1>4. Detected(det, estimate, t) = r
  BY DEF Detected, u, c
<1> HIDE DEF r
<1>5. estimate > r.threshold => Above(det, estimate, t, r)
  BY <1>1, <1>2, <1>3 DEF Above, Sustained
<1>6. estimate <= r.threshold => NotAbove(estimate, r)
  BY <1>2, <1>3 DEF NotAbove
<1> QED BY <1>3, <1>4, <1>5, <1>6

-----------------------------------------------------------------------------
LEMMA InitIInv == Init => IInv
<1> SUFFICES ASSUME Init PROVE IInv
  OBVIOUS
<1>1. TypeOK
  BY ConfigAssumption DEF Init, TypeOK, NewDetector, NoRun, NoTime, Usages
<1>2. RegionIsRun /\ SustainedOveruse /\ UnderusingStaleBounded
  BY DEF Init, RegionIsRun, SustainedOveruse, UnderusingStaleBounded, NewDetector
<1> QED BY <1>1, <1>2 DEF IInv

(* Detect preserves the invariant: one case for an estimate above the      *)
(* adapted threshold, which continues or opens a series, and one for an    *)
(* estimate that ends it.                                                  *)
LEMMA DetectIInv ==
  ASSUME IInv, NEW gap \in Gaps, NEW estimate \in Estimates, Detect(gap, estimate)
  PROVE  IInv'
<1>1. now \in Nat /\ gap \in Nat /\ now' = now + gap
  BY InputAssumption DEF IInv, TypeOK, Detect
<1>2. /\ d \in DetectorType /\ d' = Detected(d, estimate, now')
      /\ estimate \in Int /\ now' \in Nat /\ now' >= now
      /\ OveruseTimeThresh \in Nat
  BY <1>1, InputAssumption, ConfigAssumption DEF IInv, TypeOK, Detect, DetectorType
<1>3. /\ d' \in DetectorType
      /\ d'.prevEstimate = estimate
      /\ estimate > d'.threshold => Above(d, estimate, now', d')
      /\ estimate <= d'.threshold => NotAbove(estimate, d')
  BY <1>2, DetectedFields
<1>4. d'.threshold \in Int
  <2>1. d'.threshold \in MinThreshold .. MaxThreshold
    BY <1>3 DEF DetectorType
  <2> QED BY <2>1, ThresholdsAreInts
<1>5. run' = IF estimate <= d'.threshold THEN NoRun
             ELSE IF run = NoRun THEN [length |-> 1, since |-> now']
             ELSE [run EXCEPT !.length = @ + 1]
  BY DEF Detect
<1>6. reported' \in Usages
  BY <1>3 DEF IInv, TypeOK, Detect, Told, DetectorType
<1>7. /\ RegionIsRun /\ SustainedOveruse
      /\ run \in [length : Nat, since : Nat \cup {NoTime}]
  BY DEF IInv, TypeOK
<1>8. CASE estimate > d'.threshold
  <2>1. Above(d, estimate, now', d')
    BY <1>3, <1>8
  <2>2. CASE d.inOveruseRegion
    <3>1. /\ run.length = d.overuseCounter /\ run.length >= 1 /\ run.length \in Nat
          /\ run.since = d.overuseStart /\ run.since \in Nat
      BY <1>7, <2>2 DEF RegionIsRun
    <3>2. run' = [run EXCEPT !.length = @ + 1]
      BY <1>2, <1>4, <1>5, <1>8, <3>1 DEF NoRun
    <3>3. /\ run' \in [length : Nat, since : Nat \cup {NoTime}]
          /\ run'.length = run.length + 1 /\ run'.since = run.since
      BY <1>7, <3>2
    <3>4. d'.overuseCounter = d.overuseCounter + 1 /\ d'.overuseStart = d.overuseStart
      BY <2>1, <2>2 DEF Above
    <3>5. RegionIsRun'
      BY <2>1, <3>1, <3>3, <3>4 DEF RegionIsRun, Above
    <3>6. SustainedOveruse'
      <4>1. CASE Sustained(d', now')
        BY <3>1, <3>3, <3>4, <4>1 DEF Sustained, SustainedOveruse
      <4>2. CASE d.hypothesis = "Overusing"
        BY <1>1, <1>7, <3>1, <3>3, <4>2, <1>2 DEF SustainedOveruse
      <4> QED BY <2>1, <4>1, <4>2 DEF Above, SustainedOveruse
    <3>7. UnderusingStaleBounded'
      BY <1>2, <2>1, <3>1, <3>3, <3>4 DEF UnderusingStaleBounded, Above, Sustained
    <3>8. TypeOK'
      BY <1>2, <1>3, <1>6, <3>3 DEF TypeOK, DetectorType
    <3> QED BY <3>5, <3>6, <3>7, <3>8 DEF IInv
  <2>3. CASE ~d.inOveruseRegion
    <3>1. run = NoRun
      BY <1>7, <2>3 DEF RegionIsRun
    <3>2. run' = [length |-> 1, since |-> now']
      BY <1>2, <1>4, <1>5, <1>8, <3>1
    <3>3. d'.overuseCounter = 1 /\ d'.overuseStart = now'
      BY <2>1, <2>3 DEF Above
    <3>4. RegionIsRun'
      BY <1>2, <2>1, <3>2, <3>3 DEF RegionIsRun, Above
    <3>5. d'.hypothesis # "Overusing"
      <4>1. ~Sustained(d', now')
        BY <3>3 DEF Sustained
      <4>2. d.hypothesis # "Overusing"
        BY <1>7, <3>1 DEF SustainedOveruse, NoRun
      <4> QED BY <2>1, <4>1, <4>2 DEF Above
    <3>6. SustainedOveruse' /\ UnderusingStaleBounded'
      BY <3>2, <3>5 DEF SustainedOveruse, UnderusingStaleBounded
    <3>7. TypeOK'
      BY <1>2, <1>3, <1>6, <3>2 DEF TypeOK, DetectorType
    <3> QED BY <3>4, <3>6, <3>7 DEF IInv
  <2> QED BY <2>2, <2>3
<1>9. CASE estimate <= d'.threshold
  <2>1. run' = NoRun
    BY <1>5, <1>9
  <2>2. NotAbove(estimate, d')
    BY <1>3, <1>9
  <2>3. RegionIsRun' /\ SustainedOveruse'
    BY <2>1, <2>2 DEF RegionIsRun, SustainedOveruse, NotAbove
  <2>4. UnderusingStaleBounded'
    BY <1>2, <1>3, <1>4, <2>2 DEF UnderusingStaleBounded, NotAbove
  <2>5. TypeOK'
    BY <1>2, <1>3, <1>6, <2>1 DEF TypeOK, DetectorType, NoRun
  <2> QED BY <2>3, <2>4, <2>5 DEF IInv
<1> QED BY <1>2, <1>4, <1>8, <1>9

LEMMA InductiveIInv == IInv /\ [Next]_vars => IInv'
<1> SUFFICES ASSUME IInv, [Next]_vars PROVE IInv'
  OBVIOUS
<1>1. ASSUME NEW gap \in Gaps, NEW estimate \in Estimates, Detect(gap, estimate)
      PROVE  IInv'
  BY <1>1, DetectIInv
<1>2. CASE Reset
  <2>1. TypeOK'
    BY <1>2, ConfigAssumption DEF Reset, IInv, TypeOK, NewDetector, NoRun, NoTime, Usages
  <2>2. RegionIsRun' /\ SustainedOveruse' /\ UnderusingStaleBounded'
    BY <1>2 DEF Reset, RegionIsRun, SustainedOveruse, UnderusingStaleBounded, NewDetector
  <2> QED BY <2>1, <2>2 DEF IInv
<1>3. CASE UNCHANGED vars
  BY <1>3 DEF vars, IInv, TypeOK, RegionIsRun, SustainedOveruse, UnderusingStaleBounded
<1> QED BY <1>1, <1>2, <1>3 DEF Next

LEMMA Invariance == Spec => []IInv
BY InitIInv, InductiveIInv, PTL DEF Spec

(* The fields keep their types and the threshold its bounds, whatever the  *)
(* coefficients and however long the gaps.                                 *)
THEOREM TypeCorrect == Spec => []TypeOK
<1>1. IInv => TypeOK
  BY DEF IInv
<1> QED BY <1>1, Invariance, PTL

(* Overuse is reported only after OveruseTimeThresh of uninterrupted       *)
(* detections above the adaptive threshold, at least two of them.          *)
THEOREM OveruseIsSustained == Spec => []SustainedOveruse
<1>1. IInv => SustainedOveruse
  BY DEF IInv
<1> QED BY <1>1, Invariance, PTL

(* An underuse report contradicted by the latest estimate is at most one   *)
(* detection or OveruseTimeThresh old.                                     *)
THEOREM UnderusingSoonCorrected == Spec => []UnderusingStaleBounded
<1>1. IInv => UnderusingStaleBounded
  BY DEF IInv
<1> QED BY <1>1, Invariance, PTL

(* Whatever resets come between, a listener knows of overuse and underuse. *)
THEOREM DepartureReported == Spec => []DepartureIsReported
<1>1. Init => DepartureIsReported
  BY DEF Init, DepartureIsReported, NewDetector
<1>2. DepartureIsReported /\ [Next]_vars => DepartureIsReported'
  <2> SUFFICES ASSUME DepartureIsReported, [Next]_vars PROVE DepartureIsReported'
    OBVIOUS
  <2>1. ASSUME NEW gap \in Gaps, NEW estimate \in Estimates, Detect(gap, estimate)
        PROVE  DepartureIsReported'
    BY <2>1 DEF Detect, Told, DepartureIsReported
  <2>2. CASE Reset
    BY <2>2 DEF Reset, NewDetector, DepartureIsReported
  <2>3. CASE UNCHANGED vars
    BY <2>3 DEF vars, DepartureIsReported
  <2> QED BY <2>1, <2>2, <2>3 DEF Next
<1> QED BY <1>1, <1>2, PTL DEF Spec

-----------------------------------------------------------------------------
(* What else Detect does: the adapted threshold and the time it leaves, and *)
(* that a sustained estimate which is not falling is reported.              *)
LEMMA DetectedReports ==
  ASSUME NEW det \in DetectorType, NEW estimate \in Int, NEW t \in Nat
  PROVE  LET r == Detected(det, estimate, t)
         IN  /\ r.threshold = UpdateThreshold(det, estimate, t).threshold
             /\ r.lastUpdateTime = t
             /\ estimate > r.threshold /\ estimate >= det.prevEstimate /\ Sustained(r, t)
                  => r.hypothesis = "Overusing"
<1> DEFINE u == UpdateThreshold(det, estimate, t)
           k == TrackRegion(u, t)
           c == Classify(u, estimate, t)
           r == [c EXCEPT !.prevEstimate = estimate]
<1>1. u \in DetectorType /\ u.prevEstimate = det.prevEstimate
  BY UpdateThresholdType
<1>2. u.lastUpdateTime = t
  BY DEF UpdateThreshold, DetectorType
<1> HIDE DEF u
<1>3. /\ k \in DetectorType /\ k.threshold = u.threshold
      /\ k.prevEstimate = u.prevEstimate
  BY <1>1, TrackRegionFields
<1>4. k.lastUpdateTime = t
  BY <1>1, <1>2 DEF TrackRegion, DetectorType
<1>5. c \in DetectorType /\ c.threshold = u.threshold
  BY <1>1, ClassifyFields
<1> DEFINE above == IF estimate < u.prevEstimate THEN "Normal"
                    ELSE IF Sustained(k, t) THEN "Overusing" ELSE k.hypothesis
           below == IF estimate < -u.threshold THEN "Underusing" ELSE "Normal"
<1>6. c = IF estimate > u.threshold
            THEN [k EXCEPT !.hypothesis = above]
            ELSE [u EXCEPT !.inOveruseRegion = FALSE, !.hypothesis = below]
  BY DEF Classify
<1> HIDE DEF k, above, below
<1>7. /\ c.lastUpdateTime = t
      /\ estimate > u.threshold =>
           /\ c.hypothesis = above
           /\ c.overuseStart = k.overuseStart /\ c.overuseCounter = k.overuseCounter
  BY <1>1, <1>2, <1>3, <1>4, <1>6 DEF DetectorType
<1> HIDE DEF c
<1>8. /\ r.threshold = c.threshold /\ r.lastUpdateTime = c.lastUpdateTime
      /\ r.hypothesis = c.hypothesis
      /\ r.overuseStart = c.overuseStart /\ r.overuseCounter = c.overuseCounter
  BY <1>5 DEF DetectorType
<1>9. Detected(det, estimate, t) = r
  BY DEF Detected, u, c
<1> HIDE DEF r
<1>10. ASSUME estimate > r.threshold, estimate >= det.prevEstimate, Sustained(r, t)
       PROVE  r.hypothesis = "Overusing"
  <2>1. estimate > u.threshold
    BY <1>5, <1>8, <1>10
  <2>2. Sustained(k, t)
    BY <1>7, <1>8, <1>10, <2>1 DEF Sustained
  <2>3. ~(estimate < u.prevEstimate)
    <3>1. u.prevEstimate \in Int
      BY <1>1 DEF DetectorType
    <3> QED BY <1>1, <1>10, <3>1
  <2> QED BY <1>7, <1>8, <2>1, <2>2, <2>3 DEF above
<1> QED BY <1>5, <1>7, <1>8, <1>9, <1>10 DEF u

(* A detection that completes a sustained series is reported at once,      *)
(* unless the gradient is falling.                                         *)
THEOREM SustainedIsReported == Spec => OveruseNotMissed
<1>1. ASSUME IInv, IInv', NEW gap \in Gaps, NEW estimate \in Estimates,
             Detect(gap, estimate),
             run'.length >= 2, now' - run'.since >= OveruseTimeThresh,
             d'.prevEstimate >= d.prevEstimate
      PROVE  d'.hypothesis = "Overusing"
  <2>1. /\ d \in DetectorType /\ d' = Detected(d, estimate, now')
        /\ estimate \in Int /\ now' \in Nat
    BY <1>1, InputAssumption DEF IInv, TypeOK, Detect, DetectorType
  <2>2. d'.prevEstimate = estimate
    BY <2>1, DetectedFields
  <2>3. d'.inOveruseRegion /\ run'.length = d'.overuseCounter /\ run'.since = d'.overuseStart
    BY <1>1 DEF IInv, RegionIsRun, NoRun
  <2>4. Sustained(d', now')
    <3>1. d'.overuseCounter \in Nat
      BY <1>1 DEF IInv, TypeOK
    <3> QED BY <1>1, <2>3, <3>1 DEF Sustained
  <2>5. estimate > d'.threshold
    <3>1. d'.threshold \in MinThreshold .. MaxThreshold
      BY <1>1 DEF IInv, TypeOK
    <3>2. d'.threshold \in Int
      BY <3>1, ThresholdsAreInts
    <3>3. ~(estimate <= d'.threshold)
      BY <1>1 DEF Detect, NoRun
    <3> QED BY <2>1, <3>2, <3>3
  <2> QED BY <1>1, <2>1, <2>2, <2>4, <2>5, DetectedReports
<1>2. ASSUME Reset PROVE ~(run'.length >= 2)
  BY <1>2 DEF Reset, NoRun
<1>3. IInv /\ IInv' /\ [Next]_vars
        => [run'.length >= 2 /\ now' - run'.since >= OveruseTimeThresh
              /\ d'.prevEstimate >= d.prevEstimate
            => d'.hypothesis = "Overusing"]_<<d, run>>
  BY <1>1, <1>2 DEF Next, vars
<1> QED BY <1>3, Invariance, PTL DEF Spec, OveruseNotMissed

-----------------------------------------------------------------------------
(* A product of naturals, the second at most the divisor, is at most the   *)
(* first after the division.                                               *)
LEMMA FractionOfDistance ==
  ASSUME NEW x \in Nat, NEW f \in Nat, NEW n \in Nat \ {0}, f <= n
  PROVE  (f * x) \div n \in 0 .. x
<1>1. f * x \in Nat /\ f * x <= n * x
  OBVIOUS
<1>2. n * x \in Nat /\ (n * x) \div n = x
  OBVIOUS
<1>3. ASSUME NEW a \in Nat, NEW b \in Nat, a <= b PROVE a \div n <= b \div n
  BY <1>3
<1>4. (f * x) \div n \in Nat
  BY <1>1
<1> QED BY <1>1, <1>2, <1>3, <1>4

LEMMA AdaptedBetween ==
  ASSUME NEW threshold \in MinThreshold .. MaxThreshold, NEW m \in Nat, NEW gap \in Nat,
         ShortGap(gap)
  PROVE  Between(ClampThreshold(Adapted(threshold, m, gap)), threshold, m)
<1> DEFINE k == Coefficient(m, threshold)
           part == (gap * k * Abs(m - threshold)) \div KDen
<1>1. threshold \in Int /\ Abs(m - threshold) \in Nat
  BY ThresholdsAreInts DEF Abs
<1>2. gap * k \in Nat /\ gap * k <= KDen /\ KDen \in Nat \ {0}
  BY ConfigAssumption DEF Coefficient, ShortGap
<1> HIDE DEF k
<1>3. part \in 0 .. Abs(m - threshold)
  BY <1>1, <1>2, FractionOfDistance
<1>4. Adapted(threshold, m, gap)
        = IF m < threshold THEN threshold - part ELSE threshold + part
  BY DEF Adapted, k
<1> HIDE DEF part
<1>5. CASE m < threshold
  <2>1. Adapted(threshold, m, gap) \in m .. threshold
    BY <1>1, <1>3, <1>4, <1>5 DEF Abs
  <2> QED BY <1>1, <2>1, ThresholdsAreInts DEF Between, ClampThreshold
<1>6. CASE ~(m < threshold)
  <2>1. Adapted(threshold, m, gap) \in threshold .. m
    BY <1>1, <1>3, <1>4, <1>6 DEF Abs
  <2> QED BY <1>1, <2>1, ThresholdsAreInts DEF Between, ClampThreshold
<1> QED BY <1>5, <1>6

(* The time of the last call is never ahead of the clock. *)
LastCallPast == d.lastUpdateTime <= now

LEMMA LastCallPastInvariant == Spec => []LastCallPast
<1>1. Init => LastCallPast
  BY DEF Init, LastCallPast, NewDetector, NoTime
<1>2. IInv /\ LastCallPast /\ [Next]_vars => LastCallPast'
  <2> SUFFICES ASSUME IInv, LastCallPast, [Next]_vars PROVE LastCallPast'
    OBVIOUS
  <2>1. ASSUME NEW gap \in Gaps, NEW estimate \in Estimates, Detect(gap, estimate)
        PROVE  LastCallPast'
    <3>1. /\ d \in DetectorType /\ d' = Detected(d, estimate, now')
          /\ estimate \in Int /\ now' \in Nat
      BY <2>1, InputAssumption DEF IInv, TypeOK, Detect, DetectorType
    <3>2. d'.lastUpdateTime = now'
      BY <3>1, DetectedReports
    <3> QED BY <3>1, <3>2 DEF LastCallPast
  <2>2. CASE Reset
    BY <2>2 DEF Reset, NewDetector, NoTime, LastCallPast, IInv, TypeOK
  <2>3. CASE UNCHANGED vars
    BY <2>3 DEF vars, LastCallPast
  <2> QED BY <2>1, <2>2, <2>3 DEF Next
<1> QED BY <1>1, <1>2, Invariance, PTL DEF Spec

(* Below a gap of 1/Ku and 1/Kd the threshold approaches the magnitude of  *)
(* the estimate and never passes it, rounding and clamping included.       *)
THEOREM ThresholdApproaches == Spec => ThresholdTracksOverShortGaps
<1>1. ASSUME IInv, LastCallPast, NEW gap \in Gaps, NEW estimate \in Estimates,
             Detect(gap, estimate), d.lastUpdateTime # NoTime,
             ShortGap(d'.lastUpdateTime - d.lastUpdateTime)
      PROVE  Between(d'.threshold, d.threshold, Abs(d'.prevEstimate))
  <2>1. /\ d \in DetectorType /\ d' = Detected(d, estimate, now')
        /\ estimate \in Int /\ now' \in Nat /\ now \in Nat /\ now <= now'
    BY <1>1, InputAssumption DEF IInv, TypeOK, Detect, DetectorType
  <2>2. /\ d'.prevEstimate = estimate /\ d'.lastUpdateTime = now'
        /\ d'.threshold = UpdateThreshold(d, estimate, now').threshold
    BY <2>1, DetectedFields, DetectedReports
  <2> DEFINE elapsed == now' - d.lastUpdateTime
  <2>3. elapsed \in Nat /\ d.threshold \in MinThreshold .. MaxThreshold
    BY <1>1, <2>1 DEF LastCallPast, DetectorType
  <2>4. d'.threshold = ClampThreshold(Adapted(d.threshold, Abs(estimate), elapsed))
    BY <1>1, <2>1, <2>2 DEF UpdateThreshold, DetectorType
  <2>5. ShortGap(elapsed) /\ Abs(estimate) \in Nat
    BY <1>1, <2>1, <2>2 DEF Abs
  <2> HIDE DEF elapsed
  <2> QED BY <2>2, <2>3, <2>4, <2>5, AdaptedBetween
<1>2. ASSUME Reset PROVE d'.lastUpdateTime = NoTime
  BY <1>2 DEF Reset, NewDetector
<1>3. IInv /\ LastCallPast /\ [Next]_vars
        => [d.lastUpdateTime # NoTime /\ d'.lastUpdateTime # NoTime
              /\ ShortGap(d'.lastUpdateTime - d.lastUpdateTime)
            => Between(d'.threshold, d.threshold, Abs(d'.prevEstimate))]_d
  BY <1>1, <1>2 DEF Next, vars
<1> QED BY <1>3, Invariance, LastCallPastInvariant, PTL
        DEF Spec, ThresholdTracksOverShortGaps
=============================================================================
