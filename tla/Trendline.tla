------------------------------ MODULE Trendline ------------------------------
(***************************************************************************)
(* The delay trend by linear regression, pkg/bwe/trendline.go: exponential *)
(* smoothing, a bounded history of points and the least-squares slope; and *)
(* the reference the trend is checked against.                             *)
(*                                                                         *)
(* A float64 is an integer of a small unit, a quotient a pair of integers. *)
(* Arrival times are in ticks and may go back: the packet that opens a     *)
(* group may have been stamped before an earlier one.                      *)
(***************************************************************************)
EXTENDS Integers, SequencesExt

CONSTANTS
  WindowSize,             (* config.WindowSize, at least 2                 *)
  CoefNum, CoefDen,       (* config.SmoothingCoef                          *)
  Gain,                   (* config.ThresholdGain                          *)
  CountCap,               (* the 60 that caps the factor numDeltas         *)
  TicksPerMs

(* NewTrendlineEstimator replaces a WindowSize below 2. *)
FitAssumption ==
  /\ {WindowSize, CoefNum, CoefDen, Gain, CountCap, TicksPerMs} \subseteq Nat \ {0}
  /\ WindowSize >= 2 /\ CoefNum < CoefDen

NoArrival == -1     \* the zero time.Time
Zero == [num |-> 0, den |-> 1]

NewTrendlineEstimator ==
  [history |-> <<>>, smoothedDelay |-> 0, numDeltas |-> 0, firstArrival |-> NoArrival]

MinOf(a, b) == IF a < b THEN a ELSE b

SumOf(terms) ==
  LET upTo[i \in 0 .. Len(terms)] == IF i = 0 THEN 0 ELSE upTo[i - 1] + terms[i]
  IN  upTo[Len(terms)]

(* Milliseconds() truncates toward zero. *)
ToMs(ticks) == IF ticks >= 0 THEN ticks \div TicksPerMs ELSE -((-ticks) \div TicksPerMs)

Smoothed(old, variation) ==
  (CoefNum * old + (CoefDen - CoefNum) * variation) \div CoefDen

KeptWindowTooLong(points) ==           \* mutation: trims one point too late
  IF Len(points) > WindowSize + 1 THEN Tail(points) ELSE points

KeptWindow(points) == IF Len(points) > WindowSize THEN Tail(points) ELSE points

(* linearFitSlope: n * sum(xy) - sum(x) * sum(y) over n * sum(x^2) - sum(x)^2, *)
(* which is never negative.                                                *)
Xs(points) == [i \in DOMAIN points |-> points[i].x]
Ys(points) == [i \in DOMAIN points |-> points[i].y]
Products(xs, ys) == [i \in DOMAIN xs |-> xs[i] * ys[i]]

Numerator(points) ==
  Len(points) * SumOf(Products(Xs(points), Ys(points)))
    - SumOf(Xs(points)) * SumOf(Ys(points))

Denominator(points) ==
  Len(points) * SumOf(Products(Xs(points), Xs(points)))
    - SumOf(Xs(points)) * SumOf(Xs(points))

LinearFitSlope(points) ==
  IF Len(points) < 2 \/ Denominator(points) = 0 THEN Zero
  ELSE [num |-> Numerator(points), den |-> Denominator(points)]

TrendUpdated(t, at, variation) ==
  LET first == IF t.firstArrival = NoArrival THEN at ELSE t.firstArrival
      delay == Smoothed(t.smoothedDelay, variation)
  IN  [history       |-> KeptWindow(Append(t.history, [x |-> ToMs(at - first), y |-> delay])),
       smoothedDelay |-> delay,
       numDeltas     |-> t.numDeltas + 1,
       firstArrival  |-> first]

(* What Update returns, t being the struct it leaves behind. *)
Trend(t) ==
  LET slope == LinearFitSlope(t.history)
  IN  [slope EXCEPT !.num = MinOf(t.numDeltas, CountCap) * @ * Gain]

-----------------------------------------------------------------------------
(* The reference, a function of all calls [at, variation] since Reset: the *)
(* weights in closed form, and the slope from the differences of all pairs *)
(* of the last points.                                                     *)
Powers(base, k) ==
  LET power[i \in 0 .. k] == IF i = 0 THEN 1 ELSE base * power[i - 1]
  IN  power

ReferenceDelay(calls, k) ==
  LET num == Powers(CoefNum, k)
      den == Powers(CoefDen, k)
      weighted == [i \in 1 .. k |->
                     (CoefDen - CoefNum) * num[k - i] * den[i - 1] * calls[i].variation]
  IN  SumOf(weighted) \div den[k]
ReferencePoint(calls, k) ==
  [x |-> ToMs(calls[k].at - calls[1].at), y |-> ReferenceDelay(calls, k)]

PairSum(xs, ys) ==
  LET PairsWith(j) == [i \in 1 .. j - 1 |-> (xs[j] - xs[i]) * (ys[j] - ys[i])]
  IN  SumOf([j \in DOMAIN xs |-> SumOf(PairsWith(j))])

ReferenceSlope(points) ==
  [num |-> PairSum(Xs(points), Ys(points)), den |-> PairSum(Xs(points), Xs(points))]

(* The trend is the regression over the last WindowSize calls. *)
IsReferenceTrend(trend, calls) ==
  LET n == Len(calls)
      points == [k \in 1 .. n |-> ReferencePoint(calls, k)]
      slope == ReferenceSlope(SubSeq(points, n - MinOf(n, WindowSize) + 1, n))
  IN  IF slope.den = 0 THEN trend.num = 0 /\ trend.den # 0
      ELSE trend.num * slope.den = MinOf(n, CountCap) * slope.num * Gain * trend.den
=============================================================================
