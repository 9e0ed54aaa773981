------------------------------- MODULE Kalman -------------------------------
(***************************************************************************)
(* The scalar Kalman filter over delay gradients, pkg/bwe/kalman.go, in    *)
(* fixed point.  Measurements and the estimate are integers of which       *)
(* UnitsPerMs make a millisecond; variances are integers of which One make *)
(* a square millisecond.  Divisions round down, where the code rounds to   *)
(* the nearest float64.                                                    *)
(***************************************************************************)
EXTENDS Integers

CONSTANTS
  ProcessNoise, InitialError,   (* config, as variances                    *)
  ChiNum, ChiDen,               (* config.Chi                              *)
  One, UnitsPerMs

FilterAssumption ==
  /\ {ProcessNoise, InitialError, ChiNum} \subseteq Nat
  /\ {ChiDen, One, UnitsPerMs} \subseteq Nat \ {0}
  /\ ChiNum <= ChiDen

NewKalmanFilter == [estimate |-> 0, errorCov |-> InitialError, measureNoise |-> One]

SmallerOf(a, b) == IF a < b THEN a ELSE b
LargerOf(a, b) == IF a < b THEN b ELSE a

SquaredUncapped(z, noise) == (z * z * One) \div (UnitsPerMs * UnitsPerMs)   \* mutation: no cap

(* The square of the innovation capped at three standard deviations.       *)
CappedSquare(z, noise) ==
  SmallerOf((z * z * One) \div (UnitsPerMs * UnitsPerMs), 9 * noise)

(* Only the noise is computed from the capped innovation; it never falls   *)
(* below 1.                                                                *)
MeasureNoise(noise, z) ==
  LargerOf(One, ((ChiDen - ChiNum) * noise + ChiNum * CappedSquare(z, noise)) \div ChiDen)

(* One step: k.gain is prior / (noise + prior).                            *)
CorrectedDoubly(k, noise, prior, z) ==      \* mutation: the prior not in the divisor
  [estimate     |-> k.estimate + (z * prior) \div noise,
   errorCov     |-> (noise * prior) \div (noise + prior),
   measureNoise |-> noise]

Corrected(k, noise, prior, z) ==
  [estimate     |-> k.estimate + (z * prior) \div (noise + prior),
   errorCov     |-> (noise * prior) \div (noise + prior),
   measureNoise |-> noise]

KalmanUpdated(k, measurement) ==
  LET z == measurement - k.estimate
  IN  Corrected(k, MeasureNoise(k.measureNoise, z), k.errorCov + ProcessNoise, z)
=============================================================================
