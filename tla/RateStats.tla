----------------------------- MODULE RateStats -----------------------------
(***************************************************************************)
(* The incoming-rate measurement, pkg/bwe/rate_stats.go: a slice of        *)
(* samples trimmed from its front and a running total kept next to it.     *)
(*                                                                         *)
(* A call may carry a time up to Skew behind the latest one: packets are   *)
(* stamped before they compete for the estimator's lock                    *)
(* (interceptor/interceptor.go:177).                                       *)
(***************************************************************************)
EXTENDS Integers, SequencesExt

CONSTANTS
  WindowSize, MinElapsed, TicksPerSecond,  (* times in ticks               *)
  Sizes,                                   (* packet sizes in bytes        *)
  Skew,                                    (* bound on a call's lateness   *)
  MaxTime, MaxSamples                      (* bounds on the model          *)

(* NewRateStats replaces a window that is not positive, so WindowSize is. *)
ASSUME ConfigAssumption ==
  /\ {WindowSize, MinElapsed, TicksPerSecond} \subseteq Nat \ {0}
  /\ Sizes \subseteq Nat
  /\ {Skew, MaxTime, MaxSamples} \subseteq Nat

VARIABLES
  rs,         (* the RateStats struct                                      *)
  answer,     (* what the last Rate returned                               *)
  latest,     (* the latest time any call has carried                      *)
  lastCall,   (* history: the time of the last Update or Rate              *)
  lateness    (* history: how far a call since the last Reset was behind   *)
              (* the latest                                                *)

vars == <<rs, answer, latest, lastCall, lateness>>

Instants == 0 .. MaxTime
NoRate == -1          \* (0, false)
NewRateStats == [samples |-> <<>>, totalBytes |-> 0]

SumBytes(samples) ==
  LET upTo[i \in 0 .. Len(samples)] == IF i = 0 THEN 0 ELSE upTo[i - 1] + samples[i].bytes
  IN  upTo[Len(samples)]

(* How many samples the loop of removeExpired passes before it breaks. *)
ExpiredCountOne(samples, cutoff) ==             \* mutation: removes at most one
  IF samples # <<>> /\ Head(samples).timestamp < cutoff THEN 1 ELSE 0

ExpiredCount(samples, cutoff) ==
  LET fresh == SelectInSeq(samples, LAMBDA s : s.timestamp >= cutoff)
  IN  IF fresh = 0 THEN Len(samples) ELSE fresh - 1

RemoveExpiredKeepsTotal(r, t) ==   \* mutation: the running total is not reduced
  LET n == ExpiredCount(r.samples, t - WindowSize)
  IN  [r EXCEPT !.samples = SubSeq(@, n + 1, Len(@))]

RemoveExpired(r, t) ==
  LET n == ExpiredCount(r.samples, t - WindowSize)
  IN  [samples    |-> SubSeq(r.samples, n + 1, Len(r.samples)),
       totalBytes |-> r.totalBytes - SumBytes(SubSeq(r.samples, 1, n))]

Updated(r, bytes, t) ==
  LET trimmed == RemoveExpired(r, t)
  IN  [samples    |-> Append(trimmed.samples, [timestamp |-> t, bytes |-> bytes]),
       totalBytes |-> trimmed.totalBytes + bytes]

(* The rate of a trimmed record, from its first and last sample. *)
Measured(r) ==
  LET elapsed == Last(r.samples).timestamp - Head(r.samples).timestamp
  IN  IF Len(r.samples) < 2 THEN NoRate
      ELSE IF elapsed < MinElapsed THEN NoRate
      ELSE (8 * r.totalBytes * TicksPerSecond) \div elapsed

-----------------------------------------------------------------------------
Init ==
  /\ rs = NewRateStats
  /\ answer = NoRate
  /\ latest = 0 /\ lastCall = 0 /\ lateness = 0

(* A call may carry any time not further than Skew behind the latest. *)
Called(t) ==
  /\ t >= latest - Skew
  /\ latest' = Max({latest, t})
  /\ lastCall' = t
  /\ lateness' = Max({lateness, latest - t})

Update(bytes, t) ==
  /\ Called(t)
  /\ rs' = Updated(rs, bytes, t)
  /\ Len(rs'.samples) <= MaxSamples
  /\ UNCHANGED answer

Rate(t) ==
  /\ Called(t)
  /\ rs' = RemoveExpired(rs, t)
  /\ answer' = Measured(rs')

ResetKeepsTotal ==                 \* mutation: the running total survives
  /\ rs' = [rs EXCEPT !.samples = <<>>]
  /\ lateness' = 0
  /\ UNCHANGED <<answer, latest, lastCall>>

Reset ==
  /\ rs' = NewRateStats
  /\ lateness' = 0
  /\ UNCHANGED <<answer, latest, lastCall>>

Next ==
  \/ \E bytes \in Sizes, t \in Instants : Update(bytes, t)
  \/ \E t \in Instants : Rate(t)
  \/ Reset

Spec == Init /\ [][Next]_vars

-----------------------------------------------------------------------------
(* The running total is the sum of the samples still held: incremental     *)
(* subtraction never drifts from what a fresh sum would give.              *)
TotalMatches == rs.totalBytes = SumBytes(rs.samples)

(* However calls are reordered, no sample outlives the window by more than *)
(* calls have been late: a late sample can hide behind a fresher one, but  *)
(* only for as long as that one is itself in the window.  With calls in    *)
(* order this is what removeExpired promises (rate_stats.go:117): it       *)
(* "removes all samples older than windowSize from now".                   *)
StalenessBounded ==
  \A i \in DOMAIN rs.samples :
    rs.samples[i].timestamp >= lastCall - WindowSize - lateness

(* The trimmed slice and its running total implement SlidingWindow: fresh  *)
(* samples are never lost, and Rate gives an answer that a fresh sum over  *)
(* the samples could give; exactly the window's when calls are in order.   *)
Abstract == INSTANCE SlidingWindow WITH window <- rs.samples
ImplementsWindow == Abstract!Spec
=============================================================================
