--------------------------- MODULE SlidingWindow ---------------------------
(***************************************************************************)
(* What RateStats promises (pkg/bwe/rate_stats.go), as far as the order of *)
(* its calls allows: every sample of the window is held, an older one only *)
(* for as long as calls have come late, and the rate is a fresh sum over a *)
(* span that is too short by at most twice that lateness.  When calls come *)
(* in order, lateness is 0 and all of this is exact.                       *)
(***************************************************************************)
EXTENDS Integers, SequencesExt

CONSTANTS
  WindowSize, MinElapsed, TicksPerSecond,   (* times in ticks               *)
  Sizes,                                    (* packet sizes in bytes        *)
  Instants                                  (* possible times of calls      *)

VARIABLES
  window,     (* the samples, in the order of the calls                     *)
  answer,     (* what the last Rate returned                                *)
  latest,     (* the latest time any call has carried                       *)
  lateness    (* how far a call since the last Reset was behind the latest  *)

NoRate == -1          \* (0, false)

SumBytes(samples) ==
  LET upTo[i \in 0 .. Len(samples)] == IF i = 0 THEN 0 ELSE upTo[i - 1] + samples[i].bytes
  IN  upTo[Len(samples)]

Span(samples) ==
  LET stamps == {samples[i].timestamp : i \in DOMAIN samples}
  IN  Max(stamps) - Min(stamps)

RateOver(samples, span) ==
  IF Len(samples) < 2 \/ span < MinElapsed THEN NoRate
  ELSE (8 * SumBytes(samples) * TicksPerSecond) \div span

Spans(samples) ==
  IF samples = <<>> THEN {0} ELSE (Span(samples) - 2 * lateness') .. Span(samples)

Called(t) ==
  /\ latest' = Max({latest, t})
  /\ lateness' = Max({lateness, latest - t})

(* What may be left of the window at t: nothing fresh is dropped. *)
Trimmed(t) ==
  {SubSeq(window, n + 1, Len(window)) : n \in
     {n \in 0 .. Len(window) :
        /\ \A i \in 1 .. n : window[i].timestamp < t - WindowSize
        /\ \A i \in n + 1 .. Len(window) :
             window[i].timestamp >= t - WindowSize - lateness'}}

Init ==
  /\ window = <<>>
  /\ answer = NoRate
  /\ latest = 0 /\ lateness = 0

Update(bytes, t) ==
  /\ Called(t)
  /\ \E w \in Trimmed(t) : window' = Append(w, [timestamp |-> t, bytes |-> bytes])
  /\ UNCHANGED answer

Rate(t) ==
  /\ Called(t)
  /\ window' \in Trimmed(t)
  /\ answer' \in {RateOver(window', span) : span \in Spans(window')}

Reset ==
  /\ window' = <<>>
  /\ lateness' = 0
  /\ UNCHANGED <<answer, latest>>

Next ==
  \/ \E bytes \in Sizes, t \in Instants : Update(bytes, t)
  \/ \E t \in Instants : Rate(t)
  \/ Reset

Spec == Init /\ [][Next]_<<window, answer, latest, lateness>>
=============================================================================
