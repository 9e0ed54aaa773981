--------------------------- MODULE RembScheduler ---------------------------
(***************************************************************************)
(* When a REMB is due: pkg/bwe/remb_scheduler.go, driven as                *)
(* interceptor/interceptor.go drives it, by a ticker whose period is the   *)
(* scheduler's own Interval.                                               *)
(*                                                                         *)
(* The runtime delivers the k-th tick between k * Interval and             *)
(* k * Interval + Jitter and stamps it with the time of delivery; packets  *)
(* change the estimate at any time in between.                             *)
(***************************************************************************)
EXTENDS Integers

CONSTANTS
  Interval, Jitter,             (* in ticks of the clock                   *)
  DecreaseNum, DecreaseDen,     (* DecreaseThreshold as a fraction         *)
  Estimates,                    (* bandwidth estimates                     *)
  MaxTime                       (* bound on the clock                      *)

(* The interceptor always takes the default threshold of 3 %. *)
ASSUME ConfigAssumption ==
  /\ Interval \in Nat \ {0}
  /\ Jitter \in Nat
  /\ {DecreaseNum, DecreaseDen} \subseteq Nat \ {0}
  /\ Estimates \subseteq Nat
  /\ MaxTime \in Nat

VARIABLES
  clock,
  nextTick,         (* nominal time of the ticker's next tick              *)
  estimate,         (* the estimator's current estimate                    *)
  s,                (* the REMBScheduler                                   *)
  overstatedSince   (* history: since when the value last sent overstates  *)
                    (* the estimate by the decrease threshold or more      *)

vars == <<clock, nextTick, estimate, s, overstatedSince>>

NoTime == -1        \* the zero time.Time
NewREMBScheduler == [lastSent |-> NoTime, lastValue |-> 0]

(* The decrease is relative to the value last sent; there is none before   *)
(* the first REMB.                                                         *)
SignificantDecrease(sch, e) ==
  sch.lastValue > 0 /\ (sch.lastValue - e) * DecreaseDen >= DecreaseNum * sch.lastValue

ShouldSendREMBIntervalOnly(sch, e, t) ==   \* mutation: no immediate trigger
  sch.lastSent = NoTime \/ t - sch.lastSent >= Interval

ShouldSendREMBStrict(sch, e, t) ==         \* mutation: a whole interval is not enough
  \/ SignificantDecrease(sch, e)
  \/ sch.lastSent = NoTime
  \/ t - sch.lastSent > Interval

ShouldSendREMB(sch, e, t) ==
  \/ SignificantDecrease(sch, e)
  \/ sch.lastSent = NoTime
  \/ t - sch.lastSent >= Interval

BuildAndRecordREMB(e, t) == [lastSent |-> t, lastValue |-> e]

MaybeSendREMB(sch, e, t) ==
  IF ShouldSendREMB(sch, e, t) THEN BuildAndRecordREMB(e, t) ELSE sch

-----------------------------------------------------------------------------
Init ==
  /\ clock = 0
  /\ nextTick = Interval
  /\ estimate \in Estimates
  /\ s = NewREMBScheduler
  /\ overstatedSince = NoTime

(* Keeps the history variable: evaluated with the step's new values. *)
Observed(sch, e, t) ==
  overstatedSince' = IF ~SignificantDecrease(sch, e) THEN NoTime
                     ELSE IF overstatedSince = NoTime THEN t ELSE overstatedSince

Advance ==
  /\ clock < MaxTime
  /\ clock < nextTick + Jitter
  /\ clock' = clock + 1
  /\ UNCHANGED <<nextTick, estimate, s, overstatedSince>>

(* OnPacket leaves a new estimate. *)
Packet(e) ==
  /\ estimate' = e
  /\ Observed(s, e, clock)
  /\ UNCHANGED <<clock, nextTick, s>>

(* One round of rembLoop: the tick is handed to MaybeBuildREMB. *)
Tick ==
  /\ clock >= nextTick
  /\ nextTick' = nextTick + Interval
  /\ s' = MaybeSendREMB(s, estimate, clock)
  /\ Observed(s', estimate, clock)
  /\ UNCHANGED <<clock, estimate>>

Reset ==
  /\ s' = NewREMBScheduler
  /\ Observed(s', estimate, clock)
  /\ UNCHANGED <<clock, nextTick, estimate>>

Next ==
  \/ Advance
  \/ \E e \in Estimates : Packet(e)
  \/ Tick
  \/ Reset

Spec == Init /\ [][Next]_vars

-----------------------------------------------------------------------------
(* The scheduler's fields and the driver's clock keep their types.         *)
TypeOK ==
  /\ clock \in Nat /\ nextTick \in Nat
  /\ estimate \in Estimates
  /\ s \in [lastSent : Nat \cup {NoTime}, lastValue : Estimates \cup {0}]
  /\ overstatedSince \in Nat \cup {NoTime}

(* The sender is never left for longer than one interval (and the jitter)  *)
(* with a value that overstates the estimate by DecreaseThreshold or more, *)
(* however packets and ticks interleave.                                   *)
OverstatementBounded ==
  overstatedSince # NoTime => clock - overstatedSince <= Interval + Jitter

(* Once a REMB has been sent the next follows before two intervals and the *)
(* jitter have passed: a tick skipped for being early costs a whole        *)
(* interval, but two are never skipped in a row.                           *)
SendGapBounded ==
  s.lastSent # NoTime => clock - s.lastSent < 2 * Interval + Jitter
=============================================================================
