---------------------------- MODULE EstimatorLoop ----------------------------
(***************************************************************************)
(* The estimator as interceptor/interceptor.go drives it: readers and the  *)
(* owner call it at any time, and rembLoop hands the ticks of its ticker,  *)
(* whose period is the scheduler's Interval, to MaybeBuildREMB.  A tick is *)
(* taken up to Jitter late.                                                *)
(*                                                                         *)
(* RembScheduler has the same ticker and an estimate that moves at will;   *)
(* here packets move it, and a REMB needs a source besides, of which Reset *)
(* forgets all while the scheduler remembers its last REMB.                *)
(***************************************************************************)
EXTENDS BandwidthEstimator

CONSTANT Jitter                (* in ticks of the clock                    *)

(* NewBWEInterceptor installs a positive interval. *)
ASSUME LoopAssumption == Interval \in Nat \ {0} /\ Jitter \in Nat

VARIABLES
  nextTick,         (* nominal time of the ticker's next tick              *)
  knownSince,       (* history: since when some source has been known      *)
  overstatedSince   (* history: since when there has been a source, and    *)
                    (* the value last sent overstates the estimate         *)

loopVars == <<estimatorVars, nextTick, knownSince, overstatedSince>>

Overstated == ssrcs # {} /\ Sched!SignificantDecrease(sched, estimate)

LoopInit ==
  /\ EstimatorInit
  /\ nextTick = Interval
  /\ knownSince = NoTime /\ overstatedSince = NoTime

Began(since, holds, t) == IF ~holds THEN NoTime ELSE IF since = NoTime THEN t ELSE since

(* Keeps the history variables: evaluated with the step's new values. *)
Observe ==
  /\ knownSince' = Began(knownSince, ssrcs' # {}, now')
  /\ overstatedSince' = Began(overstatedSince, Overstated', now')

(* One round of rembLoop. *)
Tick ==
  /\ now >= nextTick
  /\ nextTick' = nextTick + Interval
  /\ MaybeBuildREMB
  /\ Observe

Called ==
  /\ Call
  /\ Observe
  /\ UNCHANGED nextTick

(* MaybeBuildREMB is open to the owner too, between the ticks.             *)
Asked ==
  /\ MaybeBuildREMB
  /\ Observe
  /\ UNCHANGED nextTick

Elapse ==
  /\ now < nextTick + Jitter
  /\ Advance
  /\ Observe
  /\ UNCHANGED nextTick

LoopNext == Tick \/ Called \/ Asked \/ Elapse

LoopSpec == LoopInit /\ [][LoopNext]_loopVars

-----------------------------------------------------------------------------
(* The sender is not left for longer than an interval and the jitter with  *)
(* a value that overstates the estimate by the decrease threshold, through *)
(* silence, bursts, packets out of order and resets, which bring back the  *)
(* initial estimate and leave the scheduler its last value.  While no      *)
(* source is known it may be, since MaybeBuildREMB then sends nothing.     *)
OverstatementCleared ==
  overstatedSince # NoTime => now - overstatedSince <= Interval + Jitter

(* As long as a source is known REMBs keep coming, also before any packet  *)
(* has had a rate: the first after one interval at most, and none later    *)
(* than two after the one before it.                                       *)
KeepsAnnouncing ==
  ssrcs # {} =>
    \/ now - knownSince <= Interval + Jitter
    \/ sched.lastSent # NoTime /\ now - sched.lastSent < 2 * Interval + Jitter
=============================================================================
