--------------------------- MODULE RateController ---------------------------
(***************************************************************************)
(* The AIMD rate controller, pkg/bwe/rate_controller.go.                   *)
(*                                                                         *)
(* The controller is a record so that a module that composes it can apply  *)
(* an update in the middle of one of its own atomic steps.  Bitrates are   *)
(* integers as in the code; the two float factors, beta and                *)
(* eta = 1.08^elapsed, are fixed-point fractions and the conversion back   *)
(* to int64 truncates.  Time is counted in ticks, Second of them a second. *)
(***************************************************************************)
EXTENDS Integers

CONSTANTS
  ConfigMin, ConfigMax, ConfigInitial,    (* bitrates the caller passes    *)
  DefaultMin, DefaultMax, DefaultInitial, (* what replaces a value <= 0    *)
  ConfigBeta, DefaultBeta, BetaDen,       (* beta is a fraction of BetaDen *)
  Eta, EtaDen,       (* Eta[e] / EtaDen is 1.08 to the power of e ticks    *)
  Second,            (* ticks in a second, the cap on the elapsed time     *)
  IncomingRates,     (* measured incoming bitrates                         *)
  Times              (* instants at which Update may be called             *)

ASSUME ConfigAssumption ==
  /\ {ConfigMin, ConfigMax, ConfigInitial} \subseteq Int
  /\ {DefaultMin, DefaultMax, DefaultInitial} \subseteq Nat \ {0}
  /\ BetaDen \in Nat \ {0}
  /\ ConfigBeta \in Int
  /\ DefaultBeta \in 1 .. BetaDen - 1

ASSUME EtaAssumption ==
  /\ Second \in Nat \ {0}
  /\ EtaDen \in Nat \ {0}
  /\ 0 .. Second \subseteq DOMAIN Eta
  /\ \A e \in 0 .. Second : Eta[e] \in Nat /\ Eta[e] <= Eta[Second]
  /\ Eta[0] = EtaDen

ASSUME InputAssumption ==
  /\ IncomingRates \subseteq Nat
  /\ Times \subseteq Nat

VARIABLES
  rc,            (* the controller                                         *)
  lastSignal,    (* history: the signal of the last Update since a Reset   *)
  lastIncoming   (* history: the incoming rate of that Update              *)

vars == <<rc, lastSignal, lastIncoming>>

Signals == {"Normal", "Underusing", "Overusing"}
RateControlStates == {"Hold", "Increase", "Decrease"}
NoTime == -1     \* the zero time.Time

MinOf(a, b) == IF a < b THEN a ELSE b
MaxOf(a, b) == IF a > b THEN a ELSE b

(* NewRateController: a value that is not positive is replaced by its default. *)
OrDefault(value, default) == IF value <= 0 THEN default ELSE value

MinBitrate == OrDefault(ConfigMin, DefaultMin)
MaxBitrate == OrDefault(ConfigMax, DefaultMax)
InitialBitrate == OrDefault(ConfigInitial, DefaultInitial)
Beta == IF ConfigBeta <= 0 \/ ConfigBeta >= BetaDen THEN DefaultBeta ELSE ConfigBeta

NewController ==
  [state |-> "Hold", currentRate |-> InitialBitrate, lastUpdate |-> NoTime]

-----------------------------------------------------------------------------
(* The transition table of the comment above transitionState. *)
TransitionStateSkipsHold(state, signal) ==      \* mutation: Decrease -> Increase
  CASE signal = "Overusing"  -> "Decrease"
    [] signal = "Normal"     -> "Increase"
    [] signal = "Underusing" -> "Hold"

TransitionState(state, signal) ==
  CASE signal = "Overusing"  -> "Decrease"
    [] signal = "Normal"     -> IF state = "Decrease" THEN "Hold" ELSE "Increase"
    [] signal = "Underusing" -> "Hold"

ElapsedUncapped(c, t) == t - c.lastUpdate       \* mutation: no cap at a second

Elapsed(c, t) == MinOf(t - c.lastUpdate, Second)

Grown(rate, elapsed) == (Eta[elapsed] * rate) \div EtaDen
Reduced(incoming) == (Beta * incoming) \div BetaDen

AdjustRate(c, incoming, t) ==
  CASE c.state = "Decrease" -> Reduced(incoming)
    [] c.state = "Increase" ->
         IF c.lastUpdate # NoTime /\ Elapsed(c, t) > 0
           THEN Grown(c.currentRate, Elapsed(c, t))
           ELSE c.currentRate
    [] c.state = "Hold"     -> c.currentRate

ClampRate(rate) == MinOf(MaxOf(rate, MinBitrate), MaxBitrate)

Ratio(incoming) == (3 * incoming) \div 2        \* int64(1.5 * incomingRate)

LimitByIncomingAlways(rate, incoming) ==        \* mutation: guard on 0 dropped
  MinOf(rate, Ratio(incoming))

LimitByIncoming(rate, incoming) ==
  IF incoming > 0 THEN MinOf(rate, Ratio(incoming)) ELSE rate

UpdatedRatioFirst(c, signal, incoming, t) ==    \* mutation: clamp after the ratio
  LET moved == [c EXCEPT !.state = TransitionState(@, signal)]
  IN  [moved EXCEPT
         !.currentRate = ClampRate(LimitByIncoming(AdjustRate(moved, incoming, t),
                                                   incoming)),
         !.lastUpdate = t]

(* Update: transition, adjust, clamp to the bounds, then limit to 1.5 times *)
(* the incoming rate, in this order.                                        *)
Updated(c, signal, incoming, t) ==
  LET moved == [c EXCEPT !.state = TransitionState(@, signal)]
  IN  [moved EXCEPT
         !.currentRate = LimitByIncoming(ClampRate(AdjustRate(moved, incoming, t)),
                                         incoming),
         !.lastUpdate = t]

-----------------------------------------------------------------------------
Init ==
  /\ rc = NewController
  /\ lastSignal = "None"
  /\ lastIncoming = 0

(* Times of successive calls are not ordered: concurrent readers stamp a   *)
(* packet before they compete for the estimator's lock.                    *)
Update(signal, incoming, t) ==
  /\ rc' = Updated(rc, signal, incoming, t)
  /\ lastSignal' = signal
  /\ lastIncoming' = incoming

Reset ==
  /\ rc' = NewController
  /\ lastSignal' = "None"
  /\ lastIncoming' = 0

Next ==
  \/ \E signal \in Signals, incoming \in IncomingRates, t \in Times :
        Update(signal, incoming, t)
  \/ Reset

Spec == Init /\ [][Next]_vars

-----------------------------------------------------------------------------
(* Every field keeps the type the Go struct gives it. *)
TypeOK ==
  /\ rc \in [state : RateControlStates, currentRate : Nat,
             lastUpdate : Times \cup {NoTime}]
  /\ lastSignal \in Signals \cup {"None"}
  /\ lastIncoming \in IncomingRates \cup {0}

(* The estimate never reaches zero, whatever the incoming rate and however  *)
(* clamps and truncations combine: a zero would stop the sender and nothing *)
(* multiplicative could bring it back.  It is what cmd/soak counts as a     *)
(* suspicious event.                                                        *)
EstimatePositive == rc.currentRate > 0

(* What the last clamps of Update really guarantee: the ceiling is the      *)
(* smaller of MaxBitrate and 1.5 times the incoming rate, and the floor is  *)
(* MinBitrate unless that ceiling is lower.                                 *)
Ceiling(incoming) == LimitByIncoming(MaxBitrate, incoming)
EstimateInBand ==
  lastSignal # "None" =>
    /\ rc.currentRate <= Ceiling(lastIncoming)
    /\ rc.currentRate >= MinOf(MinBitrate, Ceiling(lastIncoming))

(* The update that follows an overuse does not raise the estimate, except   *)
(* to the floor or by another overuse: growth needs a full update in Hold.  *)
NoGrowthAfterOveruse ==
  [][lastSignal = "Overusing" /\ lastSignal' \in {"Normal", "Underusing"} =>
       rc'.currentRate <= MaxOf(rc.currentRate, MinBitrate)]_vars

(* However long the silence before it, an update without overuse raises the *)
(* estimate by at most one second's growth (or to the floor).               *)
GrowthPerUpdateBounded ==
  [][lastSignal' \in {"Normal", "Underusing"} =>
       rc'.currentRate <= MaxOf(Grown(rc.currentRate, Second), MinBitrate)]_vars

-----------------------------------------------------------------------------
(* "MinBitrate is the minimum allowed bitrate" (rate_controller.go:42) and  *)
(* "Never go below 50 kbps" (interceptor/doc.go:50).                        *)
NeverBelowMinBitrate == rc.currentRate >= MinBitrate
=============================================================================
