---------------------------- MODULE InterArrival ----------------------------
(***************************************************************************)
(* Burst grouping and delay variation, pkg/bwe/interarrival.go, with the   *)
(* wraparound arithmetic of pkg/bwe/timestamp.go.                          *)
(*                                                                         *)
(* Arrival times are in ticks.  A sender stamps packets with a counter     *)
(* modulo AbsSendTimeMax whose unit is UnitNum / UnitDen ticks; a history  *)
(* variable keeps the counter as it was before the modulus was taken.      *)
(* A group's Size, NumPackets and FirstSendTime are read by nothing and    *)
(* left out.                                                               *)
(***************************************************************************)
EXTENDS Integers

CONSTANTS
  BurstThreshold,               (* in ticks                                *)
  AbsSendTimeMax,               (* the counter's modulus                   *)
  UnitNum, UnitDen,             (* AbsSendTimeResolution as a fraction     *)
  ArrivalGaps,                  (* ticks between two packets, of any sign  *)
  SendGaps,                     (* the same for the sender, in its unit    *)
  MaxTime                       (* bound on both clocks                    *)

(* NewInterArrivalCalculator replaces a threshold that is not positive.    *)
ASSUME ConfigAssumption ==
  /\ {BurstThreshold, UnitNum, UnitDen, MaxTime} \subseteq Nat \ {0}
  /\ AbsSendTimeMax \in Nat \ {0} /\ AbsSendTimeMax % 2 = 0
  /\ ArrivalGaps \subseteq Int /\ SendGaps \subseteq Int

VARIABLES
  ia,           (* the calculator: its current and previous group          *)
  arrival,      (* arrival time of the last packet                         *)
  sent,         (* history: true send time of the last packet              *)
  truth,        (* history: true send times at the border of the two       *)
                (* groups                                                  *)
  measured      (* what AddPacket last returned                            *)

vars == <<ia, arrival, sent, truth, measured>>

NoResult == [hasResult |-> FALSE, delayVariation |-> 0]
NoGroup == [firstArrive |-> -1, lastArrive |-> -1, lastSend |-> -1]
NewCalculator == [current |-> NoGroup, previous |-> NoGroup]
NoTruth == [previousLast |-> 0, currentFirst |-> 0]

HalfRange == AbsSendTimeMax \div 2

(* UnwrapAbsSendTime: the signed difference of two wrapped counters.       *)
UnwrapAbsSendTimeForward(prev, curr) ==    \* mutation: only the forward wrap is undone
  LET diff == curr - prev
  IN  IF diff < -HalfRange THEN diff + AbsSendTimeMax ELSE diff

UnwrapAbsSendTime(prev, curr) ==
  LET diff == curr - prev
  IN  IF diff > HalfRange THEN diff - AbsSendTimeMax
      ELSE IF diff < -HalfRange THEN diff + AbsSendTimeMax
      ELSE diff

(* The conversion to a Duration truncates toward zero. *)
ToTicks(units) ==
  IF units >= 0 THEN (units * UnitNum) \div UnitDen
                ELSE -(((-units) * UnitNum) \div UnitDen)

BelongsToBurst(c, arrive) ==
  c.current # NoGroup /\ arrive - c.current.lastArrive <= BurstThreshold

GroupOf(arrive, send) ==
  [firstArrive |-> arrive, lastArrive |-> arrive, lastSend |-> send]

Joined(g, arrive, send) ==
  [g EXCEPT !.lastArrive = arrive, !.lastSend = send]

AddedKeepsPrevious(c, arrive, send) ==     \* mutation: previous group set only once
  IF BelongsToBurst(c, arrive)
    THEN [c EXCEPT !.current = Joined(@, arrive, send)]
    ELSE [current  |-> GroupOf(arrive, send),
          previous |-> IF c.previous = NoGroup THEN c.current ELSE c.previous]

(* AddPacket: join the current group, or close it and open another.        *)
Added(c, arrive, send) ==
  IF BelongsToBurst(c, arrive)
    THEN [c EXCEPT !.current = Joined(@, arrive, send)]
    ELSE [current |-> GroupOf(arrive, send), previous |-> c.current]

ComputeDelayVariationSwapped(c) ==         \* mutation: the two send times swapped
  (c.current.lastArrive - c.previous.lastArrive)
    - ToTicks(UnwrapAbsSendTime(c.current.lastSend, c.previous.lastSend))

ComputeDelayVariation(c) ==
  (c.current.lastArrive - c.previous.lastArrive)
    - ToTicks(UnwrapAbsSendTime(c.previous.lastSend, c.current.lastSend))

(* What AddPacket returns, c being the calculator before it and n after.   *)
Result(c, n, arrive) ==
  IF BelongsToBurst(c, arrive) \/ n.previous = NoGroup THEN NoResult
  ELSE [hasResult |-> TRUE, delayVariation |-> ComputeDelayVariation(n)]

-----------------------------------------------------------------------------
Init ==
  /\ ia = NewCalculator
  /\ arrival = 0
  /\ sent = 0
  /\ truth = NoTruth
  /\ measured = NoResult

AddPacket(gap, sendGap) ==
  /\ arrival' = arrival + gap /\ arrival' \in 0 .. MaxTime
  /\ sent' = sent + sendGap /\ sent' \in 0 .. MaxTime
  /\ ia' = Added(ia, arrival', sent' % AbsSendTimeMax)
  /\ measured' = Result(ia, ia', arrival')
  /\ truth' = IF BelongsToBurst(ia, arrival') THEN truth
              ELSE [previousLast |-> sent, currentFirst |-> sent']

Reset ==
  /\ ia' = NewCalculator
  /\ truth' = NoTruth
  /\ measured' = NoResult
  /\ UNCHANGED <<arrival, sent>>

Next ==
  \/ \E gap \in ArrivalGaps, sendGap \in SendGaps : AddPacket(gap, sendGap)
  \/ Reset

Spec == Init /\ [][Next]_vars

-----------------------------------------------------------------------------
(* Two groups never touch: the current one began more than the threshold   *)
(* after the last packet of the previous one, even when arrival times go   *)
(* back, so that no receive delta is ever zero or negative.                *)
GroupsSeparated ==
  ia.previous # NoGroup => ia.current.firstArrive - ia.previous.lastArrive > BurstThreshold

(* The send deltas that two wrapped counters leave open: one alone if it   *)
(* is less than half the range, in either order, and both ways if it is    *)
(* exactly half.                                                           *)
Nearest(sendDelta) ==
  {delta \in -HalfRange .. HalfRange : (sendDelta - delta) % AbsSendTimeMax = 0}

(* Every measurement is within a tick of the true change in one-way delay  *)
(* between the previous group's last packet and the packet that opened the *)
(* current group, across any wrap of the sender's counter; and of two that *)
(* were sent half its range apart or more, it takes the nearest send times *)
(* that have their counters.                                               *)
DelayExact ==
  LET sendDelta == truth.currentFirst - truth.previousLast
      receiveDelta == ia.current.firstArrive - ia.previous.lastArrive
      error(delta) == (receiveDelta - measured.delayVariation) * UnitDen - delta * UnitNum
  IN  measured.hasResult
        => \E delta \in Nearest(sendDelta) :
             -UnitDen < error(delta) /\ error(delta) < UnitDen
=============================================================================
