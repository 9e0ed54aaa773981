------------------------ MODULE RembSchedulerProofs ------------------------
(***************************************************************************)
(* Theorems about RembScheduler: how long the sender may be overstated and *)
(* how far apart two REMBs may be, for every interval, jitter, threshold   *)
(* and set of estimates.                                                   *)
(***************************************************************************)
EXTENDS RembScheduler, TLAPS

(* Both bounds follow from how the last tick relates to the next one: it   *)
(* cleared any overstatement, and it sent unless a REMB was less than an   *)
(* interval old.                                                           *)
IInv ==
  /\ TypeOK
  /\ nextTick - Interval <= clock
  /\ clock <= nextTick + Jitter
  /\ overstatedSince = NoTime <=> ~SignificantDecrease(s, estimate)
  /\ overstatedSince # NoTime => nextTick - overstatedSince <= Interval
  /\ s.lastSent # NoTime => nextTick - s.lastSent < 2 * Interval

SchedulerType == [lastSent : Nat \cup {NoTime}, lastValue : Estimates \cup {0}]

LEMMA NoTimeNotNat == NoTime \notin Nat
BY DEF NoTime

LEMMA InitIInv == Init => IInv
<1> SUFFICES ASSUME Init PROVE IInv
  OBVIOUS
<1>1. s \in SchedulerType /\ s.lastSent = NoTime /\ s.lastValue = 0
  BY DEF Init, NewREMBScheduler, SchedulerType
<1>2. ~SignificantDecrease(s, estimate)
  BY <1>1 DEF SignificantDecrease
<1> QED BY <1>1, <1>2, ConfigAssumption DEF Init, IInv, TypeOK, SchedulerType

LEMMA ProductPositive ==
  ASSUME NEW a \in Nat \ {0}, NEW b \in Nat \ {0}
  PROVE  a * b > 0
OBVIOUS

(* A value just sent does not overstate the estimate it was taken from. *)
LEMMA JustSentIsAccurate ==
  ASSUME NEW e \in Estimates, NEW t
  PROVE  ~SignificantDecrease(BuildAndRecordREMB(e, t), e)
<1>1. e \in Nat /\ DecreaseNum \in Nat \ {0} /\ DecreaseDen \in Nat
  BY ConfigAssumption
<1>2. (e - e) * DecreaseDen = 0
  BY <1>1
<1>3. e > 0 => DecreaseNum * e > 0
  BY <1>1, ProductPositive
<1> QED BY <1>1, <1>2, <1>3 DEF SignificantDecrease, BuildAndRecordREMB

(* A tick leaves no significant decrease behind: either there was none, or *)
(* the estimate has just been sent.                                        *)
LEMMA TickClearsOverstatement ==
  ASSUME TypeOK, Tick
  PROVE  ~SignificantDecrease(s', estimate')
<1>1. s' = MaybeSendREMB(s, estimate, clock) /\ estimate' = estimate
      /\ estimate \in Estimates
  BY DEF Tick, TypeOK
<1>2. CASE ShouldSendREMB(s, estimate, clock)
  BY <1>1, <1>2, JustSentIsAccurate DEF MaybeSendREMB
<1>3. CASE ~ShouldSendREMB(s, estimate, clock)
  BY <1>1, <1>3 DEF MaybeSendREMB, ShouldSendREMB
<1> QED BY <1>2, <1>3

LEMMA TickIInv ==
  ASSUME IInv, Tick
  PROVE  IInv'
<1>1. /\ clock \in Nat /\ nextTick \in Nat /\ clock >= nextTick
      /\ clock <= nextTick + Jitter
      /\ estimate \in Estimates /\ s \in SchedulerType
      /\ clock' = clock /\ estimate' = estimate /\ nextTick' = nextTick + Interval
      /\ Interval \in Nat \ {0} /\ Jitter \in Nat
      /\ s' = MaybeSendREMB(s, estimate, clock)
  BY ConfigAssumption DEF IInv, TypeOK, Tick, SchedulerType
<1>2. ~SignificantDecrease(s', estimate')
  BY TickClearsOverstatement DEF IInv
<1>3. overstatedSince' = NoTime
  BY <1>1, <1>2 DEF Tick, Observed
<1>4. s' \in SchedulerType
      /\ (s'.lastSent # NoTime => nextTick' - s'.lastSent < 2 * Interval)
  <2>1. CASE ShouldSendREMB(s, estimate, clock)
    <3>1. s' = [lastSent |-> clock, lastValue |-> estimate]
      BY <1>1, <2>1 DEF MaybeSendREMB, BuildAndRecordREMB
    <3> QED BY <1>1, <3>1 DEF SchedulerType
  <2>2. CASE ~ShouldSendREMB(s, estimate, clock)
    <3>1. s' = s /\ s.lastSent # NoTime /\ ~(clock - s.lastSent >= Interval)
      BY <1>1, <2>2 DEF MaybeSendREMB, ShouldSendREMB
    <3>2. s.lastSent \in Nat
      BY <1>1, <3>1 DEF SchedulerType
    <3> QED BY <1>1, <3>1, <3>2
  <2> QED BY <2>1, <2>2
<1>5. TypeOK'
  BY <1>1, <1>3, <1>4 DEF TypeOK, SchedulerType
<1>6. clock' <= nextTick' + Jitter /\ nextTick' - Interval <= clock'
  BY <1>1
<1> QED BY <1>2, <1>3, <1>4, <1>5, <1>6 DEF IInv

(* Between ticks an overstatement begins at the earliest at the last tick, *)
(* which was delivered no earlier than an interval before the next.        *)
LEMMA PacketIInv ==
  ASSUME IInv, NEW e \in Estimates, Packet(e)
  PROVE  IInv'
<1>1. /\ clock \in Nat /\ nextTick \in Nat /\ Interval \in Nat \ {0}
      /\ overstatedSince \in Nat \cup {NoTime}
      /\ estimate' = e /\ clock' = clock /\ nextTick' = nextTick /\ s' = s
  BY ConfigAssumption DEF IInv, TypeOK, Packet
<1>2. overstatedSince' = IF ~SignificantDecrease(s, e) THEN NoTime
                         ELSE IF overstatedSince = NoTime THEN clock
                         ELSE overstatedSince
  BY DEF Packet, Observed
<1>3. overstatedSince' # NoTime <=> SignificantDecrease(s, e)
  BY <1>1, <1>2, NoTimeNotNat
<1>4. overstatedSince' # NoTime => nextTick' - overstatedSince' <= Interval
  BY <1>1, <1>2 DEF IInv
<1>5. TypeOK'
  BY <1>1, <1>2 DEF IInv, TypeOK
<1> QED BY <1>1, <1>3, <1>4, <1>5 DEF IInv

LEMMA InductiveIInv == IInv /\ [Next]_vars => IInv'
<1> SUFFICES ASSUME IInv, [Next]_vars PROVE IInv'
  OBVIOUS
<1>1. CASE Advance
  <2>1. /\ clock \in Nat /\ nextTick \in Nat /\ Interval \in Nat /\ Jitter \in Nat
        /\ clock' = clock + 1 /\ clock < nextTick + Jitter
        /\ UNCHANGED <<nextTick, estimate, s, overstatedSince>>
    BY <1>1, ConfigAssumption DEF IInv, TypeOK, Advance
  <2> QED BY <2>1 DEF IInv, TypeOK, SignificantDecrease
<1>2. ASSUME NEW e \in Estimates, Packet(e)
      PROVE  IInv'
  BY <1>2, PacketIInv
<1>3. CASE Tick
  BY <1>3, TickIInv
<1>4. CASE Reset
  <2>1. s' = NewREMBScheduler /\ UNCHANGED <<clock, nextTick, estimate>>
    BY <1>4 DEF Reset
  <2>2. s' \in SchedulerType /\ s'.lastSent = NoTime /\ s'.lastValue = 0
    BY <2>1 DEF NewREMBScheduler, SchedulerType
  <2>3. ~SignificantDecrease(s', estimate')
    BY <2>2 DEF SignificantDecrease
  <2>4. overstatedSince' = NoTime
    BY <1>4, <2>1, <2>3 DEF Reset, Observed
  <2>5. TypeOK'
    BY <2>1, <2>2, <2>4 DEF IInv, TypeOK, SchedulerType
  <2> QED BY <2>1, <2>2, <2>3, <2>4, <2>5 DEF IInv
<1>5. CASE UNCHANGED vars
  BY <1>5 DEF vars, IInv, TypeOK, SignificantDecrease
<1> QED BY <1>1, <1>2, <1>3, <1>4, <1>5 DEF Next

LEMMA Invariance == Spec => []IInv
BY InitIInv, InductiveIInv, PTL DEF Spec

-----------------------------------------------------------------------------
(* The scheduler's fields keep their types. *)
THEOREM TypeCorrect == Spec => []TypeOK
<1>1. IInv => TypeOK
  BY DEF IInv
<1> QED BY <1>1, Invariance, PTL

(* A significant decrease reaches the scheduler's record within one        *)
(* interval and the jitter of one tick.                                    *)
THEOREM DecreaseSentWithinInterval == Spec => []OverstatementBounded
<1>1. IInv => OverstatementBounded
  <2> SUFFICES ASSUME IInv, overstatedSince # NoTime
               PROVE  clock - overstatedSince <= Interval + Jitter
    BY DEF OverstatementBounded
  <2>1. /\ clock \in Nat /\ nextTick \in Nat /\ overstatedSince \in Nat
        /\ Interval \in Nat /\ Jitter \in Nat
    BY ConfigAssumption DEF IInv, TypeOK
  <2> QED BY <2>1 DEF IInv
<1> QED BY <1>1, Invariance, PTL

(* Two consecutive REMBs are less than two intervals and the jitter apart. *)
THEOREM SendGap == Spec => []SendGapBounded
<1>1. IInv => SendGapBounded
  <2> SUFFICES ASSUME IInv, s.lastSent # NoTime
               PROVE  clock - s.lastSent < 2 * Interval + Jitter
    BY DEF SendGapBounded
  <2>1. /\ clock \in Nat /\ nextTick \in Nat /\ s.lastSent \in Nat
        /\ Interval \in Nat /\ Jitter \in Nat
    BY ConfigAssumption DEF IInv, TypeOK
  <2> QED BY <2>1 DEF IInv
<1> QED BY <1>1, Invariance, PTL
=============================================================================
