------------------------ MODULE DelayEstimatorProofs ------------------------
(***************************************************************************)
(* Theorems about DelayEstimator and the InterArrival it extends: the      *)
(* wraparound arithmetic recovers every send delta below half the          *)
(* counter's range and the nearest one that fits the counters otherwise,   *)
(* groups never touch and measurements are exact to the tick; inside the   *)
(* pipeline this stays so, the Kalman estimate never overshoots the        *)
(* measurements, no outlier raises the noise variance by more than a fixed *)
(* factor, the trend is that of the last calls, the one of the reference   *)
(* where nothing rounds, and never a quotient by zero, overuse means that  *)
(* the delay grew, and a path of constant delay is Normal: for every       *)
(* configuration and every sequence of packets.                            *)
(***************************************************************************)
EXTENDS DelayEstimator, SequenceTheorems, TLAPS

-----------------------------------------------------------------------------
(* The calculator on its own.                                              *)

LEMMA NatProduct ==
  ASSUME NEW m \in Nat, NEW k \in Nat
  PROVE  m * k \in Nat
OBVIOUS

LEMMA DivisionFacts ==
  ASSUME NEW a \in Int, NEW m \in Nat \ {0}
  PROVE  a % m \in 0 .. m - 1 /\ a \div m \in Int /\ a = m * (a \div m) + (a % m)
<1>1. a % m \in 0 .. m - 1
  OBVIOUS
<1>2. a \div m \in Int
  OBVIOUS
<1>3. a = m * (a \div m) + (a % m)
  OBVIOUS
<1> QED BY <1>1, <1>2, <1>3

(* The distance of two numbers in multiples of m and remainders. *)
LEMMA DistanceInMultiples ==
  ASSUME NEW m \in Int, NEW p \in Int, NEW q \in Int, NEW rp \in Int, NEW rq \in Int
  PROVE  (m * q + rq) - (m * p + rp) = m * (q - p) + (rq - rp)
<1>1. m * (q - p) = m * q - m * p
  OBVIOUS
<1>2. m * q \in Int /\ m * p \in Int
  OBVIOUS
<1> QED BY <1>1, <1>2

LEMMA HalfRangeIsHalf ==
  /\ AbsSendTimeMax \in Nat \ {0}
  /\ HalfRange \in Nat
  /\ AbsSendTimeMax = 2 * HalfRange
BY ConfigAssumption DEF HalfRange

(* A multiple of m strictly between -2m and 2m is -m, 0 or m. *)
LEMMA SmallMultiple ==
  ASSUME NEW m \in Nat \ {0}, NEW k \in Int, -(2 * m) < m * k, m * k < 2 * m
  PROVE  k \in {-1, 0, 1}
<1>1. ~(k >= 2)
  <2> SUFFICES ASSUME k >= 2 PROVE FALSE
    OBVIOUS
  <2>1. k - 2 \in Nat
    OBVIOUS
  <2>2. m * (k - 2) \in Nat
    BY <2>1, NatProduct
  <2>3. m * (k - 2) = m * k - 2 * m
    OBVIOUS
  <2> QED BY <2>2, <2>3
<1>2. ~(k <= -2)
  <2> SUFFICES ASSUME k <= -2 PROVE FALSE
    OBVIOUS
  <2>1. (-2) - k \in Nat
    OBVIOUS
  <2>2. m * ((-2) - k) \in Nat
    BY <2>1, NatProduct
  <2>3. m * ((-2) - k) = -(2 * m) - m * k
    OBVIOUS
  <2> QED BY <2>2, <2>3
<1> QED BY <1>1, <1>2

LEMMA MultipleHasNoRemainder ==
  ASSUME NEW m \in Nat \ {0}, NEW k \in Int
  PROVE  (m * k) % m = 0
<1> DEFINE a == m * k
           q == a \div m
           r == a % m
<1>1. a \in Int
  OBVIOUS
<1>2. r \in 0 .. m - 1 /\ q \in Int /\ a = m * q + r
  BY <1>1, DivisionFacts
<1> HIDE DEF q, r
<1>3. m * (k - q) = m * k - m * q /\ m * q \in Int /\ k - q \in Int
  BY <1>2
<1>4. m * (k - q) = r
  BY <1>1, <1>2, <1>3
<1>5. k - q \in {-1, 0, 1}
  BY <1>2, <1>3, <1>4, SmallMultiple
<1> QED BY <1>2, <1>4, <1>5 DEF r

(* Only one of the deltas left open is less than half the range. *)
LEMMA NearestIsExact ==
  ASSUME NEW d \in Int, -HalfRange < d, d < HalfRange, NEW e \in Nearest(d)
  PROVE  e = d
<1> DEFINE m == AbsSendTimeMax
           k == (d - e) \div m
<1>1. /\ m \in Nat \ {0} /\ HalfRange \in Nat /\ m = 2 * HalfRange
      /\ e \in -HalfRange .. HalfRange /\ (d - e) % m = 0
  BY HalfRangeIsHalf DEF Nearest
<1> HIDE DEF m
<1>2. d - e \in Int /\ -m < d - e /\ d - e < m
  BY <1>1
<1>3. k \in Int /\ d - e = m * k
  <2>1. k \in Int /\ d - e = m * k + ((d - e) % m)
    BY <1>1, <1>2, DivisionFacts
  <2> HIDE DEF k
  <2>2. m * k \in Int
    BY <1>1, <2>1
  <2> QED BY <1>1, <2>1, <2>2
<1> HIDE DEF k
<1>4. k \in {-1, 0, 1}
  BY <1>1, <1>2, <1>3, SmallMultiple
<1> QED BY <1>1, <1>2, <1>3, <1>4

(* UnwrapAbsSendTime applied to two wrapped counters gives a difference    *)
(* that they leave open, none further than half the range from zero,       *)
(* however far the counters are apart and across any wrap.                 *)
THEOREM UnwrapNearest ==
  ASSUME NEW a \in Int, NEW b \in Int
  PROVE  UnwrapAbsSendTime(a % AbsSendTimeMax, b % AbsSendTimeMax) \in Nearest(b - a)
<1> DEFINE m == AbsSendTimeMax
           ra == a % m
           rb == b % m
           k == (b \div m) - (a \div m)
           u == UnwrapAbsSendTime(ra, rb)
<1>1. m \in Nat \ {0} /\ HalfRange \in Nat /\ m = 2 * HalfRange
  BY HalfRangeIsHalf
<1> HIDE DEF m
<1>2. /\ ra \in 0 .. m - 1 /\ rb \in 0 .. m - 1
      /\ a \div m \in Int /\ b \div m \in Int
      /\ a = m * (a \div m) + ra /\ b = m * (b \div m) + rb
  BY <1>1, DivisionFacts
<1>3. k \in Int /\ b - a = m * k + (rb - ra)
  <2> DEFINE p == a \div m
             q == b \div m
  <2>1. p \in Int /\ q \in Int /\ ra \in Int /\ rb \in Int /\ m \in Int
    BY <1>1, <1>2
  <2> HIDE DEF p, q, ra, rb
  <2>2. a = m * p + ra /\ b = m * q + rb
    BY <1>2 DEF p, q
  <2>3. b - a = m * (q - p) + (rb - ra)
    BY <2>1, <2>2, DistanceInMultiples
  <2> QED BY <2>1, <2>3 DEF p, q
<1> HIDE DEF k, ra, rb
<1>4. /\ u \in -HalfRange .. HalfRange
      /\ \E e \in {-1, 0, 1} : u = (rb - ra) - m * e
  <2>1. CASE rb - ra > HalfRange
    <3>1. u = (rb - ra) - m * 1
      BY <1>1, <1>2, <2>1 DEF UnwrapAbsSendTime, m
    <3> QED BY <1>1, <1>2, <2>1, <3>1
  <2>2. CASE rb - ra < -HalfRange
    <3>1. u = (rb - ra) - m * (-1)
      BY <1>1, <1>2, <2>2 DEF UnwrapAbsSendTime, m
    <3> QED BY <1>1, <1>2, <2>2, <3>1
  <2>3. CASE -HalfRange <= rb - ra /\ rb - ra <= HalfRange
    <3>1. u = (rb - ra) - m * 0
      BY <1>1, <1>2, <2>3 DEF UnwrapAbsSendTime, m
    <3> QED BY <1>1, <1>2, <2>3, <3>1
  <2> QED BY <1>1, <1>2, <2>1, <2>2, <2>3
<1> HIDE DEF u
<1>5. PICK e \in {-1, 0, 1} : u = (rb - ra) - m * e
  BY <1>4
<1>6. (b - a) - u = m * (k + e)
  <2>1. m * (k + e) = m * k + m * e /\ m * k \in Int /\ m * e \in Int
    BY <1>1, <1>3, <1>5
  <2> QED BY <1>2, <1>3, <1>5, <2>1
<1>7. k + e \in Int
  BY <1>3, <1>5
<1>8. ((b - a) - u) % m = 0
  BY <1>1, <1>6, <1>7, MultipleHasNoRemainder
<1> QED BY <1>4, <1>8 DEF Nearest, u, m, ra, rb

(* Hence it gives the difference of the counters themselves when that is   *)
(* less than half the range, in either direction.                          *)
THEOREM UnwrapExact ==
  ASSUME NEW a \in Int, NEW b \in Int, -HalfRange < b - a, b - a < HalfRange
  PROVE  UnwrapAbsSendTime(a % AbsSendTimeMax, b % AbsSendTimeMax) = b - a
<1>1. b - a \in Int
  OBVIOUS
<1> QED BY <1>1, UnwrapNearest, NearestIsExact

-----------------------------------------------------------------------------
GroupType == [firstArrive : Int, lastArrive : Int, lastSend : Int]

IInv ==
  /\ ia \in [current : GroupType, previous : GroupType]
  /\ arrival \in Int
  /\ GroupsSeparated

LEMMA NewCalculatorSeparated ==
  /\ NewCalculator \in [current : GroupType, previous : GroupType]
  /\ NewCalculator.previous = NoGroup
BY DEF NewCalculator, NoGroup, GroupType

(* A group is closed only by a packet that is late enough. *)
LEMMA IInvStep == IInv /\ [Next]_vars => IInv'
<1> SUFFICES ASSUME IInv, [Next]_vars PROVE IInv'
  OBVIOUS
<1>1. ASSUME NEW gap \in ArrivalGaps, NEW sendGap \in SendGaps, AddPacket(gap, sendGap)
      PROVE  IInv'
  <2> DEFINE send == sent' % AbsSendTimeMax
  <2>1. arrival' \in Int /\ sent' \in Int /\ BurstThreshold \in Nat
    BY <1>1, ConfigAssumption DEF AddPacket
  <2>2. send \in Int
    BY <2>1, HalfRangeIsHalf
  <2>3. ia' = Added(ia, arrival', send)
    BY <1>1 DEF AddPacket
  <2>4. ia \in [current : GroupType, previous : GroupType] /\ GroupsSeparated
    BY DEF IInv
  <2> HIDE DEF send
  <2>5. CASE BelongsToBurst(ia, arrival')
    <3>1. ia' = [ia EXCEPT !.current = Joined(@, arrival', send)]
      BY <2>3, <2>5 DEF Added
    <3>2. Joined(ia.current, arrival', send) \in GroupType
          /\ Joined(ia.current, arrival', send).firstArrive = ia.current.firstArrive
      BY <2>1, <2>2, <2>4 DEF Joined, GroupType
    <3>3. /\ ia' \in [current : GroupType, previous : GroupType]
          /\ ia'.previous = ia.previous
          /\ ia'.current.firstArrive = ia.current.firstArrive
      BY <2>4, <3>1, <3>2
    <3> QED BY <2>1, <2>4, <3>3 DEF IInv, GroupsSeparated
  <2>6. CASE ~BelongsToBurst(ia, arrival')
    <3>1. ia' = [current |-> GroupOf(arrival', send), previous |-> ia.current]
      BY <2>3, <2>6 DEF Added
    <3>2. ia' \in [current : GroupType, previous : GroupType]
          /\ ia'.current.firstArrive = arrival' /\ ia'.previous = ia.current
      BY <2>1, <2>2, <2>4, <3>1 DEF GroupOf, GroupType
    <3>3. ia.current.lastArrive \in Int
      BY <2>4 DEF GroupType
    <3>4. ia.current # NoGroup => arrival' - ia.current.lastArrive > BurstThreshold
      BY <2>1, <2>6, <3>3 DEF BelongsToBurst
    <3> QED BY <2>1, <3>2, <3>4 DEF IInv, GroupsSeparated
  <2> QED BY <2>5, <2>6
<1>2. CASE Reset
  BY <1>2, NewCalculatorSeparated DEF Reset, IInv, GroupsSeparated
<1>3. CASE UNCHANGED vars
  BY <1>3 DEF vars, IInv, GroupsSeparated
<1> QED BY <1>1, <1>2, <1>3 DEF Next

LEMMA IInvInit == Init => IInv
BY NewCalculatorSeparated DEF Init, IInv, GroupsSeparated

(* Hence two groups never touch. *)
THEOREM GroupsNeverTouch == Spec => []GroupsSeparated
<1>1. IInv => GroupsSeparated
  BY DEF IInv
<1> QED BY <1>1, IInvInit, IInvStep, PTL DEF Spec

-----------------------------------------------------------------------------
(* The conversion to ticks is less than a tick off. *)
LEMMA ToTicksError ==
  ASSUME NEW u \in Int
  PROVE  /\ ToTicks(u) \in Int
         /\ -UnitDen < ToTicks(u) * UnitDen - u * UnitNum
         /\ ToTicks(u) * UnitDen - u * UnitNum < UnitDen
<1>1. UnitNum \in Nat \ {0} /\ UnitDen \in Nat \ {0}
  BY ConfigAssumption
<1>2. ASSUME NEW x \in Int
      PROVE  x \div UnitDen \in Int /\ x - UnitDen < (x \div UnitDen) * UnitDen
             /\ (x \div UnitDen) * UnitDen <= x
  <2>1. /\ x % UnitDen \in 0 .. UnitDen - 1 /\ x \div UnitDen \in Int
        /\ x = UnitDen * (x \div UnitDen) + (x % UnitDen)
    BY <1>1, DivisionFacts
  <2>2. UnitDen * (x \div UnitDen) = (x \div UnitDen) * UnitDen
        /\ UnitDen * (x \div UnitDen) \in Int
    BY <1>1, <2>1
  <2> QED BY <1>1, <2>1, <2>2
<1>3. u * UnitNum \in Int /\ (-u) * UnitNum \in Int /\ (-u) * UnitNum = -(u * UnitNum)
  BY <1>1
<1>4. CASE u >= 0
  <2>1. ToTicks(u) = (u * UnitNum) \div UnitDen
    BY <1>4 DEF ToTicks
  <2>2. ToTicks(u) \in Int /\ u * UnitNum - UnitDen < ToTicks(u) * UnitDen
        /\ ToTicks(u) * UnitDen <= u * UnitNum
    BY <1>2, <1>3, <2>1
  <2>3. ToTicks(u) * UnitDen \in Int
    BY <1>1, <2>2
  <2> QED BY <1>1, <1>3, <2>2, <2>3
<1>5. CASE ~(u >= 0)
  <2> DEFINE q == ((-u) * UnitNum) \div UnitDen
  <2>1. ToTicks(u) = -q
    BY <1>5 DEF ToTicks
  <2>2. q \in Int /\ (-u) * UnitNum - UnitDen < q * UnitDen /\ q * UnitDen <= (-u) * UnitNum
    BY <1>2, <1>3
  <2> HIDE DEF q
  <2>3. (-q) * UnitDen = -(q * UnitDen) /\ q * UnitDen \in Int
    BY <1>1, <2>2
  <2> QED BY <1>1, <1>3, <2>1, <2>2, <2>3
<1> QED BY <1>4, <1>5

(* The current group ends with the last packet, whose counter it keeps.    *)
DInv ==
  /\ IInv
  /\ sent \in Int
  /\ ia.current # NoGroup => ia.current.lastSend = sent % AbsSendTimeMax
  /\ DelayExact

(* A packet that opens a group after another one is measured within a tick *)
(* of the change in one-way delay that their counters show.                *)
LEMMA MeasuredWithinTick ==
  ASSUME DInv, NEW gap \in ArrivalGaps, NEW sendGap \in SendGaps,
         AddPacket(gap, sendGap), measured'.hasResult
  PROVE  DelayExact'
<1> DEFINE m == AbsSendTimeMax
           delta == UnwrapAbsSendTime(sent % m, sent' % m)
           receive == arrival' - ia.current.lastArrive
<1>1. arrival' \in Int /\ sent' \in Int /\ sent \in Int
      /\ ia \in [current : GroupType, previous : GroupType]
  BY ConfigAssumption DEF AddPacket, DInv, IInv
<1>2. measured' = Result(ia, ia', arrival') /\ ia' = Added(ia, arrival', sent' % m)
  BY DEF AddPacket
<1>3. ~BelongsToBurst(ia, arrival') /\ ia'.previous # NoGroup
      /\ measured'.delayVariation = ComputeDelayVariation(ia')
  BY <1>2 DEF Result, NoResult
<1>4. ia' = [current |-> GroupOf(arrival', sent' % m), previous |-> ia.current]
  BY <1>2, <1>3 DEF Added
<1>5. /\ ia'.current.firstArrive = arrival' /\ ia'.current.lastArrive = arrival'
      /\ ia'.current.lastSend = sent' % m
      /\ ia'.previous.lastArrive = ia.current.lastArrive
      /\ ia'.previous.lastSend = sent % m
  BY <1>3, <1>4 DEF GroupOf, DInv
<1>6. truth' = [previousLast |-> sent, currentFirst |-> sent']
  BY <1>3 DEF AddPacket
<1>7. receive \in Int
  BY <1>1 DEF GroupType
<1>8. delta \in Nearest(sent' - sent)
  BY <1>1, UnwrapNearest
<1>9. delta \in Int
  BY <1>8, HalfRangeIsHalf DEF Nearest
<1>10. measured'.delayVariation = receive - ToTicks(delta)
  BY <1>3, <1>5 DEF ComputeDelayVariation
<1> HIDE DEF delta, receive
<1>11. receive - measured'.delayVariation = ToTicks(delta)
  <2>1. ToTicks(delta) \in Int
    BY <1>9, ToTicksError
  <2> QED BY <1>7, <1>10, <2>1
<1>12. /\ -UnitDen < (receive - measured'.delayVariation) * UnitDen - delta * UnitNum
       /\ (receive - measured'.delayVariation) * UnitDen - delta * UnitNum < UnitDen
  BY <1>9, <1>11, ToTicksError
<1> QED BY <1>5, <1>6, <1>8, <1>12 DEF DelayExact, receive

LEMMA DInvInit == Init => DInv
BY IInvInit DEF Init, DInv, NewCalculator, DelayExact, NoResult

LEMMA DInvStep == DInv /\ [Next]_vars => DInv'
<1> SUFFICES ASSUME DInv, [Next]_vars PROVE DInv'
  OBVIOUS
<1>1. IInv'
  BY IInvStep DEF DInv
<1>2. ASSUME NEW gap \in ArrivalGaps, NEW sendGap \in SendGaps, AddPacket(gap, sendGap)
      PROVE  DInv'
  <2> DEFINE send == sent' % AbsSendTimeMax
  <2>1. sent' \in Int /\ ia' = Added(ia, arrival', send)
    BY <1>2, ConfigAssumption DEF AddPacket
  <2>2. ia \in [current : GroupType, previous : GroupType]
    BY DEF DInv, IInv
  <2> HIDE DEF send
  <2>3. ia'.current.lastSend = send
    BY <2>1, <2>2 DEF Added, Joined, GroupOf, GroupType
  <2>4. CASE measured'.hasResult
    <3>1. DelayExact'
      BY <1>2, <2>4, MeasuredWithinTick
    <3> QED BY <1>1, <2>1, <2>3, <3>1 DEF DInv, send
  <2>5. CASE ~measured'.hasResult
    BY <1>1, <2>1, <2>3, <2>5 DEF DInv, send, DelayExact
  <2> QED BY <2>4, <2>5
<1>3. CASE Reset
  <2>1. sent' = sent /\ ia' = NewCalculator /\ ~measured'.hasResult
    BY <1>3 DEF Reset, NoResult
  <2>2. ia'.current = NoGroup
    BY <2>1 DEF NewCalculator
  <2> QED BY <1>1, <2>1, <2>2 DEF DInv, DelayExact
<1>4. CASE UNCHANGED vars
  BY <1>1, <1>4 DEF vars, DInv, DelayExact
<1> QED BY <1>2, <1>3, <1>4 DEF Next

(* Every measurement is exact to the tick for every modulus, unit and      *)
(* order of packets, and for neighbours half the range apart or more it is *)
(* that of the nearest send times with their counters.                     *)
THEOREM MeasurementExact == Spec => []DelayExact
<1>1. DInv => DelayExact
  BY DEF DInv
<1> QED BY <1>1, DInvInit, DInvStep, PTL DEF Spec

-----------------------------------------------------------------------------
(* The calculator inside the pipeline, and the Kalman filter.              *)

LEMMA FilterConstants ==
  /\ {TicksPerUs, UnitsPerUs, UnitsPerUs * UsPerMs} \subseteq Nat \ {0}
  /\ {ProcessNoise, InitialError, ChiNum} \subseteq Nat
  /\ {ChiDen, One} \subseteq Nat \ {0}
  /\ ChiNum <= ChiDen
BY PipelineAssumption DEF K!FilterAssumption

(* Every step of the pipeline is a step of the calculator.                 *)
LEMMA PipelineStep == [DelayNext]_delayVars => [Next]_vars
<1> SUFFICES ASSUME [DelayNext]_delayVars PROVE [Next]_vars
  OBVIOUS
<1>1. ASSUME NEW p \in Packets, OnPacket(p[1], p[2])
      PROVE  Next
  <2>1. p[1] \in ArrivalGaps /\ p[2] \in SendGaps
    BY PipelineAssumption
  <2>2. AddPacket(p[1], p[2])
    BY <1>1 DEF OnPacket
  <2> QED BY <2>1, <2>2 DEF Next
<1>2. CASE ResetAll
  BY <1>2 DEF ResetAll, Next
<1>3. CASE UNCHANGED delayVars
  BY <1>3 DEF delayVars, vars
<1> QED BY <1>1, <1>2, <1>3 DEF DelayNext

(* The pipeline implements the calculator on its own.                      *)
THEOREM PipelineRefinesCalculator == DelaySpec => Spec
<1>1. DelayInit => Init
  BY DEF DelayInit
<1> QED BY <1>1, PipelineStep, PTL DEF DelaySpec, Spec

(* Two groups never touch inside the pipeline either.                      *)
THEOREM PipelineGroupsNeverTouch == DelaySpec => []GroupsSeparated
BY PipelineRefinesCalculator, GroupsNeverTouch

(* Nor does a measurement lose its exactness there.                        *)
THEOREM PipelineMeasurementExact == DelaySpec => []DelayExact
BY PipelineRefinesCalculator, MeasurementExact

-----------------------------------------------------------------------------
(* A fraction p / d of a whole number, rounded down, is between it and 0.  *)
LEMMA PartOfInteger ==
  ASSUME NEW a \in Int, NEW p \in Nat, NEW d \in Nat \ {0}, p <= d
  PROVE  /\ (a * p) \div d \in Int
         /\ a >= 0 => 0 <= (a * p) \div d /\ (a * p) \div d <= a
         /\ a <= 0 => a <= (a * p) \div d /\ (a * p) \div d <= 0
<1> DEFINE x == a * p
           q == x \div d
           r == x % d
<1>1. x \in Int
  OBVIOUS
<1>2. q \in Int /\ r \in 0 .. d - 1 /\ x = d * q + r
  <2> HIDE DEF x
  <2> QED BY <1>1, DivisionFacts
<1> HIDE DEF q, r
<1>3. d - p \in Nat
  OBVIOUS
<1>4. ASSUME a >= 0 PROVE 0 <= q /\ q <= a
  <2>1. a \in Nat /\ x \in Nat /\ a * (d - p) \in Nat
    BY <1>3, <1>4, NatProduct
  <2>2. x <= a * d
    <3>1. a * (d - p) = a * d - x
      OBVIOUS
    <3> QED BY <1>1, <2>1, <3>1
  <2>3. ~(q < 0)
    <3> SUFFICES ASSUME q < 0 PROVE FALSE
      OBVIOUS
    <3>1. (-1) - q \in Nat
      BY <1>2
    <3>2. d * ((-1) - q) \in Nat
      BY <3>1, NatProduct
    <3>3. d * ((-1) - q) = -d - d * q
      BY <1>2
    <3>4. d * q \in Int
      BY <1>2
    <3> QED BY <1>2, <2>1, <3>2, <3>3, <3>4
  <2>4. ~(q > a)
    <3> SUFFICES ASSUME q > a PROVE FALSE
      OBVIOUS
    <3>1. q - a - 1 \in Nat
      BY <1>2, <2>1
    <3>2. d * (q - a - 1) \in Nat
      BY <3>1, NatProduct
    <3>3. d * (q - a - 1) = d * q - a * d - d
      BY <1>2, <2>1
    <3>4. d * q \in Int /\ a * d \in Int
      BY <1>2
    <3> QED BY <1>1, <1>2, <2>2, <3>2, <3>3, <3>4
  <2> QED BY <1>2, <2>3, <2>4
<1>5. ASSUME a <= 0 PROVE a <= q /\ q <= 0
  <2>1. -a \in Nat /\ (-a) * p \in Nat /\ (-a) * (d - p) \in Nat
    BY <1>3, <1>5, NatProduct
  <2>2. x <= 0 /\ a * d <= x
    <3>1. (-a) * p = -x /\ (-a) * (d - p) = x - a * d /\ a * d \in Int
      OBVIOUS
    <3> QED BY <1>1, <2>1, <3>1
  <2>3. ~(q > 0)
    <3> SUFFICES ASSUME q > 0 PROVE FALSE
      OBVIOUS
    <3>1. d * (q - 1) \in Nat
      BY <1>2, NatProduct
    <3>2. d * (q - 1) = d * q - d /\ d * q \in Int
      BY <1>2
    <3> QED BY <1>1, <1>2, <2>2, <3>1, <3>2
  <2>4. ~(q < a)
    <3> SUFFICES ASSUME q < a PROVE FALSE
      OBVIOUS
    <3>1. a - 1 - q \in Nat
      BY <1>2
    <3>2. d * (a - 1 - q) \in Nat
      BY <3>1, NatProduct
    <3>3. d * (a - 1 - q) = a * d - d - d * q
      BY <1>2
    <3>4. d * q \in Int /\ a * d \in Int
      BY <1>2
    <3> QED BY <1>1, <1>2, <2>2, <3>2, <3>3, <3>4
  <2> QED BY <1>2, <2>3, <2>4
<1> QED BY <1>2, <1>4, <1>5 DEF q

-----------------------------------------------------------------------------
(* The calculator's and the filter's numbers are integers.                 *)
CallType == [at : Int, variation : Int, sendDelta : Int]
KInv ==
  /\ ia \in [current : GroupType, previous : GroupType]
  /\ truth \in [previousLast : Int, currentFirst : Int]
  /\ arrival \in Int /\ sent \in Int
  /\ kf \in [estimate : Int, errorCov : Nat, measureNoise : Nat]
  /\ kf.measureNoise >= One
  /\ inputs \in Seq(CallType)
  /\ KalmanWithinMeasurements

LEMMA MeasuredIsInt ==
  ASSUME NEW c, NEW n \in [current : GroupType, previous : GroupType], NEW arrive,
         Result(c, n, arrive).hasResult
  PROVE  DelayMs(Result(c, n, arrive).delayVariation) \in Int
<1> DEFINE units == UnwrapAbsSendTime(n.previous.lastSend, n.current.lastSend)
<1>1. Result(c, n, arrive).delayVariation = ComputeDelayVariation(n)
  BY DEF Result, NoResult
<1>2. units \in Int
  BY HalfRangeIsHalf DEF GroupType, UnwrapAbsSendTime
<1>3. ToTicks(units) \in Int
  <2> HIDE DEF units
  <2>1. units * UnitNum \in Int /\ (-units) * UnitNum \in Int /\ UnitDen \in Nat \ {0}
    BY <1>2, ConfigAssumption
  <2>2. (units * UnitNum) \div UnitDen \in Int /\ ((-units) * UnitNum) \div UnitDen \in Int
    BY <2>1, DivisionFacts
  <2> QED BY <2>2 DEF ToTicks
<1>4. ComputeDelayVariation(n) \in Int
  BY <1>3 DEF ComputeDelayVariation, GroupType
<1>5. ASSUME NEW ticks \in Int PROVE DelayMs(ticks) \in Int
  <2>1. -ticks \in Int /\ TicksPerUs \in Nat \ {0}
    BY FilterConstants
  <2>2. ticks \div TicksPerUs \in Int /\ (-ticks) \div TicksPerUs \in Int
    BY <2>1, DivisionFacts
  <2> QED BY <2>2, FilterConstants DEF DelayMs
<1> QED BY <1>1, <1>4, <1>5

(* One step of the filter: its types, and the estimate between the old one *)
(* and the measurement.                                                    *)
LEMMA KalmanStep ==
  ASSUME NEW k \in [estimate : Int, errorCov : Nat, measureNoise : Nat],
         k.measureNoise >= One, NEW v \in Int
  PROVE  LET n == K!KalmanUpdated(k, v)
         IN  /\ n \in [estimate : Int, errorCov : Nat, measureNoise : Nat]
             /\ n.measureNoise >= One
             /\ v >= k.estimate => k.estimate <= n.estimate /\ n.estimate <= v
             /\ v <= k.estimate => v <= n.estimate /\ n.estimate <= k.estimate
             /\ \/ n.measureNoise = One
                \/ ChiDen * n.measureNoise <= (ChiDen + 8 * ChiNum) * k.measureNoise
<1> DEFINE z == v - k.estimate
           noise == K!MeasureNoise(k.measureNoise, z)
           prior == k.errorCov + ProcessNoise
           units == UnitsPerUs * UsPerMs
           square == K!CappedSquare(z, k.measureNoise)
           mix == (ChiDen - ChiNum) * k.measureNoise + ChiNum * square
<1>1. z \in Int /\ prior \in Nat /\ One \in Nat \ {0} /\ k.measureNoise \in Nat
  BY FilterConstants
<1>2. square \in Int /\ square <= 9 * k.measureNoise
  <2>1. units * units \in Nat \ {0}
    BY FilterConstants
  <2>2. z * z * One \in Int
    BY <1>1
  <2>3. (z * z * One) \div (units * units) \in Int
    BY <2>1, <2>2, DivisionFacts
  <2>4. 9 * k.measureNoise \in Int
    BY <1>1
  <2> QED BY <2>3, <2>4 DEF K!CappedSquare, K!SmallerOf
<1>3. /\ mix \in Int
      /\ mix <= (ChiDen + 8 * ChiNum) * k.measureNoise
  <2> HIDE DEF square
  <2>1. 9 * k.measureNoise - square \in Nat
    BY <1>1, <1>2
  <2>2. ChiNum * (9 * k.measureNoise - square) \in Nat
    BY <2>1, FilterConstants, NatProduct
  <2>3. ChiNum * (9 * k.measureNoise - square) = (ChiDen + 8 * ChiNum) * k.measureNoise - mix
    BY <1>1, <1>2, FilterConstants
  <2>4. mix \in Int /\ (ChiDen + 8 * ChiNum) * k.measureNoise \in Int
    BY <1>1, <1>2, FilterConstants
  <2> QED BY <2>2, <2>3, <2>4
<1>4. /\ mix \div ChiDen \in Int
      /\ ChiDen * (mix \div ChiDen) <= mix
  <2> HIDE DEF mix
  <2>1. /\ mix \div ChiDen \in Int /\ mix % ChiDen \in 0 .. ChiDen - 1
        /\ mix = ChiDen * (mix \div ChiDen) + (mix % ChiDen)
    BY <1>3, FilterConstants, DivisionFacts
  <2>2. ChiDen * (mix \div ChiDen) \in Int
    BY <2>1, FilterConstants
  <2> QED BY <1>3, <2>1, <2>2, FilterConstants
<1>5. noise = IF One < mix \div ChiDen THEN mix \div ChiDen ELSE One
  BY DEF K!MeasureNoise, K!LargerOf
<1>6. /\ noise \in Nat /\ noise >= One
      /\ noise = One \/ ChiDen * noise <= (ChiDen + 8 * ChiNum) * k.measureNoise
  <2>1. (ChiDen + 8 * ChiNum) * k.measureNoise \in Int /\ ChiDen * (mix \div ChiDen) \in Int
    BY <1>1, <1>4, FilterConstants
  <2> HIDE DEF noise, mix
  <2> QED BY <1>1, <1>3, <1>4, <1>5, <2>1
<1>7. K!KalmanUpdated(k, v) = K!Corrected(k, noise, prior, z)
  BY DEF K!KalmanUpdated
<1> HIDE DEF z, noise, prior
<1>8. noise + prior \in Nat \ {0} /\ prior <= noise + prior
  BY <1>1, <1>6
<1>9. /\ (z * prior) \div (noise + prior) \in Int
      /\ z >= 0 => 0 <= (z * prior) \div (noise + prior) /\ (z * prior) \div (noise + prior) <= z
      /\ z <= 0 => z <= (z * prior) \div (noise + prior) /\ (z * prior) \div (noise + prior) <= 0
  BY <1>1, <1>8, PartOfInteger
<1>10. (noise * prior) \div (noise + prior) \in Nat
  BY <1>1, <1>6, <1>8, PartOfInteger
<1>11. /\ K!Corrected(k, noise, prior, z).estimate = k.estimate + (z * prior) \div (noise + prior)
       /\ K!Corrected(k, noise, prior, z).measureNoise = noise
       /\ K!Corrected(k, noise, prior, z) \in [estimate : Int, errorCov : Nat, measureNoise : Nat]
  BY <1>6, <1>9, <1>10 DEF K!Corrected
<1>12. z = v - k.estimate
  BY DEF z
<1> QED BY <1>6, <1>7, <1>9, <1>11, <1>12

-----------------------------------------------------------------------------
LEMMA CalculatorTypes ==
  ASSUME KInv, NEW gap \in ArrivalGaps, NEW sendGap \in SendGaps, AddPacket(gap, sendGap)
  PROVE  /\ ia' \in [current : GroupType, previous : GroupType]
         /\ truth' \in [previousLast : Int, currentFirst : Int]
         /\ arrival' \in Int /\ sent' \in Int
         /\ measured'.hasResult => DelayMs(measured'.delayVariation) \in Int
<1> DEFINE send == sent' % AbsSendTimeMax
<1>1. arrival' \in Int /\ sent' \in Int
  BY ConfigAssumption DEF AddPacket
<1>2. send \in Int
  BY <1>1, HalfRangeIsHalf
<1>3. ia' = Added(ia, arrival', send) /\ measured' = Result(ia, ia', arrival')
  BY DEF AddPacket
<1> HIDE DEF send
<1>4. ia' \in [current : GroupType, previous : GroupType]
  BY <1>1, <1>2, <1>3 DEF KInv, Added, Joined, GroupOf, GroupType
<1>5. truth' \in [previousLast : Int, currentFirst : Int]
  BY <1>1 DEF AddPacket, KInv
<1> QED BY <1>1, <1>3, <1>4, <1>5, MeasuredIsInt

(* A call of the Kalman filter keeps the estimate between the measurements. *)
LEMMA KalmanCallKeepsHull ==
  ASSUME KInv, NEW call \in CallType,
         kf' = K!KalmanUpdated(kf, call.variation), inputs' = Append(inputs, call),
         UNCHANGED filterType
  PROVE  /\ kf' \in [estimate : Int, errorCov : Nat, measureNoise : Nat]
         /\ kf'.measureNoise >= One
         /\ inputs' \in Seq(CallType)
         /\ KalmanWithinMeasurements'
<1> DEFINE v == call.variation
<1>1. v \in Int
  BY DEF CallType
<1>2. /\ kf' \in [estimate : Int, errorCov : Nat, measureNoise : Nat]
      /\ kf'.measureNoise >= One
      /\ v >= kf.estimate => kf.estimate <= kf'.estimate /\ kf'.estimate <= v
      /\ v <= kf.estimate => v <= kf'.estimate /\ kf'.estimate <= kf.estimate
  BY <1>1, KalmanStep DEF KInv
<1>3. inputs \in Seq(CallType) /\ kf.estimate \in Int
  BY DEF KInv
<1>4. /\ inputs' \in Seq(CallType)
      /\ Len(inputs) + 1 \in DOMAIN inputs' /\ inputs'[Len(inputs) + 1].variation = v
      /\ \A i \in DOMAIN inputs : i \in DOMAIN inputs' /\ inputs'[i] = inputs[i]
  BY <1>3
<1>5. \A i \in DOMAIN inputs : inputs[i].variation \in Int
  <2>1. \A i \in DOMAIN inputs : inputs[i] \in CallType
    BY <1>3
  <2> QED BY <2>1 DEF CallType
<1> HIDE DEF v
<1>6. ASSUME filterType = "Kalman", kf'.estimate > 0
      PROVE  \E i \in DOMAIN inputs' : inputs'[i].variation >= kf'.estimate
  <2>1. CASE v >= kf.estimate
    BY <1>1, <1>2, <1>3, <1>4, <2>1
  <2>2. CASE v <= kf.estimate
    <3>1. kf.estimate > 0 /\ kf'.estimate <= kf.estimate
      BY <1>2, <1>3, <1>6, <2>2
    <3>2. PICK i \in DOMAIN inputs : inputs[i].variation >= kf.estimate
      BY <1>6, <3>1 DEF KInv, KalmanWithinMeasurements
    <3> QED BY <1>2, <1>3, <1>4, <1>5, <3>1, <3>2
  <2> QED BY <1>1, <1>3, <2>1, <2>2
<1>7. ASSUME filterType = "Kalman", kf'.estimate < 0
      PROVE  \E i \in DOMAIN inputs' : inputs'[i].variation <= kf'.estimate
  <2>1. CASE v <= kf.estimate
    BY <1>1, <1>2, <1>3, <1>4, <2>1
  <2>2. CASE v >= kf.estimate
    <3>1. kf.estimate < 0 /\ kf'.estimate >= kf.estimate
      BY <1>2, <1>3, <1>7, <2>2
    <3>2. PICK i \in DOMAIN inputs : inputs[i].variation <= kf.estimate
      BY <1>7, <3>1 DEF KInv, KalmanWithinMeasurements
    <3> QED BY <1>2, <1>3, <1>4, <1>5, <3>1, <3>2
  <2> QED BY <1>1, <1>3, <2>1, <2>2
<1> QED BY <1>2, <1>4, <1>6, <1>7 DEF KalmanWithinMeasurements

LEMMA KInvInit == DelayInit => KInv
BY NewCalculatorSeparated, FilterConstants
DEF DelayInit, Init, KInv, K!NewKalmanFilter, NoTruth, KalmanWithinMeasurements

LEMMA KInvStep == KInv /\ [DelayNext]_delayVars => KInv'
<1> SUFFICES ASSUME KInv, [DelayNext]_delayVars PROVE KInv'
  OBVIOUS
<1>1. ASSUME NEW p \in Packets, OnPacket(p[1], p[2])
      PROVE  KInv'
  <2>1. p[1] \in ArrivalGaps /\ p[2] \in SendGaps /\ AddPacket(p[1], p[2])
    BY <1>1, PipelineAssumption DEF OnPacket
  <2>2. /\ ia' \in [current : GroupType, previous : GroupType]
        /\ truth' \in [previousLast : Int, currentFirst : Int]
        /\ arrival' \in Int /\ sent' \in Int
        /\ measured'.hasResult => DelayMs(measured'.delayVariation) \in Int
    BY <2>1, CalculatorTypes
  <2>3. CASE measured'.hasResult
    <3> DEFINE variation == DelayMs(measured'.delayVariation)
               call == [at |-> arrival', variation |-> variation,
                        sendDelta |-> truth'.currentFirst - truth'.previousLast]
    <3>1. call \in CallType /\ call.variation = variation
      BY <2>2, <2>3 DEF CallType
    <3>2. /\ Filter(arrival', variation)
          /\ inputs' = Append(inputs, call)
          /\ UNCHANGED filterType
      BY <1>1, <2>3 DEF OnPacket
    <3> HIDE DEF call, variation
    <3>3. CASE filterType = "Kalman"
      <4>1. kf' = K!KalmanUpdated(kf, call.variation)
        BY <3>1, <3>2, <3>3 DEF Filter
      <4> QED BY <2>2, <3>1, <3>2, <4>1, KalmanCallKeepsHull DEF KInv
    <3>4. CASE filterType # "Kalman"
      <4>1. UNCHANGED kf
        BY <3>2, <3>4 DEF Filter
      <4>2. inputs' \in Seq(CallType)
        BY <3>1, <3>2 DEF KInv
      <4> QED BY <2>2, <3>2, <3>4, <4>1, <4>2 DEF KInv, KalmanWithinMeasurements
    <3> QED BY <3>3, <3>4
  <2>4. CASE ~measured'.hasResult
    <3>1. UNCHANGED <<kf, inputs, filterType>>
      BY <1>1, <2>4 DEF OnPacket, pipeline
    <3> QED BY <2>2, <3>1 DEF KInv, KalmanWithinMeasurements
  <2> QED BY <2>3, <2>4
<1>2. CASE ResetAll
  BY <1>2, NewCalculatorSeparated, FilterConstants
  DEF ResetAll, Reset, KInv, K!NewKalmanFilter, NoTruth, KalmanWithinMeasurements
<1>3. CASE UNCHANGED delayVars
  BY <1>3 DEF delayVars, vars, pipeline, KInv, KalmanWithinMeasurements
<1> QED BY <1>1, <1>2, <1>3 DEF DelayNext

(* The Kalman estimate is always between the measurements since Reset.     *)
THEOREM KalmanNeverOvershoots == DelaySpec => []KalmanWithinMeasurements
<1>1. KInv => KalmanWithinMeasurements
  BY DEF KInv
<1> QED BY <1>1, KInvInit, KInvStep, PTL DEF DelaySpec

(* No step raises the noise variance by more than 1 + 8 * Chi.             *)
LEMMA NoiseStep ==
  KInv /\ [DelayNext]_delayVars =>
    [kf'.measureNoise = One
       \/ ChiDen * kf'.measureNoise <= (ChiDen + 8 * ChiNum) * kf.measureNoise]_kf
<1> SUFFICES ASSUME KInv, [DelayNext]_delayVars, kf' # kf
             PROVE  kf'.measureNoise = One
                    \/ ChiDen * kf'.measureNoise <= (ChiDen + 8 * ChiNum) * kf.measureNoise
  OBVIOUS
<1>1. ASSUME NEW p \in Packets, OnPacket(p[1], p[2])
      PROVE  kf'.measureNoise = One
             \/ ChiDen * kf'.measureNoise <= (ChiDen + 8 * ChiNum) * kf.measureNoise
  <2>1. p[1] \in ArrivalGaps /\ p[2] \in SendGaps /\ AddPacket(p[1], p[2])
    BY <1>1, PipelineAssumption DEF OnPacket
  <2>2. measured'.hasResult /\ kf' = K!KalmanUpdated(kf, DelayMs(measured'.delayVariation))
    BY <1>1 DEF OnPacket, Filter, pipeline
  <2>3. DelayMs(measured'.delayVariation) \in Int
    BY <2>1, <2>2, CalculatorTypes
  <2> QED BY <2>2, <2>3, KalmanStep DEF KInv
<1>2. CASE ResetAll
  BY <1>2 DEF ResetAll, K!NewKalmanFilter
<1>3. CASE UNCHANGED delayVars
  BY <1>3 DEF delayVars, pipeline
<1> QED BY <1>1, <1>2, <1>3 DEF DelayNext

(* Hence no outlier raises it further, in any behaviour. *)
THEOREM OutliersBounded == DelaySpec => NoiseGrowthBounded
<1> QED BY KInvInit, KInvStep, NoiseStep, PTL DEF DelaySpec, NoiseGrowthBounded

-----------------------------------------------------------------------------
DetectorType ==
  [threshold : MinThreshold .. MaxThreshold,
   lastUpdateTime : Nat \cup {OD!NoTime}, overuseStart : Nat \cup {OD!NoTime},
   overuseCounter : Nat, inOveruseRegion : BOOLEAN,
   prevEstimate : Int, hypothesis : OD!Usages]

LEMMA ThresholdsAreNat ==
  /\ MinThreshold \in Nat /\ MaxThreshold \in Nat
  /\ InitialThreshold \in MinThreshold .. MaxThreshold
  /\ Ku \in Nat /\ Kd \in Nat /\ KDen \in Nat \ {0}
BY PipelineAssumption

LEMMA ClampedThreshold ==
  ASSUME NEW threshold \in Int, NEW m \in Int, NEW deltaT \in Int
  PROVE  OD!ClampThreshold(OD!Adapted(threshold, m, deltaT)) \in MinThreshold .. MaxThreshold
<1> DEFINE factor == deltaT * OD!Coefficient(m, threshold)
           product == factor * OD!Abs(m - threshold)
<1>1. factor \in Int /\ OD!Abs(m - threshold) \in Int
  BY ThresholdsAreNat DEF OD!Coefficient, OD!Abs
<1>2. product \in Int
  BY <1>1
<1>3. OD!Adapted(threshold, m, deltaT)
        = IF m < threshold THEN threshold - product \div KDen
                           ELSE threshold + product \div KDen
  BY DEF OD!Adapted
<1> HIDE DEF factor, product
<1>4. product \div KDen \in Int
  BY <1>2, ThresholdsAreNat, DivisionFacts
<1>5. OD!Adapted(threshold, m, deltaT) \in Int
  BY <1>3, <1>4
<1> HIDE <1>3
<1> QED BY <1>5, ThresholdsAreNat DEF OD!ClampThreshold

LEMMA AdaptedDetector ==
  ASSUME NEW old \in DetectorType, NEW e \in Int, NEW t \in Nat
  PROVE  OD!UpdateThreshold(old, e, t) \in DetectorType
<1>1. CASE old.lastUpdateTime = OD!NoTime
  BY <1>1 DEF OD!UpdateThreshold, DetectorType
<1>2. CASE old.lastUpdateTime # OD!NoTime
  <2> DEFINE new == OD!ClampThreshold(
                      OD!Adapted(old.threshold, OD!Abs(e), t - old.lastUpdateTime))
  <2>1. old.lastUpdateTime \in Nat /\ old.threshold \in Int
    BY <1>2, ThresholdsAreNat DEF DetectorType
  <2>2. OD!Abs(e) \in Int /\ t - old.lastUpdateTime \in Int
    BY <2>1 DEF OD!Abs
  <2>3. new \in MinThreshold .. MaxThreshold
    BY <2>1, <2>2, ClampedThreshold
  <2>4. OD!UpdateThreshold(old, e, t) = [old EXCEPT !.lastUpdateTime = t, !.threshold = new]
    BY <1>2 DEF OD!UpdateThreshold
  <2> HIDE DEF new
  <2> QED BY <2>3, <2>4 DEF DetectorType
<1> QED BY <1>1, <1>2

LEMMA TrackedDetector ==
  ASSUME NEW old \in DetectorType, NEW t \in Nat
  PROVE  OD!TrackRegion(old, t) \in DetectorType
<1>1. CASE old.inOveruseRegion
  BY <1>1 DEF OD!TrackRegion, DetectorType
<1>2. CASE ~old.inOveruseRegion
  BY <1>2 DEF OD!TrackRegion, DetectorType
<1> QED BY <1>1, <1>2

(* Detect keeps the detector's type, and an estimate that is not positive  *)
(* is never above the threshold.                                           *)
LEMMA DetectorStep ==
  ASSUME NEW old \in DetectorType, NEW e \in Int, NEW t \in Nat
  PROVE  LET n == OD!Detected(old, e, t)
         IN  n \in DetectorType /\ (e <= 0 => n.hypothesis # "Overusing")
<1> DEFINE u == OD!UpdateThreshold(old, e, t)
           r == OD!TrackRegion(u, t)
           c == OD!Classify(u, e, t)
<1>1. u \in DetectorType
  BY AdaptedDetector
<1> HIDE DEF u
<1>2. r \in DetectorType
  BY <1>1, TrackedDetector
<1>3. u.threshold \in Nat
  BY <1>1, ThresholdsAreNat DEF DetectorType
<1>4. c \in DetectorType /\ (e <= 0 => c.hypothesis # "Overusing")
  <2>1. CASE e > u.threshold
    <3>1. PICK h \in OD!Usages : c = [r EXCEPT !.hypothesis = h]
      <4>1. r.hypothesis \in OD!Usages
        BY <1>2 DEF DetectorType
      <4> DEFINE h == IF e < u.prevEstimate THEN "Normal"
                      ELSE IF OD!Sustained(r, t) THEN "Overusing" ELSE r.hypothesis
      <4>2. h \in OD!Usages
        BY <4>1 DEF OD!Usages
      <4>3. c = [r EXCEPT !.hypothesis = h]
        BY <2>1 DEF OD!Classify
      <4> QED BY <4>2, <4>3
    <3>2. e > 0
      BY <1>3, <2>1
    <3>3. c \in DetectorType
      BY <1>2, <3>1 DEF DetectorType
    <3> QED BY <3>2, <3>3
  <2>2. CASE ~(e > u.threshold)
    <3>1. PICK h \in {"Underusing", "Normal"} :
            c = [u EXCEPT !.inOveruseRegion = FALSE, !.hypothesis = h]
      <4> DEFINE h == IF e < -u.threshold THEN "Underusing" ELSE "Normal"
      <4>1. c = [u EXCEPT !.inOveruseRegion = FALSE, !.hypothesis = h]
        BY <2>2 DEF OD!Classify
      <4> QED BY <4>1
    <3>2. c \in DetectorType /\ c.hypothesis = h
      BY <1>1, <3>1 DEF DetectorType, OD!Usages
    <3> QED BY <3>1, <3>2
  <2> QED BY <2>1, <2>2
<1>5. OD!Detected(old, e, t) = [c EXCEPT !.prevEstimate = e]
  BY DEF OD!Detected, u
<1> HIDE DEF c
<1> QED BY <1>4, <1>5 DEF DetectorType

(* Without a rise of the one-way delay no measurement is positive, so the  *)
(* Kalman estimate is not, so the detector finds nothing above a threshold *)
(* that is never negative.                                                 *)
Grew == \E i, j \in DOMAIN oneWay : i < j /\ oneWay[i] < oneWay[j]

DelayInv ==
  /\ DInv
  /\ oneWay \in Seq(Int)
  /\ ia.current # NoGroup =>
       /\ Len(oneWay) > 0 /\ oneWay[Len(oneWay)] = arrival * UnitDen - sent * UnitNum
       /\ ia.current.lastArrive = arrival

QuietInv ==
  /\ now \in Nat
  /\ filterType = "Kalman" => det \in DetectorType
  /\ filterType = "Kalman" /\ Unambiguous /\ ~Grew =>
       /\ \A i \in DOMAIN inputs : inputs[i].variation <= 0
       /\ det.hypothesis # "Overusing"

(* Less than a tick above a change that is not positive is not positive.   *)
LEMMA WithinTickOfFall ==
  ASSUME NEW unit \in Nat \ {0}, NEW fall \in Int, fall <= 0, NEW v \in Int,
         -unit < fall - v * unit
  PROVE  v <= 0
<1> SUFFICES ASSUME v >= 1 PROVE FALSE
  OBVIOUS
<1>1. v - 1 \in Nat
  OBVIOUS
<1>2. unit * (v - 1) \in Nat
  BY <1>1, NatProduct
<1>3. unit * (v - 1) = v * unit - unit /\ v * unit \in Int
  OBVIOUS
<1> QED BY <1>2, <1>3

LEMMA Distribute ==
  ASSUME NEW a \in Int, NEW b \in Int, NEW k \in Int
  PROVE  (b - a) * k = b * k - a * k /\ a * k \in Int /\ b * k \in Int
OBVIOUS

LEMMA TruncatedNotPositive ==
  ASSUME NEW ticks \in Int, ticks <= 0
  PROVE  DelayMs(ticks) \in Int /\ DelayMs(ticks) <= 0
<1>1. TicksPerUs \in Nat \ {0} /\ UnitsPerUs \in Nat \ {0}
  BY FilterConstants
<1> DEFINE back == -ticks
           q == back \div TicksPerUs
           r == back % TicksPerUs
<1>2. q \in Nat
  <2>0. back \in Nat
    OBVIOUS
  <2> HIDE DEF back
  <2>1. q \in Int /\ r \in 0 .. TicksPerUs - 1 /\ back = TicksPerUs * q + r
    BY <1>1, <2>0, DivisionFacts
  <2> HIDE DEF q, r
  <2>2. ~(q < 0)
    <3> SUFFICES ASSUME q < 0 PROVE FALSE
      OBVIOUS
    <3>1. -q - 1 \in Nat
      BY <2>1
    <3>2. TicksPerUs * (-q - 1) \in Nat
      BY <1>1, <3>1, NatProduct
    <3>3. TicksPerUs * (-q - 1) = -(TicksPerUs * q) - TicksPerUs /\ TicksPerUs * q \in Int
      BY <1>1, <2>1
    <3> QED BY <1>1, <2>0, <2>1, <3>2, <3>3
  <2> QED BY <2>1, <2>2
<1>3. CASE ticks = 0
  <2>1. 0 \div TicksPerUs = 0
    BY <1>1
  <2> QED BY <1>1, <1>3, <2>1 DEF DelayMs
<1>4. CASE ticks < 0
  <2>1. DelayMs(ticks) = UnitsPerUs * (-q)
    BY <1>4 DEF DelayMs
  <2> HIDE DEF q
  <2>2. UnitsPerUs * q \in Nat /\ UnitsPerUs * (-q) = -(UnitsPerUs * q)
    BY <1>1, <1>2, NatProduct
  <2> QED BY <2>1, <2>2
<1> QED BY <1>3, <1>4

(* A measurement is less than a tick away from the change in one-way delay *)
(* since the packet before.                                                *)
LEMMA MeasuredNearChange ==
  ASSUME DelayInv, DInv', NEW gap \in ArrivalGaps, NEW sendGap \in SendGaps,
         OnPacket(gap, sendGap), measured'.hasResult,
         -HalfRange < sent' - sent, sent' - sent < HalfRange
  PROVE  LET change == (arrival' * UnitDen - sent' * UnitNum) - oneWay[Len(oneWay)]
             v == measured'.delayVariation
         IN  /\ v \in Int /\ change \in Int /\ oneWay[Len(oneWay)] \in Int
             /\ -UnitDen < change - v * UnitDen /\ change - v * UnitDen < UnitDen
<1> DEFINE send == sent' % AbsSendTimeMax
           v == measured'.delayVariation
<1>1. /\ ia' = Added(ia, arrival', send) /\ measured' = Result(ia, ia', arrival')
      /\ truth' = IF BelongsToBurst(ia, arrival') THEN truth
                  ELSE [previousLast |-> sent, currentFirst |-> sent']
  BY DEF OnPacket, AddPacket
<1>2. ~BelongsToBurst(ia, arrival') /\ ia'.previous # NoGroup
      /\ v = ComputeDelayVariation(ia')
  BY <1>1 DEF Result, NoResult
<1>3. /\ ia' = [current |-> GroupOf(arrival', send), previous |-> ia.current]
      /\ truth' = [previousLast |-> sent, currentFirst |-> sent']
  BY <1>1, <1>2 DEF Added
<1>4. /\ ia'.current.firstArrive = arrival' /\ ia'.previous = ia.current
      /\ ia.current # NoGroup /\ ia.current.lastArrive = arrival
      /\ truth'.currentFirst - truth'.previousLast = sent' - sent
  BY <1>2, <1>3 DEF GroupOf, DelayInv
<1>5. arrival \in Int /\ arrival' \in Int /\ sent \in Int /\ sent' \in Int
      /\ UnitDen \in Nat \ {0} /\ UnitNum \in Nat \ {0}
  BY ConfigAssumption DEF DelayInv, DInv, IInv
<1>6. v \in Int
  <2>1. ia' \in [current : GroupType, previous : GroupType]
    BY DEF DInv, IInv
  <2>2. UnwrapAbsSendTime(ia'.previous.lastSend, ia'.current.lastSend) \in Int
    BY <2>1, HalfRangeIsHalf DEF GroupType, UnwrapAbsSendTime
  <2>3. ToTicks(UnwrapAbsSendTime(ia'.previous.lastSend, ia'.current.lastSend)) \in Int
    BY <2>2, ToTicksError
  <2> QED BY <1>2, <2>1, <2>3 DEF ComputeDelayVariation, GroupType
<1>7. /\ -UnitDen < ((arrival' - arrival) - v) * UnitDen - (sent' - sent) * UnitNum
      /\ ((arrival' - arrival) - v) * UnitDen - (sent' - sent) * UnitNum < UnitDen
  <2> DEFINE error(delta) == ((arrival' - arrival) - v) * UnitDen - delta * UnitNum
  <2>1. PICK delta \in Nearest(sent' - sent) :
               -UnitDen < error(delta) /\ error(delta) < UnitDen
    BY <1>4 DEF DInv, DelayExact
  <2>2. sent' - sent \in Int
    BY <1>5
  <2>3. delta = sent' - sent
    BY <2>2, NearestIsExact
  <2> QED BY <2>1, <2>3
<1> HIDE DEF v
<1> DEFINE rise == (arrival' * UnitDen - sent' * UnitNum) - (arrival * UnitDen - sent * UnitNum)
<1>8. ((arrival' - arrival) - v) * UnitDen - (sent' - sent) * UnitNum = rise - v * UnitDen
  <2>1. /\ arrival \in Int /\ arrival' \in Int /\ sent \in Int /\ sent' \in Int /\ v \in Int
        /\ UnitDen \in Int /\ UnitNum \in Int
    BY <1>5, <1>6
  <2>2. arrival' - arrival \in Int
    BY <2>1
  <2>3. ((arrival' - arrival) - v) * UnitDen = (arrival' - arrival) * UnitDen - v * UnitDen
    BY <2>1, <2>2, Distribute
  <2>4. (arrival' - arrival) * UnitDen = arrival' * UnitDen - arrival * UnitDen
    BY <2>1, Distribute
  <2>5. (sent' - sent) * UnitNum = sent' * UnitNum - sent * UnitNum
    BY <2>1, Distribute
  <2>6. /\ arrival' * UnitDen \in Int /\ arrival * UnitDen \in Int /\ v * UnitDen \in Int
        /\ sent' * UnitNum \in Int /\ sent * UnitNum \in Int
    BY <2>1, Distribute
  <2> QED BY <2>3, <2>4, <2>5, <2>6
<1>9. /\ oneWay[Len(oneWay)] = arrival * UnitDen - sent * UnitNum
      /\ rise \in Int /\ oneWay[Len(oneWay)] \in Int
  <2>1. oneWay[Len(oneWay)] = arrival * UnitDen - sent * UnitNum
    BY <1>4 DEF DelayInv
  <2>2. arrival' * UnitDen - sent' * UnitNum \in Int /\ arrival * UnitDen - sent * UnitNum \in Int
    BY <1>5
  <2> QED BY <2>1, <2>2
<1>10. (arrival' * UnitDen - sent' * UnitNum) - oneWay[Len(oneWay)] = rise
  BY <1>9
<1> HIDE DEF rise
<1>11. -UnitDen < rise - v * UnitDen /\ rise - v * UnitDen < UnitDen
  BY <1>7, <1>8
<1> QED BY <1>6, <1>9, <1>10, <1>11 DEF v

LEMMA FallMeasuresNotPositive ==
  ASSUME DelayInv, DInv', NEW gap \in ArrivalGaps, NEW sendGap \in SendGaps,
         OnPacket(gap, sendGap), measured'.hasResult,
         -HalfRange < sent' - sent, sent' - sent < HalfRange,
         arrival' * UnitDen - sent' * UnitNum <= oneWay[Len(oneWay)]
  PROVE  DelayMs(measured'.delayVariation) <= 0
<1> DEFINE change == (arrival' * UnitDen - sent' * UnitNum) - oneWay[Len(oneWay)]
           v == measured'.delayVariation
<1>1. /\ v \in Int /\ change \in Int /\ oneWay[Len(oneWay)] \in Int
      /\ -UnitDen < change - v * UnitDen
  BY MeasuredNearChange
<1>2. UnitDen \in Nat \ {0} /\ arrival' * UnitDen - sent' * UnitNum \in Int
  BY ConfigAssumption DEF DInv, IInv
<1>3. change <= 0
  BY <1>1, <1>2
<1> HIDE DEF v, change
<1>4. v <= 0
  BY <1>1, <1>2, <1>3, WithinTickOfFall
<1> QED BY <1>1, <1>4, TruncatedNotPositive DEF v

LEMMA DelayInvInit == DelayInit => DelayInv
BY DInvInit DEF DelayInit, Init, NewCalculator, DelayInv

LEMMA DelayInvStep == DelayInv /\ [DelayNext]_delayVars => DelayInv'
<1> SUFFICES ASSUME DelayInv, [DelayNext]_delayVars PROVE DelayInv'
  OBVIOUS
<1>1. DInv'
  BY PipelineStep, DInvStep DEF DelayInv
<1>2. ASSUME NEW p \in Packets, OnPacket(p[1], p[2]) PROVE DelayInv'
  <2> DEFINE send == sent' % AbsSendTimeMax
             now1 == arrival' * UnitDen - sent' * UnitNum
  <2>1. ia' = Added(ia, arrival', send) /\ oneWay' = Append(oneWay, now1)
    BY <1>2 DEF OnPacket, AddPacket
  <2>2. arrival' \in Int /\ sent' \in Int
    BY <1>1 DEF DInv, IInv
  <2>3. now1 \in Int
    BY <2>2, ConfigAssumption
  <2>4. ia \in [current : GroupType, previous : GroupType] /\ oneWay \in Seq(Int)
    BY DEF DelayInv, DInv, IInv
  <2> HIDE DEF send, now1
  <2>5. ia'.current.lastArrive = arrival'
    BY <2>1, <2>4 DEF Added, Joined, GroupOf, GroupType
  <2>6. oneWay' \in Seq(Int) /\ Len(oneWay') > 0 /\ oneWay'[Len(oneWay')] = now1
    BY <2>1, <2>3, <2>4
  <2> QED BY <1>1, <2>5, <2>6 DEF DelayInv, now1
<1>3. CASE ResetAll
  <2>1. ia' = NewCalculator /\ oneWay' = <<>>
    BY <1>3 DEF ResetAll, Reset
  <2> QED BY <1>1, <2>1 DEF DelayInv, NewCalculator
<1>4. CASE UNCHANGED delayVars
  BY <1>1, <1>4 DEF delayVars, vars, DelayInv
<1> QED BY <1>2, <1>3, <1>4 DEF DelayNext

LEMMA QuietInvInit == DelayInit => QuietInv
<1> SUFFICES ASSUME DelayInit PROVE QuietInv
  OBVIOUS
<1>1. now = 0 /\ det = OD!NewDetector /\ inputs = <<>>
  BY DEF DelayInit
<1>2. OD!NewDetector \in DetectorType /\ OD!NewDetector.hypothesis = "Normal"
  BY ThresholdsAreNat DEF OD!NewDetector, DetectorType, OD!Usages
<1> QED BY <1>1, <1>2 DEF QuietInv

(* A history without a rise had none before its last packet, nor has the   *)
(* last packet risen.                                                      *)
LEMMA GrewStays ==
  ASSUME oneWay \in Seq(Int), NEW last \in Int, oneWay' = Append(oneWay, last), ~Grew'
  PROVE  ~Grew /\ (Len(oneWay) > 0 => last <= oneWay[Len(oneWay)])
<1> DEFINE n == Len(oneWay)
<1>1. n \in Nat /\ DOMAIN oneWay = 1 .. n /\ DOMAIN oneWay' = 1 .. n + 1
  OBVIOUS
<1>2. /\ \A i \in 1 .. n : oneWay'[i] = oneWay[i] /\ oneWay[i] \in Int
      /\ oneWay'[n + 1] = last
  OBVIOUS
<1> HIDE DEF n
<1>3. ~Grew
  BY <1>1, <1>2 DEF Grew
<1>4. ASSUME n > 0 PROVE last <= oneWay[n]
  <2>1. n \in 1 .. n /\ n \in 1 .. n + 1 /\ n + 1 \in 1 .. n + 1 /\ n < n + 1
    BY <1>1, <1>4
  <2>2. ~(oneWay'[n] < oneWay'[n + 1])
    BY <1>1, <2>1 DEF Grew
  <2>3. oneWay'[n] = oneWay[n] /\ oneWay[n] \in Int
    BY <1>2, <2>1
  <2> QED BY <1>2, <2>2, <2>3
<1> QED BY <1>3, <1>4 DEF n

LEMMA QuietInvOnPacket ==
  ASSUME QuietInv, DelayInv, KInv, DelayInv', KInv',
         NEW gap \in ArrivalGaps, NEW sendGap \in SendGaps, OnPacket(gap, sendGap)
  PROVE  QuietInv'
<1>1. now' \in Nat /\ UNCHANGED filterType
  <2>1. arrival' \in Nat
    BY ConfigAssumption DEF OnPacket, AddPacket
  <2> QED BY <2>1 DEF OnPacket, QuietInv
<1>2. CASE ~measured'.hasResult
  <2>1. UNCHANGED <<det, inputs>>
    BY <1>2 DEF OnPacket, pipeline
  <2>2. ~Grew' => ~Grew
    <3>1. oneWay' = Append(oneWay, arrival' * UnitDen - sent' * UnitNum)
      BY DEF OnPacket
    <3>2. arrival' * UnitDen - sent' * UnitNum \in Int /\ oneWay \in Seq(Int)
      BY ConfigAssumption DEF DelayInv, DInv, IInv
    <3> QED BY <3>1, <3>2, GrewStays
  <2>3. Unambiguous' => Unambiguous
    BY <2>1 DEF Unambiguous
  <2> QED BY <1>1, <2>1, <2>2, <2>3 DEF QuietInv
<1>3. CASE measured'.hasResult
  <2> DEFINE variation == DelayMs(measured'.delayVariation)
             call == [at |-> arrival', variation |-> variation,
                      sendDelta |-> truth'.currentFirst - truth'.previousLast]
             last == arrival' * UnitDen - sent' * UnitNum
  <2>1. SUFFICES ASSUME filterType = "Kalman"
        PROVE  /\ det' \in DetectorType
               /\ Unambiguous' /\ ~Grew' => /\ \A i \in DOMAIN inputs' : inputs'[i].variation <= 0
                                           /\ det'.hypothesis # "Overusing"
    BY <1>1 DEF QuietInv
  <2>2. /\ det' = OD!Detected(det, kf'.estimate, now')
        /\ inputs' = Append(inputs, call)
        /\ oneWay' = Append(oneWay, last)
    BY <1>3, <2>1 DEF OnPacket, Estimate
  <2>3. kf'.estimate \in Int /\ det \in DetectorType
    BY <2>1 DEF KInv, QuietInv
  <2>4. det' \in DetectorType /\ (kf'.estimate <= 0 => det'.hypothesis # "Overusing")
    BY <1>1, <2>2, <2>3, DetectorStep
  <2>5. ASSUME Unambiguous', ~Grew'
        PROVE  /\ \A i \in DOMAIN inputs' : inputs'[i].variation <= 0
               /\ kf'.estimate <= 0
    <3>1. inputs \in Seq(CallType) /\ inputs' \in Seq(CallType)
      BY DEF KInv
    <3>2. call.variation = variation
          /\ call.sendDelta = truth'.currentFirst - truth'.previousLast
      OBVIOUS
    <3>3. last \in Int /\ oneWay \in Seq(Int)
      BY ConfigAssumption DEF DelayInv, DInv, IInv
    <3> HIDE DEF call, variation, last
    <3>4. /\ DOMAIN inputs' = 1 .. Len(inputs) + 1 /\ inputs'[Len(inputs) + 1] = call
          /\ \A i \in DOMAIN inputs : i \in DOMAIN inputs' /\ inputs'[i] = inputs[i]
          /\ DOMAIN inputs = 1 .. Len(inputs) /\ Len(inputs) \in Nat
      BY <2>2, <3>1
    <3>5. Unambiguous /\ -HalfRange < call.sendDelta /\ call.sendDelta < HalfRange
      BY <2>5, <3>4 DEF Unambiguous
    <3>6. ~Grew /\ (Len(oneWay) > 0 => last <= oneWay[Len(oneWay)])
      BY <2>2, <2>5, <3>3, GrewStays
    <3>7. \A i \in DOMAIN inputs : inputs[i].variation <= 0
      BY <2>1, <3>5, <3>6 DEF QuietInv
    <3>8. ia.current # NoGroup /\ truth' = [previousLast |-> sent, currentFirst |-> sent']
      <4>1. ia' = Added(ia, arrival', sent' % AbsSendTimeMax)
            /\ measured' = Result(ia, ia', arrival')
            /\ truth' = IF BelongsToBurst(ia, arrival') THEN truth
                        ELSE [previousLast |-> sent, currentFirst |-> sent']
        BY DEF OnPacket, AddPacket
      <4>2. ~BelongsToBurst(ia, arrival') /\ ia'.previous # NoGroup
        BY <1>3, <4>1 DEF Result, NoResult
      <4> QED BY <4>1, <4>2 DEF Added
    <3>9. variation <= 0
      <4>1. call.sendDelta = sent' - sent
        BY <3>2, <3>8
      <4>2. last <= oneWay[Len(oneWay)]
        BY <3>6, <3>8 DEF DelayInv
      <4>3. DInv'
        BY DEF DelayInv
      <4> QED BY <1>3, <3>5, <4>1, <4>2, <4>3, FallMeasuresNotPositive DEF last, variation
    <3>10. \A i \in DOMAIN inputs' : inputs'[i].variation <= 0
      BY <3>2, <3>4, <3>7, <3>9
    <3>11. kf'.estimate <= 0
      <4>1. kf'.estimate > 0 => \E i \in DOMAIN inputs' : inputs'[i].variation >= kf'.estimate
        BY <1>1, <2>1 DEF KInv, KalmanWithinMeasurements
      <4>2. \A i \in DOMAIN inputs' : inputs'[i].variation \in Int
        <5>1. \A i \in DOMAIN inputs' : inputs'[i] \in CallType
          BY <3>1
        <5> QED BY <5>1 DEF CallType
      <4> QED BY <2>3, <3>10, <4>1, <4>2
    <3> QED BY <3>10, <3>11
  <2> QED BY <2>4, <2>5
<1> QED BY <1>2, <1>3

LEMMA QuietInvStep ==
  QuietInv /\ DelayInv /\ KInv /\ DelayInv' /\ KInv' /\ [DelayNext]_delayVars => QuietInv'
<1> SUFFICES ASSUME QuietInv, DelayInv, KInv, DelayInv', KInv', [DelayNext]_delayVars
             PROVE  QuietInv'
  OBVIOUS
<1>1. ASSUME NEW p \in Packets, OnPacket(p[1], p[2]) PROVE QuietInv'
  <2>1. p[1] \in ArrivalGaps /\ p[2] \in SendGaps
    BY PipelineAssumption
  <2> QED BY <1>1, <2>1, QuietInvOnPacket
<1>2. CASE ResetAll
  <2>1. now' = now /\ filterType' = filterType /\ det' = OD!NewDetector /\ inputs' = <<>>
    BY <1>2 DEF ResetAll
  <2>2. OD!NewDetector \in DetectorType /\ OD!NewDetector.hypothesis = "Normal"
    BY ThresholdsAreNat DEF OD!NewDetector, DetectorType, OD!Usages
  <2> QED BY <2>1, <2>2 DEF QuietInv
<1>3. CASE UNCHANGED delayVars
  BY <1>3 DEF delayVars, vars, pipeline, QuietInv, Unambiguous, Grew
<1> QED BY <1>1, <1>2, <1>3 DEF DelayNext

(* With the Kalman filter the pipeline signals overuse only after a rise   *)
(* of the one-way delay, for every configuration, wrap of the counter and  *)
(* order of packets (estimator.go:147, with interarrival.go, kalman.go and *)
(* overuse.go).                                                            *)
THEOREM OveruseIsReal == DelaySpec => []OveruseMeansDelayGrew
<1>1. DelayInit => KInv /\ DelayInv /\ QuietInv
  BY KInvInit, DelayInvInit, QuietInvInit
<1>2. KInv /\ DelayInv /\ QuietInv /\ [DelayNext]_delayVars
        => KInv' /\ DelayInv' /\ QuietInv'
  BY KInvStep, DelayInvStep, QuietInvStep
<1>3. QuietInv => OveruseMeansDelayGrew
  BY DEF QuietInv, OveruseMeansDelayGrew, Grew
<1> QED BY <1>1, <1>2, <1>3, PTL DEF DelaySpec
-----------------------------------------------------------------------------
(* Sums over sequences of integers, for the regression.  Induction comes   *)
(* from RateStatsProofs, whose parameters those lemmas do not mention.     *)
RSP == INSTANCE RateStatsProofs WITH
         MinElapsed <- 1, TicksPerSecond <- 1, Sizes <- {}, Skew <- 0, MaxSamples <- 0,
         rs <- 0, answer <- 0, latest <- 0, lastCall <- 0, lateness <- 0

LEMMA StatsConfigured == RSP!ConfigAssumption
BY PipelineAssumption, ConfigAssumption DEF T!FitAssumption, RSP!ConfigAssumption

(* The function inside SumOf: the sum of the first i terms.                *)
SumUpTo(terms) ==
  LET upTo[i \in 0 .. Len(terms)] == IF i = 0 THEN 0 ELSE upTo[i - 1] + terms[i]
  IN  upTo

LEMMA SumIsSumUpToLen ==
  ASSUME NEW terms
  PROVE  T!SumOf(terms) = SumUpTo(terms)[Len(terms)]
BY DEF T!SumOf, SumUpTo

LEMMA TermTypes ==
  ASSUME NEW terms \in Seq(Int)
  PROVE  /\ Len(terms) \in Nat /\ DOMAIN terms = 1 .. Len(terms)
         /\ \A i \in 1 .. Len(terms) : terms[i] \in Int
<1>1. Len(terms) \in Nat /\ DOMAIN terms = 1 .. Len(terms)
  BY LenProperties
<1>2. \A i \in 1 .. Len(terms) : terms[i] \in Int
  BY ElementOfSeq
<1> QED BY <1>1, <1>2

(* The recursion has a solution, so that the chosen function is one.       *)
LEMMA SumUpToExists ==
  ASSUME NEW terms \in Seq(Int)
  PROVE  \E g \in [0 .. Len(terms) -> Int] :
           g[0] = 0 /\ \A i \in 1 .. Len(terms) : g[i] = g[i - 1] + terms[i]
<1> DEFINE Solves(g, n) == g[0] = 0 /\ \A i \in 1 .. n : g[i] = g[i - 1] + terms[i]
           P == {n \in Nat : n <= Len(terms) => \E g \in [0 .. n -> Int] : Solves(g, n)}
<1>1. 0 \in P
  <2> DEFINE zero == [i \in 0 .. 0 |-> 0]
  <2>1. zero \in [0 .. 0 -> Int] /\ Solves(zero, 0)
    OBVIOUS
  <2> HIDE DEF zero, Solves
  <2> QED BY <2>1
<1> HIDE DEF Solves
<1>2. ASSUME NEW n \in Nat, n \in P
      PROVE  n + 1 \in P
  <2> SUFFICES ASSUME n + 1 <= Len(terms)
               PROVE  \E h \in [0 .. n + 1 -> Int] : Solves(h, n + 1)
    OBVIOUS
  <2>1. n <= Len(terms) /\ terms[n + 1] \in Int
    BY TermTypes
  <2>2. PICK g \in [0 .. n -> Int] : Solves(g, n)
    BY <1>2, <2>1
  <2> DEFINE h == [i \in 0 .. n + 1 |-> IF i = n + 1 THEN g[n] + terms[n + 1] ELSE g[i]]
  <2>3. h \in [0 .. n + 1 -> Int]
    BY <2>1
  <2>4. Solves(h, n + 1)
    BY <2>2 DEF Solves
  <2> HIDE DEF h
  <2> QED BY <2>3, <2>4
<1>3. Len(terms) \in Nat
  BY TermTypes
<1> HIDE DEF P
<1>4. Nat \subseteq P
  BY <1>1, <1>2, StatsConfigured, RSP!InductiveSet
<1>5. Len(terms) \in P
  BY <1>3, <1>4
<1> QED BY <1>3, <1>5 DEF P, Solves

LEMMA SumUpToDef ==
  ASSUME NEW terms \in Seq(Int)
  PROVE  /\ SumUpTo(terms)[0] = 0
         /\ \A i \in 1 .. Len(terms) :
              SumUpTo(terms)[i] = SumUpTo(terms)[i - 1] + terms[i]
<1> DEFINE Step(g) == [i \in 0 .. Len(terms) |-> IF i = 0 THEN 0 ELSE g[i - 1] + terms[i]]
<1>1. PICK g \in [0 .. Len(terms) -> Int] :
        g[0] = 0 /\ \A i \in 1 .. Len(terms) : g[i] = g[i - 1] + terms[i]
  BY SumUpToExists
<1>2. g = Step(g)
  BY <1>1, TermTypes
<1>3. SumUpTo(terms) = CHOOSE f : f = Step(f)
  BY DEF SumUpTo
<1> HIDE DEF Step
<1>4. SumUpTo(terms) = Step(SumUpTo(terms))
  BY <1>2, <1>3
<1>5. Len(terms) \in Nat
  BY TermTypes
<1> DEFINE u == SumUpTo(terms)
<1>6. u = [i \in 0 .. Len(terms) |-> IF i = 0 THEN 0 ELSE u[i - 1] + terms[i]]
  BY <1>4 DEF Step
<1> HIDE DEF u
<1>7. u[0] = 0
  BY <1>5, <1>6
<1>8. ASSUME NEW i \in 1 .. Len(terms)
      PROVE  u[i] = u[i - 1] + terms[i]
  <2>1. i \in 0 .. Len(terms) /\ i # 0
    BY <1>5
  <2> QED BY <1>6, <2>1
<1> QED BY <1>7, <1>8 DEF u

LEMMA SumUpToType ==
  ASSUME NEW terms \in Seq(Int)
  PROVE  \A i \in 0 .. Len(terms) : SumUpTo(terms)[i] \in Int
<1> DEFINE P == {n \in Nat : n <= Len(terms) => SumUpTo(terms)[n] \in Int}
<1>1. 0 \in P
  BY SumUpToDef
<1>2. ASSUME NEW n \in Nat, n \in P, n + 1 <= Len(terms)
      PROVE  SumUpTo(terms)[n + 1] \in Int
  <2>1. Len(terms) \in Nat
    BY TermTypes
  <2>2. n + 1 \in 1 .. Len(terms) /\ (n + 1) - 1 = n /\ n <= Len(terms)
    BY <1>2, <2>1
  <2>3. SumUpTo(terms)[n + 1] = SumUpTo(terms)[n] + terms[n + 1]
    BY <2>2, SumUpToDef
  <2>4. SumUpTo(terms)[n] \in Int /\ terms[n + 1] \in Int
    BY <1>2, <2>2, TermTypes
  <2> QED BY <2>3, <2>4
<1>3. \A n \in Nat : n \in P => n + 1 \in P
  BY <1>2
<1> HIDE DEF P
<1>4. Nat \subseteq P
  BY <1>1, <1>3, StatsConfigured, RSP!InductiveSet
<1>5. Len(terms) \in Nat
  BY TermTypes
<1> QED BY <1>4, <1>5 DEF P

LEMMA SumIsInt ==
  ASSUME NEW terms \in Seq(Int)
  PROVE  T!SumOf(terms) \in Int
<1>1. Len(terms) \in 0 .. Len(terms)
  BY TermTypes
<1> QED BY <1>1, SumIsSumUpToLen, SumUpToType

LEMMA SumOfZeros ==
  ASSUME NEW terms \in Seq(Int), \A i \in 1 .. Len(terms) : terms[i] = 0
  PROVE  T!SumOf(terms) = 0
<1> DEFINE P == {n \in Nat : n <= Len(terms) => SumUpTo(terms)[n] = 0}
<1>0. Len(terms) \in Nat
  BY TermTypes
<1>1. 0 \in P
  BY SumUpToDef
<1>2. ASSUME NEW n \in Nat, n \in P, n + 1 <= Len(terms)
      PROVE  SumUpTo(terms)[n + 1] = 0
  <2>1. n + 1 \in 1 .. Len(terms) /\ (n + 1) - 1 = n /\ n <= Len(terms)
    BY <1>0, <1>2
  <2>2. SumUpTo(terms)[n + 1] = SumUpTo(terms)[n] + terms[n + 1]
    BY <2>1, SumUpToDef
  <2>3. SumUpTo(terms)[n] = 0 /\ terms[n + 1] = 0
    BY <1>2, <2>1
  <2> QED BY <2>2, <2>3
<1>3. \A n \in Nat : n \in P => n + 1 \in P
  BY <1>2
<1> HIDE DEF P
<1>4. Len(terms) \in P
  BY <1>0, <1>1, <1>3, StatsConfigured, RSP!InductiveSet
<1> QED BY <1>0, <1>4, SumIsSumUpToLen DEF P
-----------------------------------------------------------------------------
(* The variance of the arrival times, the divisor of the slope, is never   *)
(* negative: n * sum(x^2) - sum(x)^2 grows with every point by the sum of  *)
(* the squares of its distances to the others.                             *)

(* A function over 1 .. n is a sequence of length n. *)
LEMMA FunctionIsSeq ==
  ASSUME NEW n \in Nat, NEW f \in [1 .. n -> Int]
  PROVE  f \in Seq(Int) /\ Len(f) = n
OBVIOUS

LEMMA SquareIsNat ==
  ASSUME NEW a \in Int
  PROVE  a * a \in Nat
<1>1. CASE a >= 0
  BY <1>1, NatProduct
<1>2. CASE a < 0
  <2>1. -a \in Nat
    BY <1>2
  <2>2. (-a) * (-a) \in Nat
    BY <2>1, NatProduct
  <2>3. (-a) * (-a) = a * a
    OBVIOUS
  <2> QED BY <2>2, <2>3
<1> QED BY <1>1, <1>2

LEMMA ProductSeq ==
  ASSUME NEW xs \in Seq(Int), NEW ys \in Seq(Int), Len(xs) = Len(ys)
  PROVE  /\ T!Products(xs, ys) \in Seq(Int) /\ Len(T!Products(xs, ys)) = Len(xs)
         /\ \A i \in 1 .. Len(xs) : T!Products(xs, ys)[i] = xs[i] * ys[i]
<1>1. Len(xs) \in Nat /\ DOMAIN xs = 1 .. Len(xs)
      /\ \A i \in 1 .. Len(xs) : xs[i] \in Int /\ ys[i] \in Int
  BY TermTypes
<1>2. T!Products(xs, ys) = [i \in 1 .. Len(xs) |-> xs[i] * ys[i]]
  BY <1>1 DEF T!Products
<1>3. \A i \in 1 .. Len(xs) : xs[i] * ys[i] \in Int
  BY <1>1
<1>4. T!Products(xs, ys) \in [1 .. Len(xs) -> Int]
  BY <1>2, <1>3
<1>5. \A i \in 1 .. Len(xs) : T!Products(xs, ys)[i] = xs[i] * ys[i]
  BY <1>2
<1> QED BY <1>1, <1>4, <1>5, FunctionIsSeq

(* The sum of the squared distances to a point, with one more summand.     *)
LEMMA DistancesStep ==
  ASSUME NEW k \in Int, NEW x \in Int, NEW sx \in Int, NEW sxx \in Int, NEW a \in Int
  PROVE  (k + 1) * (x * x) - 2 * (x * (sx + a)) + (sxx + a * a)
           = (k * (x * x) - 2 * (x * sx) + sxx) + (x - a) * (x - a)
<1>1. (x - a) * (x - a) = x * x - 2 * (x * a) + a * a
  OBVIOUS
<1>2. x * (sx + a) = x * sx + x * a
  OBVIOUS
<1>3. (k + 1) * (x * x) = k * (x * x) + x * x
  OBVIOUS
<1>4. x * x \in Int /\ x * a \in Int /\ a * a \in Int /\ x * sx \in Int /\ k * (x * x) \in Int
  OBVIOUS
<1> QED BY <1>1, <1>2, <1>3, <1>4

(* The same for the variance. *)
LEMMA VarianceStep ==
  ASSUME NEW k \in Int, NEW sx \in Int, NEW sxx \in Int, NEW a \in Int
  PROVE  (k + 1) * (sxx + a * a) - (sx + a) * (sx + a)
           = (k * sxx - sx * sx) + (k * (a * a) - 2 * (a * sx) + sxx)
<1>1. (sx + a) * (sx + a) = sx * sx + 2 * (a * sx) + a * a
  OBVIOUS
<1>2. (k + 1) * (sxx + a * a) = k * sxx + k * (a * a) + sxx + a * a
  OBVIOUS
<1>3. sx * sx \in Int /\ a * sx \in Int /\ a * a \in Int /\ k * sxx \in Int /\ k * (a * a) \in Int
  OBVIOUS
<1> QED BY <1>1, <1>2, <1>3

LEMMA VarianceIsNat ==
  ASSUME NEW xs \in Seq(Int)
  PROVE  Len(xs) * T!SumOf(T!Products(xs, xs)) - T!SumOf(xs) * T!SumOf(xs) \in Nat
<1> DEFINE n == Len(xs)
           sx(k) == SumUpTo(xs)[k]
           sxx(k) == SumUpTo(T!Products(xs, xs))[k]
           Distances(k, x) == k * (x * x) - 2 * (x * sx(k)) + sxx(k)
           Variance(k) == k * sxx(k) - sx(k) * sx(k)
           P == {k \in Nat : k <= n => \A x \in Int : Distances(k, x) \in Nat}
           Q == {k \in Nat : k <= n => Variance(k) \in Nat}
<1>1. n \in Nat /\ \A i \in 1 .. n : xs[i] \in Int
  BY TermTypes
<1>2. /\ T!Products(xs, xs) \in Seq(Int) /\ Len(T!Products(xs, xs)) = n
      /\ \A i \in 1 .. n : T!Products(xs, xs)[i] = xs[i] * xs[i]
  BY ProductSeq
<1>3. sx(0) = 0 /\ sxx(0) = 0
  BY <1>2, SumUpToDef
<1>4. ASSUME NEW k \in Nat, k + 1 <= n
      PROVE  /\ k <= n /\ xs[k + 1] \in Int /\ sx(k) \in Int /\ sxx(k) \in Int
             /\ sx(k + 1) = sx(k) + xs[k + 1]
             /\ sxx(k + 1) = sxx(k) + xs[k + 1] * xs[k + 1]
  <2>1. k + 1 \in 1 .. n /\ k \in 0 .. n /\ (k + 1) - 1 = k
    BY <1>1, <1>4
  <2>2. xs[k + 1] \in Int /\ sx(k) \in Int /\ sxx(k) \in Int
    BY <1>1, <1>2, <2>1, SumUpToType
  <2>3. sx(k + 1) = sx(k) + xs[k + 1]
    BY <2>1, SumUpToDef
  <2>4. sxx(k + 1) = sxx(k) + T!Products(xs, xs)[k + 1]
    BY <1>2, <2>1, SumUpToDef
  <2>5. sxx(k + 1) = sxx(k) + xs[k + 1] * xs[k + 1]
    BY <1>2, <2>1, <2>4
  <2> QED BY <2>1, <2>2, <2>3, <2>5
<1> HIDE DEF sx, sxx, n
<1>5. 0 \in P
  BY <1>3
<1>6. ASSUME NEW k \in Nat, k \in P
      PROVE  k + 1 \in P
  <2> SUFFICES ASSUME k + 1 <= n, NEW x \in Int
               PROVE  Distances(k + 1, x) \in Nat
    OBVIOUS
  <2> DEFINE a == xs[k + 1]
  <2>1. a \in Int /\ sx(k) \in Int /\ sxx(k) \in Int /\ k <= n
    BY <1>4
  <2>2. Distances(k, x) \in Nat
    BY <1>6, <2>1
  <2>3. x - a \in Int
    BY <2>1
  <2> HIDE DEF a
  <2>4. (x - a) * (x - a) \in Nat
    BY <2>3, SquareIsNat
  <2>5. sx(k + 1) = sx(k) + a /\ sxx(k + 1) = sxx(k) + a * a
    BY <1>4 DEF a
  <2>6. Distances(k + 1, x) = Distances(k, x) + (x - a) * (x - a)
    <3>1. (k + 1) * (x * x) - 2 * (x * (sx(k) + a)) + (sxx(k) + a * a)
            = (k * (x * x) - 2 * (x * sx(k)) + sxx(k)) + (x - a) * (x - a)
      <4> DEFINE s == sx(k)
                 q == sxx(k)
      <4> HIDE DEF Distances, P
      <4>1. k \in Int /\ s \in Int /\ q \in Int /\ a \in Int
        BY <2>1
      <4> HIDE DEF s, q
      <4>2. (k + 1) * (x * x) - 2 * (x * (s + a)) + (q + a * a)
              = (k * (x * x) - 2 * (x * s) + q) + (x - a) * (x - a)
        BY <4>1, DistancesStep
      <4> QED BY <4>2, Zenon DEF s, q
    <3>2. Distances(k + 1, x) = (k + 1) * (x * x) - 2 * (x * (sx(k) + a)) + (sxx(k) + a * a)
      BY <2>5, Zenon
    <3> QED BY <3>1, <3>2, Zenon
  <2> HIDE DEF Distances
  <2> QED BY <2>2, <2>4, <2>6
<1>7. Nat \subseteq P
  <2> HIDE DEF P
  <2> QED BY <1>5, <1>6, StatsConfigured, RSP!InductiveSet
<1>8. 0 \in Q
  BY <1>3
<1>9. ASSUME NEW k \in Nat, k \in Q
      PROVE  k + 1 \in Q
  <2> SUFFICES ASSUME k + 1 <= n
               PROVE  Variance(k + 1) \in Nat
    OBVIOUS
  <2> DEFINE a == xs[k + 1]
  <2>1. a \in Int /\ sx(k) \in Int /\ sxx(k) \in Int /\ k <= n
    BY <1>4
  <2>2. Variance(k) \in Nat
    BY <1>9, <2>1
  <2>3. Distances(k, a) \in Nat
    BY <1>7, <2>1
  <2> HIDE DEF a, P
  <2>4. sx(k + 1) = sx(k) + a /\ sxx(k + 1) = sxx(k) + a * a
    BY <1>4 DEF a
  <2>5. Variance(k + 1) = Variance(k) + Distances(k, a)
    <3>1. (k + 1) * (sxx(k) + a * a) - (sx(k) + a) * (sx(k) + a)
            = (k * sxx(k) - sx(k) * sx(k)) + (k * (a * a) - 2 * (a * sx(k)) + sxx(k))
      <4> DEFINE s == sx(k)
                 q == sxx(k)
      <4> HIDE DEF Distances, Variance, Q
      <4>1. k \in Int /\ s \in Int /\ q \in Int /\ a \in Int
        BY <2>1
      <4> HIDE DEF s, q
      <4>2. (k + 1) * (q + a * a) - (s + a) * (s + a)
              = (k * q - s * s) + (k * (a * a) - 2 * (a * s) + q)
        BY <4>1, VarianceStep
      <4> QED BY <4>2, Zenon DEF s, q
    <3>2. Variance(k + 1) = (k + 1) * (sxx(k) + a * a) - (sx(k) + a) * (sx(k) + a)
      BY <2>4, Zenon
    <3> QED BY <3>1, <3>2, Zenon
  <2> HIDE DEF Distances, Variance
  <2> QED BY <2>2, <2>3, <2>5
<1>10. n \in Q
  <2> HIDE DEF Q
  <2> QED BY <1>1, <1>8, <1>9, StatsConfigured, RSP!InductiveSet
<1>11. Variance(n) \in Nat
  BY <1>1, <1>10
<1>12. T!SumOf(xs) = sx(n) /\ T!SumOf(T!Products(xs, xs)) = sxx(n)
  BY <1>2, SumIsSumUpToLen DEF n, sx, sxx
<1> HIDE DEF P, Q
<1> QED BY <1>11, <1>12 DEF n
-----------------------------------------------------------------------------
(* The least-squares slope is the slope over all pairs of points: every    *)
(* point adds the products of its distances to the others to both.         *)

(* The partial sums of two sequences and of their products.                *)
LEMMA PartialSums ==
  ASSUME NEW xs \in Seq(Int), NEW ys \in Seq(Int), Len(xs) = Len(ys),
         NEW k \in Nat, k + 1 <= Len(xs)
  PROVE  LET xys == T!Products(xs, ys)
         IN  /\ xs[k + 1] \in Int /\ ys[k + 1] \in Int
             /\ SumUpTo(xs)[k] \in Int /\ SumUpTo(ys)[k] \in Int /\ SumUpTo(xys)[k] \in Int
             /\ SumUpTo(xs)[k + 1] = SumUpTo(xs)[k] + xs[k + 1]
             /\ SumUpTo(ys)[k + 1] = SumUpTo(ys)[k] + ys[k + 1]
             /\ SumUpTo(xys)[k + 1] = SumUpTo(xys)[k] + xs[k + 1] * ys[k + 1]
<1> DEFINE xys == T!Products(xs, ys)
<1>1. Len(xs) \in Nat
  BY TermTypes
<1>2. k + 1 \in 1 .. Len(xs) /\ k \in 0 .. Len(xs) /\ (k + 1) - 1 = k
  BY <1>1
<1>3. xys \in Seq(Int) /\ Len(xys) = Len(xs) /\ xys[k + 1] = xs[k + 1] * ys[k + 1]
  BY <1>2, ProductSeq
<1>4. xs[k + 1] \in Int /\ ys[k + 1] \in Int
  BY <1>2, TermTypes
<1> HIDE DEF xys
<1>5. SumUpTo(xs)[k] \in Int /\ SumUpTo(ys)[k] \in Int /\ SumUpTo(xys)[k] \in Int
  BY <1>2, <1>3, SumUpToType
<1>6. /\ SumUpTo(xs)[k + 1] = SumUpTo(xs)[(k + 1) - 1] + xs[k + 1]
      /\ SumUpTo(ys)[k + 1] = SumUpTo(ys)[(k + 1) - 1] + ys[k + 1]
      /\ SumUpTo(xys)[k + 1] = SumUpTo(xys)[(k + 1) - 1] + xys[k + 1]
  BY <1>2, <1>3, SumUpToDef
<1> QED BY <1>2, <1>3, <1>4, <1>5, <1>6 DEF xys

(* What one point adds: the products of its distances to those before it.  *)
LEMMA PairsWithPoint ==
  ASSUME NEW xs \in Seq(Int), NEW ys \in Seq(Int), Len(xs) = Len(ys),
         NEW j \in Nat, j + 1 <= Len(xs)
  PROVE  LET a == xs[j + 1]
             b == ys[j + 1]
             pairs == [i \in 1 .. (j + 1) - 1 |-> (a - xs[i]) * (b - ys[i])]
         IN  /\ T!SumOf(pairs) \in Int
             /\ T!SumOf(pairs) = j * (a * b) - a * SumUpTo(ys)[j] - b * SumUpTo(xs)[j]
                                   + SumUpTo(T!Products(xs, ys))[j]
<1> DEFINE a == xs[j + 1]
           b == ys[j + 1]
           pairs == [i \in 1 .. (j + 1) - 1 |-> (a - xs[i]) * (b - ys[i])]
           sx(m) == SumUpTo(xs)[m]
           sy(m) == SumUpTo(ys)[m]
           sxy(m) == SumUpTo(T!Products(xs, ys))[m]
           ByPoint(m) == m * (a * b) - a * sy(m) - b * sx(m) + sxy(m)
           P == {m \in Nat : m <= j => SumUpTo(pairs)[m] = ByPoint(m)}
<1>1. /\ Len(xs) \in Nat /\ \A i \in 1 .. Len(xs) : xs[i] \in Int /\ ys[i] \in Int
      /\ a \in Int /\ b \in Int
  BY TermTypes, PartialSums
<1>2. pairs \in Seq(Int) /\ Len(pairs) = j
      /\ \A i \in 1 .. j : pairs[i] = (a - xs[i]) * (b - ys[i])
  <2>1. (j + 1) - 1 = j /\ \A i \in 1 .. j : i \in 1 .. Len(xs)
    BY <1>1
  <2>2. ASSUME NEW i \in 1 .. j PROVE (a - xs[i]) * (b - ys[i]) \in Int
    <3> DEFINE x == xs[i]
               y == ys[i]
    <3>1. a \in Int /\ b \in Int /\ x \in Int /\ y \in Int
      BY <1>1, <2>1
    <3> HIDE DEF a, b, x, y, pairs, P
    <3>2. (a - x) * (b - y) \in Int
      BY <3>1
    <3> QED BY <3>2 DEF x, y
  <2>3. pairs \in [1 .. j -> Int]
    BY <2>1, <2>2
  <2> QED BY <2>1, <2>3, FunctionIsSeq
<1>3. 0 \in P
  <2>1. sx(0) = 0 /\ sy(0) = 0 /\ sxy(0) = 0
    BY ProductSeq, SumUpToDef
  <2>2. SumUpTo(pairs)[0] = 0
    BY <1>2, SumUpToDef
  <2>3. ByPoint(0) = 0
    <3> HIDE DEF a, b, sx, sy, sxy
    <3>1. a * b \in Int
      BY <1>1
    <3>2. 0 * (a * b) = 0 /\ a * 0 = 0 /\ b * 0 = 0
      BY <1>1, <3>1
    <3> QED BY <2>1, <3>2
  <2> QED BY <2>2, <2>3
<1>4. ASSUME NEW m \in Nat, m \in P, m + 1 <= j
      PROVE  SumUpTo(pairs)[m + 1] = ByPoint(m + 1)
  <2> DEFINE x == xs[m + 1]
             y == ys[m + 1]
  <2>1. /\ x \in Int /\ y \in Int /\ sx(m) \in Int /\ sy(m) \in Int /\ sxy(m) \in Int
        /\ sx(m + 1) = sx(m) + x /\ sy(m + 1) = sy(m) + y /\ sxy(m + 1) = sxy(m) + x * y
    <3>1. m + 1 <= Len(xs)
      BY <1>1, <1>4
    <3> QED BY <3>1, PartialSums
  <2>2. SumUpTo(pairs)[m + 1] = SumUpTo(pairs)[m] + (a - x) * (b - y)
    <3>1. m + 1 \in 1 .. j /\ (m + 1) - 1 = m
      BY <1>4
    <3>2. SumUpTo(pairs)[m + 1] = SumUpTo(pairs)[(m + 1) - 1] + pairs[m + 1]
      BY <1>2, <3>1, SumUpToDef
    <3>3. pairs[m + 1] = (a - x) * (b - y)
      BY <1>2, <3>1
    <3> HIDE DEF pairs
    <3> QED BY <3>1, <3>2, <3>3
  <2>3. SumUpTo(pairs)[m] = ByPoint(m)
    BY <1>4
  <2> HIDE DEF a, b, x, y, sx, sy, sxy, pairs
  <2>4. (m + 1) * (a * b) - a * (sy(m) + y) - b * (sx(m) + x) + (sxy(m) + x * y)
          = (m * (a * b) - a * sy(m) - b * sx(m) + sxy(m)) + (a - x) * (b - y)
    <3> DEFINE s == sx(m)
               t == sy(m)
               u == sxy(m)
    <3> HIDE DEF ByPoint, P
    <3>1. /\ m \in Int /\ a \in Int /\ b \in Int /\ x \in Int /\ y \in Int
          /\ s \in Int /\ t \in Int /\ u \in Int
      BY <1>1, <2>1
    <3> HIDE DEF s, t, u
    <3>2. (a - x) * (b - y) = a * b - a * y - b * x + x * y
      BY <3>1
    <3>3. a * (t + y) = a * t + a * y /\ b * (s + x) = b * s + b * x
      BY <3>1
    <3>4. (m + 1) * (a * b) = m * (a * b) + a * b
      BY <3>1
    <3>5. /\ a * b \in Int /\ a * y \in Int /\ b * x \in Int /\ x * y \in Int
          /\ a * t \in Int /\ b * s \in Int /\ m * (a * b) \in Int
      BY <3>1
    <3>6. (m + 1) * (a * b) - a * (t + y) - b * (s + x) + (u + x * y)
            = (m * (a * b) - a * t - b * s + u) + (a - x) * (b - y)
      BY <3>1, <3>2, <3>3, <3>4, <3>5
    <3> QED BY <3>6 DEF s, t, u
  <2>5. ByPoint(m + 1)
          = (m + 1) * (a * b) - a * (sy(m) + y) - b * (sx(m) + x) + (sxy(m) + x * y)
    BY <2>1, Zenon
  <2> QED BY <2>2, <2>3, <2>4, <2>5, Zenon
<1>5. \A m \in Nat : m \in P => m + 1 \in P
  BY <1>4
<1>6. j \in P
  <2> HIDE DEF P
  <2> QED BY <1>3, <1>5, StatsConfigured, RSP!InductiveSet
<1>7. T!SumOf(pairs) = ByPoint(j)
  <2>1. j <= j
    OBVIOUS
  <2>2. SumUpTo(pairs)[j] = ByPoint(j)
    BY <1>6, <2>1
  <2> HIDE DEF pairs, ByPoint
  <2> QED BY <1>2, <2>2, SumIsSumUpToLen
<1>8. T!SumOf(pairs) \in Int
  BY <1>2, SumIsInt
<1> QED BY <1>7, <1>8

(* What linearFitSlope computes from running sums (trendline.go:142), n    *)
(* times the sum of products less the product of the sums, is the sum over *)
(* all pairs of points, however many there are.                            *)
THEOREM LeastSquaresOverPairs ==
  ASSUME NEW xs \in Seq(Int), NEW ys \in Seq(Int), Len(xs) = Len(ys)
  PROVE  Len(xs) * T!SumOf(T!Products(xs, ys)) - T!SumOf(xs) * T!SumOf(ys)
           = T!PairSum(xs, ys)
<1> DEFINE n == Len(xs)
           sx(k) == SumUpTo(xs)[k]
           sy(k) == SumUpTo(ys)[k]
           sxy(k) == SumUpTo(T!Products(xs, ys))[k]
           PairsWith(j) == [i \in 1 .. j - 1 |-> (xs[j] - xs[i]) * (ys[j] - ys[i])]
           sums == [j \in DOMAIN xs |-> T!SumOf(PairsWith(j))]
           Covariance(k) == k * sxy(k) - sx(k) * sy(k)
           Q == {k \in Nat : k <= n => SumUpTo(sums)[k] = Covariance(k)}
<1>1. n \in Nat /\ DOMAIN xs = 1 .. n
  BY TermTypes
<1>2. ASSUME NEW k \in Nat, k + 1 <= n
      PROVE  LET a == xs[k + 1]
                 b == ys[k + 1]
             IN  /\ T!SumOf(PairsWith(k + 1)) \in Int
                 /\ T!SumOf(PairsWith(k + 1)) = k * (a * b) - a * sy(k) - b * sx(k) + sxy(k)
  BY <1>2, PairsWithPoint
<1> HIDE DEF PairsWith
<1>3. /\ sums \in Seq(Int) /\ Len(sums) = n
      /\ \A j \in 1 .. n : sums[j] = T!SumOf(PairsWith(j))
  <2>1. ASSUME NEW j \in 1 .. n PROVE T!SumOf(PairsWith(j)) \in Int
    <3>1. j - 1 \in Nat /\ (j - 1) + 1 = j /\ (j - 1) + 1 <= n
      BY <1>1
    <3>2. T!SumOf(PairsWith((j - 1) + 1)) \in Int
      BY <1>2, <3>1
    <3> QED BY <3>1, <3>2
  <2>2. sums \in [1 .. n -> Int]
    BY <1>1, <2>1
  <2> HIDE DEF n
  <2> QED BY <1>1, <2>2, FunctionIsSeq
<1> HIDE DEF sums
<1>4. 0 \in Q
  <2>1. sx(0) = 0 /\ sy(0) = 0 /\ sxy(0) = 0
    BY ProductSeq, SumUpToDef
  <2>2. SumUpTo(sums)[0] = 0
    BY <1>3, SumUpToDef
  <2> QED BY <2>1, <2>2
<1>5. ASSUME NEW k \in Nat, k \in Q, k + 1 <= n
      PROVE  SumUpTo(sums)[k + 1] = Covariance(k + 1)
  <2> DEFINE a == xs[k + 1]
             b == ys[k + 1]
  <2>1. /\ a \in Int /\ b \in Int /\ sx(k) \in Int /\ sy(k) \in Int /\ sxy(k) \in Int
        /\ sx(k + 1) = sx(k) + a /\ sy(k + 1) = sy(k) + b /\ sxy(k + 1) = sxy(k) + a * b
    BY <1>5, PartialSums
  <2>2. SumUpTo(sums)[k + 1] = SumUpTo(sums)[k] + (k * (a * b) - a * sy(k) - b * sx(k) + sxy(k))
    <3>1. k + 1 \in 1 .. n /\ (k + 1) - 1 = k
      BY <1>1, <1>5
    <3>2. SumUpTo(sums)[k + 1] = SumUpTo(sums)[(k + 1) - 1] + sums[k + 1]
      BY <1>3, <3>1, SumUpToDef
    <3>3. sums[k + 1] = T!SumOf(PairsWith(k + 1))
      BY <1>3, <3>1
    <3>4. T!SumOf(PairsWith(k + 1)) = k * (a * b) - a * sy(k) - b * sx(k) + sxy(k)
      BY <1>2, <1>5
    <3> HIDE DEF a, b, sx, sy, sxy
    <3> QED BY <3>1, <3>2, <3>3, <3>4
  <2>3. SumUpTo(sums)[k] = Covariance(k)
    BY <1>1, <1>5
  <2> HIDE DEF a, b, sx, sy, sxy
  <2>4. (k + 1) * (sxy(k) + a * b) - (sx(k) + a) * (sy(k) + b)
          = (k * sxy(k) - sx(k) * sy(k)) + (k * (a * b) - a * sy(k) - b * sx(k) + sxy(k))
    <3> DEFINE s == sx(k)
               t == sy(k)
               u == sxy(k)
    <3> HIDE DEF Covariance, Q
    <3>1. /\ k \in Int /\ a \in Int /\ b \in Int /\ s \in Int /\ t \in Int /\ u \in Int
      BY <2>1
    <3> HIDE DEF s, t, u
    <3>2. (s + a) * (t + b) = s * t + b * s + a * t + a * b
      BY <3>1
    <3>3. (k + 1) * (u + a * b) = k * u + k * (a * b) + u + a * b
      BY <3>1
    <3>4. /\ s * t \in Int /\ b * s \in Int /\ a * t \in Int /\ a * b \in Int
          /\ k * u \in Int /\ k * (a * b) \in Int
      BY <3>1
    <3>5. (k + 1) * (u + a * b) - (s + a) * (t + b)
            = (k * u - s * t) + (k * (a * b) - a * t - b * s + u)
      BY <3>1, <3>2, <3>3, <3>4
    <3> QED BY <3>5 DEF s, t, u
  <2>5. Covariance(k + 1) = (k + 1) * (sxy(k) + a * b) - (sx(k) + a) * (sy(k) + b)
    BY <2>1, Zenon
  <2> QED BY <2>2, <2>3, <2>4, <2>5, Zenon
<1>6. \A k \in Nat : k \in Q => k + 1 \in Q
  BY <1>5
<1>7. n \in Q
  <2> HIDE DEF Q
  <2> QED BY <1>1, <1>4, <1>6, StatsConfigured, RSP!InductiveSet
<1>8. T!SumOf(sums) = Covariance(n)
  <2>1. n <= n
    BY <1>1
  <2>2. SumUpTo(sums)[n] = Covariance(n)
    BY <1>7, <2>1
  <2> HIDE DEF Covariance
  <2> QED BY <1>3, <2>2, SumIsSumUpToLen
<1>9. T!PairSum(xs, ys) = T!SumOf(sums)
  BY DEF T!PairSum, sums, PairsWith
<1>10. /\ T!SumOf(xs) = sx(n) /\ T!SumOf(ys) = sy(n)
       /\ T!SumOf(T!Products(xs, ys)) = sxy(n)
  <2>1. Len(T!Products(xs, ys)) = n
    BY ProductSeq
  <2>2. /\ T!SumOf(xs) = SumUpTo(xs)[Len(xs)] /\ T!SumOf(ys) = SumUpTo(ys)[Len(ys)]
        /\ T!SumOf(T!Products(xs, ys))
             = SumUpTo(T!Products(xs, ys))[Len(T!Products(xs, ys))]
    BY SumIsSumUpToLen, Zenon
  <2> QED BY <2>1, <2>2
<1> HIDE DEF Q, sums, sx, sy, sxy
<1> QED BY <1>8, <1>9, <1>10
-----------------------------------------------------------------------------
(* The slope is a quotient with a positive divisor, whatever the points,   *)
(* those at one time included.                                             *)
Point == [x : Int, y : Int]

LEMMA FitConstants ==
  /\ {WindowSize, CoefNum, CoefDen, Gain, CountCap, TicksPerUs * UsPerMs} \subseteq Nat \ {0}
  /\ CoefNum < CoefDen
BY PipelineAssumption DEF T!FitAssumption

LEMMA Coordinates ==
  ASSUME NEW points \in Seq(Point)
  PROVE  /\ T!Xs(points) \in Seq(Int) /\ T!Ys(points) \in Seq(Int)
         /\ Len(T!Xs(points)) = Len(points) /\ Len(T!Ys(points)) = Len(points)
         /\ Len(points) \in Nat
<1>1. Len(points) \in Nat /\ DOMAIN points = 1 .. Len(points)
  BY LenProperties
<1>2. \A i \in 1 .. Len(points) : points[i].x \in Int /\ points[i].y \in Int
  <2>1. \A i \in 1 .. Len(points) : points[i] \in Point
    BY ElementOfSeq
  <2> QED BY <2>1 DEF Point
<1>3. T!Xs(points) \in [1 .. Len(points) -> Int] /\ T!Ys(points) \in [1 .. Len(points) -> Int]
  BY <1>1, <1>2 DEF T!Xs, T!Ys
<1> QED BY <1>1, <1>3, FunctionIsSeq

LEMMA SlopeHasDivisor ==
  ASSUME NEW points \in Seq(Point)
  PROVE  T!LinearFitSlope(points).num \in Int /\ T!LinearFitSlope(points).den \in Nat \ {0}
<1> DEFINE xs == T!Xs(points)
           ys == T!Ys(points)
<1>1. Len(points) \in Nat
  BY Coordinates
<1>2. /\ xs \in Seq(Int) /\ ys \in Seq(Int)
      /\ Len(xs) = Len(points) /\ Len(ys) = Len(points)
  BY Coordinates
<1> HIDE DEF xs, ys
<1>3. T!Numerator(points) \in Int
  <2>1. T!Products(xs, ys) \in Seq(Int)
    BY <1>2, ProductSeq
  <2>2. T!SumOf(T!Products(xs, ys)) \in Int /\ T!SumOf(xs) \in Int /\ T!SumOf(ys) \in Int
    BY <1>2, <2>1, SumIsInt
  <2>3. T!Numerator(points)
          = Len(points) * T!SumOf(T!Products(xs, ys)) - T!SumOf(xs) * T!SumOf(ys)
    BY DEF T!Numerator, xs, ys
  <2> QED BY <1>1, <2>2, <2>3
<1>4. T!Denominator(points) \in Nat
  <2>1. T!Denominator(points)
          = Len(xs) * T!SumOf(T!Products(xs, xs)) - T!SumOf(xs) * T!SumOf(xs)
    BY <1>2 DEF T!Denominator, xs
  <2> QED BY <1>2, <2>1, VarianceIsNat
<1>5. CASE Len(points) < 2 \/ T!Denominator(points) = 0
  BY <1>5 DEF T!LinearFitSlope, T!Zero
<1>6. CASE ~(Len(points) < 2 \/ T!Denominator(points) = 0)
  <2>1. T!LinearFitSlope(points)
          = [num |-> T!Numerator(points), den |-> T!Denominator(points)]
    BY <1>6 DEF T!LinearFitSlope
  <2> QED BY <1>3, <1>4, <1>6, <2>1
<1> QED BY <1>5, <1>6

LEMMA TrendIsQuotient ==
  ASSUME NEW t, t.history \in Seq(Point), t.numDeltas \in Nat
  PROVE  T!Trend(t).num \in Int /\ T!Trend(t).den \in Nat \ {0}
<1> DEFINE slope == T!LinearFitSlope(t.history)
           count == T!MinOf(t.numDeltas, CountCap)
<1>1. slope.num \in Int /\ slope.den \in Nat \ {0}
  BY SlopeHasDivisor
<1>2. count \in Int /\ Gain \in Int
  BY FitConstants DEF T!MinOf
<1>3. T!Trend(t) = [slope EXCEPT !.num = count * slope.num * Gain]
  BY DEF T!Trend
<1>4. DOMAIN slope = {"num", "den"}
  <2>1. CASE slope = T!Zero
    BY <2>1 DEF T!Zero
  <2>2. CASE slope = [num |-> T!Numerator(t.history), den |-> T!Denominator(t.history)]
    <3> HIDE DEF slope
    <3> QED BY <2>2
  <2> QED BY <2>1, <2>2 DEF T!LinearFitSlope
<1> HIDE DEF slope, count
<1>5. count * slope.num * Gain \in Int
  BY <1>1, <1>2
<1> QED BY <1>1, <1>3, <1>4, <1>5

-----------------------------------------------------------------------------
(* The points of a path without queueing lie on the axis, so their slope   *)
(* is zero and its divisor positive.                                       *)
FlatPoint == [x : Int, y : {0}]
FlatLine == [history : Seq(FlatPoint), smoothedDelay : {0}, numDeltas : Nat, firstArrival : Int]

LEMMA FlatPoints ==
  ASSUME NEW points \in Seq(FlatPoint)
  PROVE  /\ T!Xs(points) \in Seq(Int) /\ T!Ys(points) \in Seq(Int)
         /\ Len(T!Xs(points)) = Len(points) /\ Len(T!Ys(points)) = Len(points)
         /\ \A i \in 1 .. Len(points) : T!Ys(points)[i] = 0
<1>1. Len(points) \in Nat /\ DOMAIN points = 1 .. Len(points)
  BY LenProperties
<1>2. \A i \in 1 .. Len(points) : points[i] \in FlatPoint
  BY ElementOfSeq
<1>3. \A i \in 1 .. Len(points) : points[i].x \in Int /\ points[i].y = 0
  BY <1>2 DEF FlatPoint
<1>4. /\ T!Xs(points) = [i \in 1 .. Len(points) |-> points[i].x]
      /\ T!Ys(points) = [i \in 1 .. Len(points) |-> points[i].y]
  BY <1>1 DEF T!Xs, T!Ys
<1>5. T!Xs(points) \in [1 .. Len(points) -> Int] /\ T!Ys(points) \in [1 .. Len(points) -> Int]
  BY <1>3, <1>4
<1>6. \A i \in 1 .. Len(points) : T!Ys(points)[i] = 0
  BY <1>3, <1>4
<1> QED BY <1>1, <1>5, <1>6, FunctionIsSeq

LEMMA FlatSlope ==
  ASSUME NEW points \in Seq(FlatPoint)
  PROVE  T!LinearFitSlope(points).num = 0 /\ T!LinearFitSlope(points).den \in Nat \ {0}
<1> DEFINE xs == T!Xs(points)
           ys == T!Ys(points)
<1>1. /\ xs \in Seq(Int) /\ ys \in Seq(Int) /\ Len(points) \in Nat
      /\ Len(xs) = Len(points) /\ Len(ys) = Len(points)
      /\ \A i \in 1 .. Len(points) : ys[i] = 0
  BY FlatPoints, LenProperties
<1>2. T!Numerator(points) = 0
  <2>1. \A i \in 1 .. Len(points) : xs[i] \in Int
    BY <1>1, TermTypes
  <2>2. T!Products(xs, ys) \in Seq(Int) /\ Len(T!Products(xs, ys)) = Len(points)
        /\ \A i \in 1 .. Len(points) : T!Products(xs, ys)[i] = xs[i] * ys[i]
    BY <1>1, ProductSeq
  <2>3. \A i \in 1 .. Len(points) : T!Products(xs, ys)[i] = 0
    BY <1>1, <2>1, <2>2
  <2>4. T!SumOf(T!Products(xs, ys)) = 0 /\ T!SumOf(ys) = 0
    BY <1>1, <2>2, <2>3, SumOfZeros
  <2>5. T!SumOf(xs) \in Int
    BY <1>1, SumIsInt
  <2>6. T!Numerator(points)
          = Len(points) * T!SumOf(T!Products(xs, ys)) - T!SumOf(xs) * T!SumOf(ys)
    BY DEF T!Numerator
  <2> HIDE DEF xs, ys
  <2> QED BY <1>1, <2>4, <2>5, <2>6
<1> HIDE DEF xs, ys
<1>3. T!LinearFitSlope(points).den \in Nat \ {0}
  <2>1. points \in Seq(Point)
    <3>1. FlatPoint \subseteq Point
      BY DEF FlatPoint, Point
    <3> QED BY <3>1
  <2> QED BY <2>1, SlopeHasDivisor
<1>4. T!LinearFitSlope(points) = T!Zero \/ T!LinearFitSlope(points).num = T!Numerator(points)
  BY DEF T!LinearFitSlope
<1> QED BY <1>2, <1>3, <1>4 DEF T!Zero

LEMMA FlatTrend ==
  ASSUME NEW t \in FlatLine
  PROVE  T!Trend(t).num = 0 /\ T!Trend(t).den \in Nat \ {0}
<1> DEFINE slope == T!LinearFitSlope(t.history)
           count == T!MinOf(t.numDeltas, CountCap)
<1>1. slope.num = 0 /\ slope.den \in Nat \ {0}
  BY FlatSlope DEF FlatLine
<1>2. count \in Int /\ Gain \in Int
  BY FitConstants DEF T!MinOf, FlatLine
<1>3. T!Trend(t) = [slope EXCEPT !.num = count * slope.num * Gain]
  BY DEF T!Trend
<1>4. DOMAIN slope = {"num", "den"}
  <2>1. CASE slope = T!Zero
    BY <2>1 DEF T!Zero
  <2>2. CASE slope = [num |-> T!Numerator(t.history), den |-> T!Denominator(t.history)]
    <3> HIDE DEF slope
    <3> QED BY <2>2
  <2> QED BY <2>1, <2>2 DEF T!LinearFitSlope
<1> HIDE DEF slope, count
<1>5. count * slope.num * Gain = 0
  BY <1>1, <1>2
<1> QED BY <1>1, <1>3, <1>4, <1>5

LEMMA FlatStays ==
  ASSUME NEW t \in FlatLine, NEW at \in Int
  PROVE  T!TrendUpdated(t, at, 0) \in FlatLine
<1> DEFINE first == IF t.firstArrival = T!NoArrival THEN at ELSE t.firstArrival
           point == [x |-> T!ToMs(at - first), y |-> 0]
           longer == Append(t.history, point)
<1>1. t.history \in Seq(FlatPoint) /\ t.smoothedDelay = 0 /\ t.numDeltas \in Nat
      /\ first \in Int
  BY DEF FlatLine
<1>2. T!Smoothed(0, 0) = 0
  <2>1. CoefNum \in Int /\ CoefDen \in Nat \ {0}
    BY FitConstants
  <2>2. CoefNum * 0 + (CoefDen - CoefNum) * 0 = 0
    BY <2>1
  <2>3. 0 \div CoefDen = 0
    BY <2>1
  <2> QED BY <2>2, <2>3 DEF T!Smoothed
<1>3. point \in FlatPoint
  <2> DEFINE ticks == at - first
             perMs == TicksPerUs * UsPerMs
  <2>1. ticks \in Int /\ -ticks \in Int /\ perMs \in Nat \ {0}
    BY <1>1, FitConstants
  <2> HIDE DEF ticks, perMs
  <2>2. ticks \div perMs \in Int /\ (-ticks) \div perMs \in Int
    BY <2>1, DivisionFacts
  <2>3. T!ToMs(ticks) \in Int
    BY <2>2 DEF T!ToMs, perMs
  <2> QED BY <2>3 DEF FlatPoint, ticks
<1>4. T!TrendUpdated(t, at, 0) =
        [history |-> T!KeptWindow(longer), smoothedDelay |-> 0,
         numDeltas |-> t.numDeltas + 1, firstArrival |-> first]
  BY <1>1, <1>2 DEF T!TrendUpdated
<1> HIDE DEF point, first
<1>5. longer \in Seq(FlatPoint) /\ longer # <<>>
  BY <1>1, <1>3, AppendProperties, EmptySeq
<1> HIDE DEF longer
<1>6. T!KeptWindow(longer) \in Seq(FlatPoint)
  BY <1>5 DEF T!KeptWindow
<1> QED BY <1>1, <1>4, <1>6 DEF FlatLine
-----------------------------------------------------------------------------
(* A path of constant one-way delay: every measurement is zero, either     *)
(* filter answers zero, and the detector never leaves Normal.              *)
Steady == \A i, j \in DOMAIN oneWay : oneWay[i] = oneWay[j]

AtRest ==
  /\ \A i \in DOMAIN inputs : inputs[i].variation = 0
  /\ kf.estimate = 0
  /\ tl \in FlatLine
  /\ trend.num = 0 /\ trend.den \in Nat \ {0}
  /\ det \in DetectorType /\ det.hypothesis = "Normal"

SteadyInv ==
  /\ now \in Nat
  /\ Unambiguous /\ Steady => AtRest

(* An estimate of zero is within a threshold that is never negative.       *)
LEMMA DetectorAtRest ==
  ASSUME NEW old \in DetectorType, NEW t \in Nat
  PROVE  OD!Detected(old, 0, t).hypothesis = "Normal"
<1> DEFINE u == OD!UpdateThreshold(old, 0, t)
           c == OD!Classify(u, 0, t)
<1>1. u \in DetectorType
  BY AdaptedDetector
<1> HIDE DEF u
<1>2. u.threshold \in Nat
  BY <1>1, ThresholdsAreNat DEF DetectorType
<1>3. ~(0 > u.threshold) /\ ~(0 < -u.threshold)
  BY <1>2
<1>4. c = [u EXCEPT !.inOveruseRegion = FALSE, !.hypothesis = "Normal"]
  BY <1>3 DEF OD!Classify
<1>5. c \in DetectorType /\ c.hypothesis = "Normal"
  BY <1>1, <1>4 DEF DetectorType, OD!Usages
<1>6. OD!Detected(old, 0, t) = [c EXCEPT !.prevEstimate = 0]
  BY DEF OD!Detected, u
<1> HIDE DEF c
<1> QED BY <1>5, <1>6 DEF DetectorType

LEMMA SteadyMeasuresZero ==
  ASSUME DelayInv, DInv', NEW gap \in ArrivalGaps, NEW sendGap \in SendGaps,
         OnPacket(gap, sendGap), measured'.hasResult,
         -HalfRange < sent' - sent, sent' - sent < HalfRange,
         arrival' * UnitDen - sent' * UnitNum = oneWay[Len(oneWay)]
  PROVE  DelayMs(measured'.delayVariation) = 0
<1> DEFINE change == (arrival' * UnitDen - sent' * UnitNum) - oneWay[Len(oneWay)]
           v == measured'.delayVariation
<1>1. /\ v \in Int /\ change \in Int /\ oneWay[Len(oneWay)] \in Int
      /\ -UnitDen < change - v * UnitDen /\ change - v * UnitDen < UnitDen
  BY MeasuredNearChange
<1>2. UnitDen \in Nat \ {0} /\ arrival' * UnitDen - sent' * UnitNum \in Int
  BY ConfigAssumption DEF DInv, IInv
<1>3. change = 0
  BY <1>1, <1>2
<1> HIDE DEF v, change
<1>4. v <= 0
  BY <1>1, <1>2, <1>3, WithinTickOfFall
<1>5. -v <= 0
  <2>1. (-v) * UnitDen = -(v * UnitDen) /\ v * UnitDen \in Int
    BY <1>1, <1>2
  <2>2. -UnitDen < 0 - (-v) * UnitDen
    BY <1>1, <1>2, <1>3, <2>1
  <2>3. -v \in Int
    BY <1>1
  <2> QED BY <1>2, <2>2, <2>3, WithinTickOfFall
<1>6. v = 0
  BY <1>1, <1>4, <1>5
<1>7. 0 \div TicksPerUs = 0 /\ UnitsPerUs * 0 = 0
  BY FilterConstants
<1>8. DelayMs(0) = 0
  BY <1>7 DEF DelayMs
<1> QED BY <1>6, <1>8 DEF v

(* A steady history was steady before its last packet, which is like the   *)
(* one before.                                                             *)
LEMMA SteadyBefore ==
  ASSUME oneWay \in Seq(Int), NEW last \in Int, oneWay' = Append(oneWay, last), Steady'
  PROVE  Steady /\ (Len(oneWay) > 0 => last = oneWay[Len(oneWay)])
<1> DEFINE n == Len(oneWay)
<1>1. n \in Nat /\ DOMAIN oneWay = 1 .. n /\ DOMAIN oneWay' = 1 .. n + 1
  OBVIOUS
<1>2. /\ \A i \in 1 .. n : oneWay'[i] = oneWay[i]
      /\ oneWay'[n + 1] = last
  OBVIOUS
<1> HIDE DEF n
<1>3. Steady
  <2>1. ASSUME NEW i \in 1 .. n, NEW j \in 1 .. n
        PROVE  oneWay[i] = oneWay[j]
    <3>1. i \in 1 .. n + 1 /\ j \in 1 .. n + 1
      BY <1>1
    <3>2. oneWay'[i] = oneWay'[j]
      BY <1>1, <3>1 DEF Steady
    <3> QED BY <1>2, <3>2
  <2> QED BY <1>1, <2>1 DEF Steady
<1>4. ASSUME n > 0 PROVE last = oneWay[n]
  <2>1. n \in 1 .. n /\ n \in 1 .. n + 1 /\ n + 1 \in 1 .. n + 1
    BY <1>1, <1>4
  <2>2. oneWay'[n] = oneWay'[n + 1]
    BY <1>1, <2>1 DEF Steady
  <2> QED BY <1>2, <2>1, <2>2
<1> QED BY <1>3, <1>4 DEF n

(* The pipeline at rest stays there through a measurement of zero.         *)
LEMMA RestMeasured ==
  ASSUME KInv, AtRest, now' \in Nat, NEW at \in Int, Filter(at, 0), UNCHANGED filterType,
         det' = OD!Detected(det, Estimate(kf', trend'), now'),
         NEW call, call.variation = 0, inputs' = Append(inputs, call), inputs' \in Seq(CallType)
  PROVE  AtRest'
<1>1. \A i \in DOMAIN inputs' : inputs'[i].variation = 0
  <2>1. inputs \in Seq(CallType)
    BY DEF KInv
  <2>2. /\ Len(inputs) \in Nat /\ DOMAIN inputs = 1 .. Len(inputs)
        /\ DOMAIN inputs' = 1 .. Len(inputs) + 1 /\ inputs'[Len(inputs) + 1] = call
        /\ \A i \in 1 .. Len(inputs) : inputs'[i] = inputs[i]
    BY <2>1
  <2> QED BY <2>2 DEF AtRest
<1>2. kf'.estimate = 0
  <2>1. CASE filterType = "Kalman"
    <3>1. kf' = K!KalmanUpdated(kf, 0) /\ kf.estimate = 0
      BY <2>1 DEF Filter, AtRest
    <3>2. kf \in [estimate : Int, errorCov : Nat, measureNoise : Nat] /\ kf.measureNoise >= One
      BY DEF KInv
    <3> DEFINE n == K!KalmanUpdated(kf, 0)
    <3>3. /\ n \in [estimate : Int, errorCov : Nat, measureNoise : Nat]
          /\ 0 >= kf.estimate => kf.estimate <= n.estimate /\ n.estimate <= 0
      BY <3>2, KalmanStep
    <3> HIDE DEF n
    <3>4. n.estimate \in Int /\ 0 <= n.estimate /\ n.estimate <= 0
      BY <3>1, <3>3
    <3>5. n.estimate = 0
      BY <3>4
    <3> QED BY <3>1, <3>5 DEF n
  <2>2. CASE filterType # "Kalman"
    BY <2>2 DEF Filter, AtRest
  <2> QED BY <2>1, <2>2
<1>3. tl' \in FlatLine /\ trend'.num = 0 /\ trend'.den \in Nat \ {0}
  <2>1. CASE filterType = "Kalman"
    BY <2>1 DEF Filter, AtRest
  <2>2. CASE filterType # "Kalman"
    <3>1. tl' = T!TrendUpdated(tl, at, 0) /\ trend' = T!Trend(tl') /\ tl \in FlatLine
      BY <2>2 DEF Filter, AtRest
    <3>2. tl' \in FlatLine
      BY <3>1, FlatStays
    <3> QED BY <3>1, <3>2, FlatTrend
  <2> QED BY <2>1, <2>2
<1>4. 0 \div trend'.den = 0
  BY <1>3
<1>5. Estimate(kf', trend') = 0
  BY <1>2, <1>3, <1>4 DEF Estimate
<1>6. det' = OD!Detected(det, 0, now') /\ det \in DetectorType
  BY <1>5 DEF AtRest
<1>7. det' \in DetectorType /\ det'.hypothesis = "Normal"
  BY <1>6, DetectorStep, DetectorAtRest
<1> QED BY <1>1, <1>2, <1>3, <1>7 DEF AtRest

LEMMA NewPipelineAtRest ==
  /\ K!NewKalmanFilter.estimate = 0
  /\ T!NewTrendlineEstimator \in FlatLine
  /\ T!Zero.num = 0 /\ T!Zero.den \in Nat \ {0}
  /\ OD!NewDetector \in DetectorType /\ OD!NewDetector.hypothesis = "Normal"
<1>1. K!NewKalmanFilter.estimate = 0
  BY DEF K!NewKalmanFilter
<1>2. T!NewTrendlineEstimator \in FlatLine
  BY EmptySeq DEF T!NewTrendlineEstimator, T!NoArrival, FlatLine
<1>3. T!Zero.num = 0 /\ T!Zero.den \in Nat \ {0}
  BY DEF T!Zero
<1>4. OD!NewDetector \in DetectorType /\ OD!NewDetector.hypothesis = "Normal"
  BY ThresholdsAreNat DEF OD!NewDetector, DetectorType, OD!Usages
<1> QED BY <1>1, <1>2, <1>3, <1>4

LEMMA SteadyInvInit == DelayInit => SteadyInv
BY NewPipelineAtRest DEF DelayInit, SteadyInv, AtRest

LEMMA SteadyInvOnPacket ==
  ASSUME SteadyInv, DelayInv, KInv, DelayInv', KInv',
         NEW gap \in ArrivalGaps, NEW sendGap \in SendGaps, OnPacket(gap, sendGap)
  PROVE  SteadyInv'
<1> DEFINE last == arrival' * UnitDen - sent' * UnitNum
<1>1. now' \in Nat /\ UNCHANGED filterType
  <2>1. arrival' \in Nat
    BY ConfigAssumption DEF OnPacket, AddPacket
  <2> QED BY <2>1 DEF OnPacket, SteadyInv
<1>2. last \in Int /\ oneWay \in Seq(Int) /\ oneWay' = Append(oneWay, last)
  BY ConfigAssumption DEF OnPacket, DelayInv, DInv, IInv
<1> HIDE DEF last
<1>3. SUFFICES ASSUME Unambiguous', Steady' PROVE AtRest'
  BY <1>1 DEF SteadyInv
<1>4. Steady /\ (Len(oneWay) > 0 => last = oneWay[Len(oneWay)])
  BY <1>2, <1>3, SteadyBefore
<1>5. CASE ~measured'.hasResult
  <2>1. UNCHANGED <<kf, tl, trend, det, inputs>>
    BY <1>5 DEF OnPacket, pipeline
  <2>2. Unambiguous
    BY <1>3, <2>1 DEF Unambiguous
  <2>3. AtRest
    BY <1>4, <2>2 DEF SteadyInv
  <2> QED BY <2>1, <2>3 DEF AtRest
<1>6. CASE measured'.hasResult
  <2> DEFINE variation == DelayMs(measured'.delayVariation)
             call == [at |-> arrival', variation |-> variation,
                      sendDelta |-> truth'.currentFirst - truth'.previousLast]
  <2>1. /\ Filter(arrival', variation)
        /\ det' = OD!Detected(det, Estimate(kf', trend'), now')
        /\ inputs' = Append(inputs, call)
    BY <1>6 DEF OnPacket
  <2>2. call.variation = variation /\ call.sendDelta = truth'.currentFirst - truth'.previousLast
    OBVIOUS
  <2>3. inputs \in Seq(CallType) /\ inputs' \in Seq(CallType) /\ arrival' \in Int
    BY DEF KInv
  <2> HIDE DEF call, variation
  <2>4. /\ DOMAIN inputs' = 1 .. Len(inputs) + 1 /\ inputs'[Len(inputs) + 1] = call
        /\ \A i \in DOMAIN inputs : i \in DOMAIN inputs' /\ inputs'[i] = inputs[i]
        /\ DOMAIN inputs = 1 .. Len(inputs) /\ Len(inputs) \in Nat
    BY <2>1, <2>3
  <2>5. Unambiguous /\ -HalfRange < call.sendDelta /\ call.sendDelta < HalfRange
    BY <1>3, <2>4 DEF Unambiguous
  <2>6. AtRest
    BY <1>4, <2>5 DEF SteadyInv
  <2>7. ia.current # NoGroup /\ truth' = [previousLast |-> sent, currentFirst |-> sent']
    <3>1. ia' = Added(ia, arrival', sent' % AbsSendTimeMax)
          /\ measured' = Result(ia, ia', arrival')
          /\ truth' = IF BelongsToBurst(ia, arrival') THEN truth
                      ELSE [previousLast |-> sent, currentFirst |-> sent']
      BY DEF OnPacket, AddPacket
    <3>2. ~BelongsToBurst(ia, arrival') /\ ia'.previous # NoGroup
      BY <1>6, <3>1 DEF Result, NoResult
    <3> QED BY <3>1, <3>2 DEF Added
  <2>8. variation = 0
    <3>1. call.sendDelta = sent' - sent
      BY <2>2, <2>7
    <3>2. last = oneWay[Len(oneWay)]
      BY <1>4, <2>7 DEF DelayInv
    <3>3. DInv'
      BY DEF DelayInv
    <3> QED BY <1>6, <2>5, <3>1, <3>2, <3>3, SteadyMeasuresZero DEF last, variation
  <2> QED BY <1>1, <2>1, <2>2, <2>3, <2>6, <2>8, RestMeasured
<1> QED BY <1>5, <1>6

LEMMA SteadyInvStep ==
  SteadyInv /\ DelayInv /\ KInv /\ DelayInv' /\ KInv' /\ [DelayNext]_delayVars => SteadyInv'
<1> SUFFICES ASSUME SteadyInv, DelayInv, KInv, DelayInv', KInv', [DelayNext]_delayVars
             PROVE  SteadyInv'
  OBVIOUS
<1>1. ASSUME NEW p \in Packets, OnPacket(p[1], p[2]) PROVE SteadyInv'
  <2>1. p[1] \in ArrivalGaps /\ p[2] \in SendGaps
    BY PipelineAssumption
  <2> QED BY <1>1, <2>1, SteadyInvOnPacket
<1>2. CASE ResetAll
  <2>1. AtRest'
    BY <1>2, NewPipelineAtRest DEF ResetAll, AtRest
  <2> QED BY <1>2, <2>1 DEF SteadyInv, ResetAll
<1>3. CASE UNCHANGED delayVars
  BY <1>3 DEF delayVars, vars, pipeline, SteadyInv, AtRest, Unambiguous, Steady
<1> QED BY <1>1, <1>2, <1>3 DEF DelayNext

(* With either filter a path of constant one-way delay is Normal and its   *)
(* gradient zero: bursts, late packets, wraps of the counter, truncation   *)
(* and Resets never make up a signal (estimator.go:147).                   *)
THEOREM SteadyPathStaysNormal == DelaySpec => []SteadyPathIsNormal
<1>1. DelayInit => KInv /\ DelayInv /\ SteadyInv
  BY KInvInit, DelayInvInit, SteadyInvInit
<1>2. KInv /\ DelayInv /\ SteadyInv /\ [DelayNext]_delayVars
        => KInv' /\ DelayInv' /\ SteadyInv'
  BY KInvStep, DelayInvStep, SteadyInvStep
<1>3. SteadyInv => SteadyPathIsNormal
  <2> SUFFICES ASSUME SteadyInv, Unambiguous, Steady
               PROVE  det.hypothesis = "Normal" /\ Estimate(kf, trend) = 0
    BY DEF SteadyPathIsNormal, Steady
  <2>1. AtRest
    BY DEF SteadyInv
  <2>2. trend.num = 0 /\ 0 \div trend.den = 0
    BY <2>1 DEF AtRest
  <2> QED BY <2>1, <2>2 DEF AtRest, Estimate
<1> QED BY <1>1, <1>2, <1>3, PTL DEF DelaySpec
-----------------------------------------------------------------------------
(* What the trendline computes, for every configuration: its history holds *)
(* the last calls, in order, timed from the first one since Reset, with    *)
(* the delays smoothed over all calls since then; its slope has a divisor. *)
IsSmoothing(delay, calls) ==
  /\ delay \in [0 .. Len(calls) -> Int] /\ delay[0] = 0
  /\ \A k \in 1 .. Len(calls) : delay[k] = T!Smoothed(delay[k - 1], calls[k].variation)

Matches(points, calls, delay) ==
  LET h == Len(points)
      n == Len(calls)
  IN  /\ h <= n
      /\ \A i \in 1 .. h :
           points[i] = [x |-> T!ToMs(calls[n - h + i].at - calls[1].at), y |-> delay[n - h + i]]

TrendFollowsCalls ==
  filterType = "Trendline" =>
    /\ Len(tl.history) = T!MinOf(Len(inputs), WindowSize)
    /\ \E delay : /\ IsSmoothing(delay, inputs) /\ Matches(tl.history, inputs, delay)
                  /\ tl.smoothedDelay = delay[Len(inputs)]
    /\ tl.numDeltas = Len(inputs)
    /\ trend = T!Trend(tl) /\ trend.den \in Nat \ {0}

TrendInv ==
  filterType = "Trendline" =>
    /\ tl.history \in Seq(Point) /\ tl.smoothedDelay \in Int
    /\ inputs = <<>> => tl = T!NewTrendlineEstimator
    /\ inputs # <<>> => tl.firstArrival = inputs[1].at /\ tl.firstArrival \in Nat
    /\ TrendFollowsCalls

LEMMA PointOfCall ==
  ASSUME NEW old \in Int, NEW variation \in Int, NEW ticks \in Int
  PROVE  T!Smoothed(old, variation) \in Int /\ T!ToMs(ticks) \in Int
<1> DEFINE perMs == TicksPerUs * UsPerMs
           mix == CoefNum * old + (CoefDen - CoefNum) * variation
<1>1. perMs \in Nat \ {0} /\ CoefDen \in Nat \ {0} /\ -ticks \in Int
  BY FitConstants
<1>2. mix \in Int
  BY FitConstants
<1> HIDE DEF perMs, mix
<1>3. mix \div CoefDen \in Int /\ ticks \div perMs \in Int /\ (-ticks) \div perMs \in Int
  BY <1>1, <1>2, DivisionFacts
<1> QED BY <1>3 DEF T!Smoothed, T!ToMs, perMs, mix

(* A point appended for a call appended keeps the match. *)
LEMMA AppendMatches ==
  ASSUME NEW points \in Seq(Point), NEW calls \in Seq(CallType), NEW delay,
         IsSmoothing(delay, calls), Matches(points, calls, delay),
         NEW point \in Point, NEW call \in CallType,
         point = [x |-> T!ToMs(call.at - Append(calls, call)[1].at),
                  y |-> T!Smoothed(delay[Len(calls)], call.variation)]
  PROVE  \E more : /\ IsSmoothing(more, Append(calls, call))
                   /\ Matches(Append(points, point), Append(calls, call), more)
                   /\ more[Len(calls) + 1] = point.y
<1> DEFINE h == Len(points)
           n == Len(calls)
           longer == Append(points, point)
           all == Append(calls, call)
           last == T!Smoothed(delay[n], call.variation)
           more == [i \in 0 .. n + 1 |-> IF i = n + 1 THEN last ELSE delay[i]]
<1>1. /\ h \in Nat /\ n \in Nat /\ h <= n
      /\ Len(longer) = h + 1 /\ longer[h + 1] = point /\ \A i \in 1 .. h : longer[i] = points[i]
      /\ Len(all) = n + 1 /\ all[n + 1] = call /\ \A i \in 1 .. n : all[i] = calls[i]
  BY AppendProperties, LenProperties DEF Matches
<1>2. /\ delay \in [0 .. n -> Int] /\ delay[0] = 0
      /\ \A k \in 1 .. n : delay[k] = T!Smoothed(delay[k - 1], calls[k].variation)
  BY DEF IsSmoothing
<1>3. \A i \in 1 .. h :
        points[i] = [x |-> T!ToMs(calls[n - h + i].at - calls[1].at), y |-> delay[n - h + i]]
  BY DEF Matches
<1>4. point = [x |-> T!ToMs(call.at - all[1].at), y |-> last]
  OBVIOUS
<1>5. last \in Int
  <2>1. call.variation \in Int
    BY DEF CallType
  <2> HIDE DEF n
  <2>2. delay[n] \in Int
    BY <1>1, <1>2
  <2> QED BY <2>1, <2>2, PointOfCall
<1> HIDE DEF h, n, longer, all, last
<1>6. more[n + 1] = last /\ \A i \in 0 .. n : more[i] = delay[i]
  BY <1>1
<1>7. more \in [0 .. n + 1 -> Int]
  BY <1>1, <1>2, <1>5
<1> HIDE DEF more
<1>8. ASSUME NEW k \in 1 .. n + 1
      PROVE  more[k] = T!Smoothed(more[k - 1], all[k].variation)
  <2>1. CASE k = n + 1
    <3>1. k - 1 = n /\ n \in 0 .. n
      BY <1>1, <2>1
    <3>2. more[k - 1] = delay[n] /\ all[k] = call
      BY <1>1, <1>6, <2>1, <3>1
    <3> QED BY <1>6, <2>1, <3>2 DEF last
  <2>2. CASE k \in 1 .. n
    <3>1. k - 1 \in 0 .. n /\ k \in 0 .. n
      BY <1>1, <2>2
    <3>2. more[k] = delay[k] /\ more[k - 1] = delay[k - 1] /\ all[k] = calls[k]
      BY <1>1, <1>6, <2>2, <3>1
    <3> QED BY <1>2, <2>2, <3>2
  <2> QED BY <1>1, <2>1, <2>2
<1>9. ASSUME NEW i \in 1 .. h + 1
      PROVE  longer[i] = [x |-> T!ToMs(all[(n + 1) - (h + 1) + i].at - all[1].at),
                          y |-> more[(n + 1) - (h + 1) + i]]
  <2>1. CASE i = h + 1
    <3>1. (n + 1) - (h + 1) + i = n + 1
      BY <1>1, <2>1
    <3> QED BY <1>1, <1>4, <1>6, <2>1, <3>1
  <2>2. CASE i \in 1 .. h
    <3>1. /\ (n + 1) - (h + 1) + i = n - h + i /\ n - h + i \in 1 .. n /\ 1 \in 1 .. n
          /\ n - h + i \in 0 .. n
      BY <1>1, <2>2
    <3>2. /\ all[n - h + i] = calls[n - h + i] /\ all[1] = calls[1] /\ longer[i] = points[i]
          /\ more[n - h + i] = delay[n - h + i]
      BY <1>1, <1>6, <2>2, <3>1
    <3> QED BY <1>3, <2>2, <3>1, <3>2
  <2> QED BY <1>1, <2>1, <2>2
<1>10. IsSmoothing(more, all)
  <2>1. 0 \in 0 .. n
    BY <1>1
  <2> QED BY <1>1, <1>2, <1>6, <1>7, <1>8, <2>1 DEF IsSmoothing
<1>11. Matches(longer, all, more)
  <2>1. h + 1 <= n + 1
    BY <1>1
  <2> QED BY <1>1, <1>9, <2>1 DEF Matches
<1> QED BY <1>4, <1>6, <1>10, <1>11 DEF longer, all, n

(* So does dropping the oldest point. *)
LEMMA TailMatches ==
  ASSUME NEW points \in Seq(Point), NEW calls \in Seq(CallType), NEW delay,
         Matches(points, calls, delay), Len(points) > 0
  PROVE  Matches(Tail(points), calls, delay)
<1> DEFINE h == Len(points)
           n == Len(calls)
           rest == Tail(points)
<1>1. /\ h \in Nat \ {0} /\ n \in Nat /\ h <= n
      /\ Len(rest) = h - 1 /\ \A i \in 1 .. h - 1 : rest[i] = points[i + 1]
  BY HeadTailProperties, LenProperties, EmptySeq DEF Matches
<1>2. \A i \in 1 .. h :
        points[i] = [x |-> T!ToMs(calls[n - h + i].at - calls[1].at), y |-> delay[n - h + i]]
  BY DEF Matches
<1> HIDE DEF h, n, rest
<1>3. ASSUME NEW i \in 1 .. h - 1
      PROVE  rest[i] = [x |-> T!ToMs(calls[n - (h - 1) + i].at - calls[1].at),
                        y |-> delay[n - (h - 1) + i]]
  <2>1. i + 1 \in 1 .. h /\ n - (h - 1) + i = n - h + (i + 1)
    BY <1>1
  <2> QED BY <1>1, <1>2, <2>1
<1>4. h - 1 <= n
  BY <1>1
<1> QED BY <1>1, <1>3, <1>4 DEF Matches, rest, n

LEMMA CallKeepsTrend ==
  ASSUME KInv, TrendInv, filterType = "Trendline", UNCHANGED filterType,
         NEW call \in CallType, call.at \in Nat, inputs' = Append(inputs, call),
         tl' = T!TrendUpdated(tl, call.at, call.variation), trend' = T!Trend(tl')
  PROVE  TrendInv'
<1> DEFINE first == IF tl.firstArrival = T!NoArrival THEN call.at ELSE tl.firstArrival
           last == T!Smoothed(tl.smoothedDelay, call.variation)
           point == [x |-> T!ToMs(call.at - first), y |-> last]
           longer == Append(tl.history, point)
           n == Len(inputs)
           h == Len(tl.history)
<1>1. /\ tl.history \in Seq(Point) /\ tl.smoothedDelay \in Int
      /\ inputs = <<>> => tl = T!NewTrendlineEstimator
      /\ inputs # <<>> => tl.firstArrival = inputs[1].at /\ tl.firstArrival \in Nat
      /\ h = T!MinOf(n, WindowSize) /\ tl.numDeltas = n
  BY DEF TrendInv, TrendFollowsCalls
<1>2. PICK delay : /\ IsSmoothing(delay, inputs) /\ Matches(tl.history, inputs, delay)
                   /\ tl.smoothedDelay = delay[n]
  BY DEF TrendInv, TrendFollowsCalls
<1>3. inputs \in Seq(CallType) /\ call.at \in Int /\ call.variation \in Int
  BY DEF KInv, CallType
<1>4. /\ inputs' \in Seq(CallType) /\ Len(inputs') = n + 1 /\ n \in Nat /\ h \in Nat
      /\ inputs'[n + 1] = call /\ \A i \in 1 .. n : inputs'[i] = inputs[i]
      /\ inputs = <<>> <=> n = 0
  BY <1>1, <1>3, AppendProperties, LenProperties, EmptySeq
<1>5. first = inputs'[1].at /\ first \in Nat
  <2>1. CASE inputs = <<>>
    <3>1. tl.firstArrival = T!NoArrival /\ n + 1 = 1
      BY <1>1, <1>4, <2>1 DEF T!NewTrendlineEstimator
    <3> QED BY <1>4, <3>1
  <2>2. CASE inputs # <<>>
    <3>1. 1 \in 1 .. n /\ tl.firstArrival # T!NoArrival
      BY <1>1, <1>4, <2>2 DEF T!NoArrival
    <3> QED BY <1>1, <1>4, <2>2, <3>1
  <2> QED BY <2>1, <2>2
<1>6. last \in Int /\ T!ToMs(call.at - first) \in Int
  <2>1. last \in Int
    BY <1>1, <1>3, PointOfCall
  <2>2. call.at - first \in Int
    <3> HIDE DEF first
    <3> QED BY <1>3, <1>5
  <2> HIDE DEF first, last
  <2>3. T!ToMs(call.at - first) \in Int
    BY <2>2, PointOfCall
  <2> QED BY <2>1, <2>3
<1>7. tl' = [history |-> T!KeptWindow(longer), smoothedDelay |-> last,
             numDeltas |-> tl.numDeltas + 1, firstArrival |-> first]
  BY DEF T!TrendUpdated
<1>8. point \in Point /\ point.y = last
  BY <1>6 DEF Point
<1>9. point = [x |-> T!ToMs(call.at - Append(inputs, call)[1].at),
               y |-> T!Smoothed(delay[Len(inputs)], call.variation)]
  BY <1>2, <1>5
<1> HIDE DEF first, point
<1>10. PICK more : /\ IsSmoothing(more, inputs') /\ Matches(longer, inputs', more)
                   /\ more[n + 1] = last
  <2>1. \E more : /\ IsSmoothing(more, Append(inputs, call))
                  /\ Matches(longer, Append(inputs, call), more)
                  /\ more[n + 1] = point.y
    BY <1>1, <1>2, <1>3, <1>8, <1>9, AppendMatches
  <2> HIDE DEF last, longer, n
  <2> QED BY <1>8, <2>1
<1>11. longer \in Seq(Point) /\ Len(longer) = h + 1
  BY <1>1, <1>8, AppendProperties
<1> HIDE DEF last, longer, n, h
<1>12. WindowSize \in Nat /\ WindowSize >= 2
  BY PipelineAssumption DEF T!FitAssumption
<1>13. /\ T!KeptWindow(longer) \in Seq(Point)
       /\ Len(T!KeptWindow(longer)) = T!MinOf(n + 1, WindowSize)
       /\ Matches(T!KeptWindow(longer), inputs', more)
  <2>1. CASE h + 1 > WindowSize
    <3>1. T!KeptWindow(longer) = Tail(longer)
      BY <1>11, <2>1 DEF T!KeptWindow
    <3>2. h = WindowSize /\ T!MinOf(n + 1, WindowSize) = WindowSize
      BY <1>1, <1>4, <1>12, <2>1 DEF T!MinOf
    <3>3. longer # <<>>
      BY <1>4, <1>11, EmptySeq
    <3>4. Tail(longer) \in Seq(Point) /\ Len(Tail(longer)) = h
      BY <1>4, <1>11, <3>3, HeadTailProperties
    <3>5. Matches(Tail(longer), inputs', more)
      <4>1. Len(longer) > 0 /\ longer \in Seq(Point)
        BY <1>4, <1>11
      <4>2. inputs' \in Seq(CallType)
        BY <1>4
      <4> QED BY <1>10, <4>1, <4>2, TailMatches
    <3> QED BY <3>1, <3>2, <3>4, <3>5
  <2>2. CASE ~(h + 1 > WindowSize)
    <3>1. T!KeptWindow(longer) = longer
      BY <1>11, <2>2 DEF T!KeptWindow
    <3>2. T!MinOf(n + 1, WindowSize) = h + 1
      BY <1>1, <1>4, <1>12, <2>2 DEF T!MinOf
    <3> QED BY <1>10, <1>11, <3>1, <3>2
  <2> QED BY <2>1, <2>2
<1>14. /\ tl'.history = T!KeptWindow(longer) /\ tl'.smoothedDelay = last
       /\ tl'.numDeltas = n + 1 /\ tl'.firstArrival = first
  BY <1>1, <1>7
<1>15. trend'.den \in Nat \ {0}
  BY <1>4, <1>13, <1>14, TrendIsQuotient
<1>16. /\ IsSmoothing(more, inputs') /\ Matches(tl'.history, inputs', more)
       /\ tl'.smoothedDelay = more[Len(inputs')]
  BY <1>4, <1>10, <1>13, <1>14
<1>17. TrendFollowsCalls'
  BY <1>4, <1>13, <1>14, <1>15, <1>16 DEF TrendFollowsCalls
<1>18. inputs' # <<>>
  BY <1>4, EmptySeq
<1>19. tl'.smoothedDelay \in Int
  BY <1>6, <1>14
<1> QED BY <1>5, <1>13, <1>14, <1>17, <1>18, <1>19 DEF TrendInv

LEMMA NewTrend ==
  LET t == T!NewTrendlineEstimator
  IN  /\ t.history = <<>> /\ t.smoothedDelay = 0 /\ t.numDeltas = 0
      /\ Len(<<>>) = 0 /\ <<>> \in Seq(Point) /\ T!MinOf(0, WindowSize) = 0
      /\ \E delay : IsSmoothing(delay, <<>>) /\ Matches(<<>>, <<>>, delay) /\ delay[0] = 0
      /\ T!Trend(t) = T!Zero /\ T!Zero.den \in Nat \ {0}
<1> DEFINE t == T!NewTrendlineEstimator
           delay == [i \in 0 .. 0 |-> 0]
<1>1. /\ t.history = <<>> /\ t.smoothedDelay = 0 /\ t.numDeltas = 0
      /\ Len(<<>>) = 0 /\ <<>> \in Seq(Point)
  BY EmptySeq DEF T!NewTrendlineEstimator
<1>2. IsSmoothing(delay, <<>>) /\ Matches(<<>>, <<>>, delay) /\ delay[0] = 0
  BY <1>1 DEF IsSmoothing, Matches
<1> HIDE DEF t, delay
<1>3. T!Trend(t) = T!Zero
  <2>1. T!LinearFitSlope(<<>>) = T!Zero
    BY <1>1 DEF T!LinearFitSlope
  <2>2. T!MinOf(0, CountCap) \in Int /\ Gain \in Int
    BY FitConstants DEF T!MinOf
  <2>3. T!MinOf(0, CountCap) * 0 * Gain = 0
    BY <2>2
  <2> QED BY <1>1, <2>1, <2>3 DEF T!Trend, T!Zero
<1>4. T!MinOf(0, WindowSize) = 0
  BY FitConstants DEF T!MinOf
<1>5. T!Zero.den \in Nat \ {0}
  BY DEF T!Zero
<1> QED BY <1>1, <1>2, <1>3, <1>4, <1>5 DEF t

LEMMA TrendInvInit == DelayInit => TrendInv
<1> SUFFICES ASSUME DelayInit PROVE TrendInv
  OBVIOUS
<1>1. tl = T!NewTrendlineEstimator /\ trend = T!Zero /\ inputs = <<>>
  BY DEF DelayInit
<1>2. tl.history = <<>> /\ tl.smoothedDelay = 0 /\ tl.numDeltas = 0
  BY <1>1, NewTrend
<1>3. TrendFollowsCalls
  BY <1>1, <1>2, NewTrend DEF TrendFollowsCalls
<1> QED BY <1>1, <1>2, <1>3, NewTrend DEF TrendInv

LEMMA TrendInvStep == KInv /\ TrendInv /\ [DelayNext]_delayVars => TrendInv'
<1> SUFFICES ASSUME KInv, TrendInv, [DelayNext]_delayVars PROVE TrendInv'
  OBVIOUS
<1>1. ASSUME NEW p \in Packets, OnPacket(p[1], p[2]) PROVE TrendInv'
  <2> SUFFICES ASSUME filterType' = "Trendline" PROVE TrendInv'
    BY DEF TrendInv, TrendFollowsCalls
  <2>1. filterType = "Trendline" /\ UNCHANGED filterType
    BY <1>1 DEF OnPacket
  <2>2. CASE measured'.hasResult
    <3> DEFINE variation == DelayMs(measured'.delayVariation)
               call == [at |-> arrival', variation |-> variation,
                        sendDelta |-> truth'.currentFirst - truth'.previousLast]
    <3>1. p[1] \in ArrivalGaps /\ p[2] \in SendGaps /\ AddPacket(p[1], p[2])
      BY <1>1, PipelineAssumption DEF OnPacket
    <3>2. arrival' \in Nat
      BY <3>1, ConfigAssumption DEF AddPacket
    <3>3. variation \in Int /\ truth' \in [previousLast : Int, currentFirst : Int]
      BY <2>2, <3>1, CalculatorTypes
    <3>4. Filter(arrival', variation) /\ inputs' = Append(inputs, call)
      BY <1>1, <2>2 DEF OnPacket
    <3> HIDE DEF variation
    <3>5. call \in CallType /\ call.at = arrival' /\ call.variation = variation
      BY <3>2, <3>3 DEF CallType
    <3>6. tl' = T!TrendUpdated(tl, arrival', variation) /\ trend' = T!Trend(tl')
      BY <2>1, <3>4 DEF Filter
    <3> HIDE DEF call
    <3> QED BY <2>1, <3>2, <3>4, <3>5, <3>6, CallKeepsTrend
  <2>3. CASE ~measured'.hasResult
    <3>1. UNCHANGED <<tl, trend, inputs>>
      BY <1>1, <2>3 DEF OnPacket, pipeline
    <3> QED BY <2>1, <3>1 DEF TrendInv, TrendFollowsCalls
  <2> QED BY <2>2, <2>3
<1>2. CASE ResetAll
  BY <1>2, NewTrend DEF ResetAll, TrendInv, TrendFollowsCalls
<1>3. CASE UNCHANGED delayVars
  BY <1>3 DEF delayVars, pipeline, TrendInv, TrendFollowsCalls
<1> QED BY <1>1, <1>2, <1>3 DEF DelayNext

(* The trend is the regression over the last WindowSize calls since Reset, *)
(* and over nothing else: no point is lost, doubled or out of place when   *)
(* the window slides, and no quotient is by zero (trendline.go:86).        *)
THEOREM TrendOfLastCalls == DelaySpec => []TrendFollowsCalls
<1>1. DelayInit => KInv /\ TrendInv
  BY KInvInit, TrendInvInit
<1>2. KInv /\ TrendInv /\ [DelayNext]_delayVars => KInv' /\ TrendInv'
  BY KInvStep, TrendInvStep
<1>3. TrendInv => TrendFollowsCalls
  BY DEF TrendInv, TrendFollowsCalls
<1> QED BY <1>1, <1>2, <1>3, PTL DEF DelaySpec
-----------------------------------------------------------------------------
(* Where no smoothing rounds, these delays have the closed form of the     *)
(* reference, and the trend is the reference's.                            *)
LEMMA QuotientOfMultiple ==
  ASSUME NEW c \in Nat \ {0}, NEW q \in Int
  PROVE  (c * q) \div c = q
<1> DEFINE d == (c * q) \div c
           r == (c * q) % c
<1>1. c * q \in Int
  OBVIOUS
<1>2. r \in 0 .. c - 1 /\ d \in Int /\ c * q = c * d + r
  BY <1>1, DivisionFacts
<1> HIDE DEF d, r
<1>3. c * (q - d) = c * q - c * d /\ q - d \in Int
  BY <1>2
<1>4. c * (q - d) = r
  BY <1>1, <1>2, <1>3
<1>5. -(2 * c) < c * (q - d) /\ c * (q - d) < 2 * c
  BY <1>2, <1>4
<1>6. q - d \in {-1, 0, 1}
  BY <1>3, <1>5, SmallMultiple
<1>7. q - d # 1
  <2> SUFFICES ASSUME q - d = 1 PROVE FALSE
    OBVIOUS
  <2>1. c * (q - d) = c
    OBVIOUS
  <2> QED BY <1>2, <1>4, <2>1
<1>8. q - d # -1
  <2> SUFFICES ASSUME q - d = -1 PROVE FALSE
    OBVIOUS
  <2>1. c * (q - d) = -c
    OBVIOUS
  <2> QED BY <1>2, <1>4, <2>1
<1>9. q = d
  BY <1>2, <1>6, <1>7, <1>8
<1> QED BY <1>9 DEF d

(* The recursion of the powers has a solution, as that of the sums has.    *)
LEMMA PowersExist ==
  ASSUME NEW base \in Nat \ {0}, NEW k \in Nat
  PROVE  \E g \in [0 .. k -> Nat \ {0}] :
           g[0] = 1 /\ \A i \in 1 .. k : g[i] = base * g[i - 1]
<1> DEFINE Solves(g, n) == g[0] = 1 /\ \A i \in 1 .. n : g[i] = base * g[i - 1]
           P == {n \in Nat : \E g \in [0 .. n -> Nat \ {0}] : Solves(g, n)}
<1>1. 0 \in P
  <2> DEFINE one == [i \in 0 .. 0 |-> 1]
  <2>1. one \in [0 .. 0 -> Nat \ {0}] /\ Solves(one, 0)
    OBVIOUS
  <2> HIDE DEF one, Solves
  <2> QED BY <2>1
<1> HIDE DEF Solves
<1>2. ASSUME NEW n \in Nat, n \in P
      PROVE  n + 1 \in P
  <2>1. PICK g \in [0 .. n -> Nat \ {0}] : Solves(g, n)
    BY <1>2
  <2>2. base * g[n] \in Nat \ {0}
    <3>1. n \in 0 .. n /\ g[n] \in Nat \ {0}
      OBVIOUS
    <3> DEFINE c == g[n]
    <3> HIDE DEF c
    <3>2. c \in Nat \ {0}
      BY <3>1 DEF c
    <3>3. base * c \in Nat /\ base * c # 0
      BY <3>2
    <3> QED BY <3>3 DEF c
  <2> DEFINE next == base * g[n]
             h == [i \in 0 .. n + 1 |-> IF i = n + 1 THEN next ELSE g[i]]
  <2>3. h \in [0 .. n + 1 -> Nat \ {0}]
    <3> HIDE DEF next
    <3> QED BY <2>2 DEF next
  <2>4. Solves(h, n + 1)
    <3>1. g[0] = 1 /\ \A i \in 1 .. n : g[i] = base * g[i - 1]
      BY <2>1 DEF Solves
    <3>2. h[0] = 1
      BY <3>1
    <3>3. ASSUME NEW i \in 1 .. n + 1 PROVE h[i] = base * h[i - 1]
      <4>1. CASE i = n + 1
        <5>1. i - 1 = n /\ n \in 0 .. n + 1 /\ n # n + 1 /\ i \in 0 .. n + 1
          BY <4>1
        <5>2. h[i] = next /\ h[i - 1] = g[n]
          BY <4>1, <5>1
        <5> QED BY <5>2
      <4>2. CASE i \in 1 .. n
        <5>1. /\ i \in 0 .. n + 1 /\ i - 1 \in 0 .. n + 1 /\ i # n + 1 /\ i - 1 # n + 1
          BY <4>2
        <5>2. h[i] = g[i] /\ h[i - 1] = g[i - 1]
          BY <5>1
        <5> QED BY <3>1, <4>2, <5>2
      <4> QED BY <4>1, <4>2
    <3> HIDE DEF h
    <3> QED BY <3>2, <3>3 DEF Solves
  <2> HIDE DEF h
  <2> QED BY <2>3, <2>4
<1> HIDE DEF P
<1>3. k \in P
  BY <1>1, <1>2, StatsConfigured, RSP!InductiveSet
<1> QED BY <1>3 DEF P, Solves

LEMMA PowersDef ==
  ASSUME NEW base \in Nat \ {0}, NEW k \in Nat
  PROVE  LET power == T!Powers(base, k)
         IN  /\ power \in [0 .. k -> Nat \ {0}] /\ power[0] = 1
             /\ \A i \in 1 .. k : power[i] = base * power[i - 1]
<1> DEFINE Step(g) == [i \in 0 .. k |-> IF i = 0 THEN 1 ELSE base * g[i - 1]]
<1>1. PICK g \in [0 .. k -> Nat \ {0}] :
        g[0] = 1 /\ \A i \in 1 .. k : g[i] = base * g[i - 1]
  BY PowersExist
<1>2. g = Step(g)
  BY <1>1
<1>3. T!Powers(base, k) = CHOOSE f : f = Step(f)
  BY DEF T!Powers
<1> HIDE DEF Step
<1>4. T!Powers(base, k) = Step(T!Powers(base, k))
  BY <1>2, <1>3
<1> DEFINE u == T!Powers(base, k)
           P == {n \in Nat : n <= k => u[n] \in Nat \ {0}}
<1>5. u = [i \in 0 .. k |-> IF i = 0 THEN 1 ELSE base * u[i - 1]]
  BY <1>4 DEF Step
<1> HIDE DEF u
<1>6. u[0] = 1
  BY <1>5
<1>7. ASSUME NEW i \in 1 .. k PROVE u[i] = base * u[i - 1]
  <2>1. i \in 0 .. k /\ i # 0
    OBVIOUS
  <2> QED BY <1>5, <2>1
<1>8. 0 \in P
  BY <1>6
<1>9. ASSUME NEW n \in Nat, n \in P, n + 1 <= k PROVE u[n + 1] \in Nat \ {0}
  <2>1. n + 1 \in 1 .. k /\ (n + 1) - 1 = n /\ n <= k
    BY <1>9
  <2>2. u[n + 1] = base * u[n] /\ u[n] \in Nat \ {0}
    BY <1>7, <1>9, <2>1
  <2> DEFINE c == u[n]
  <2> HIDE DEF c
  <2>3. c \in Nat \ {0}
    BY <2>2 DEF c
  <2>4. base * c \in Nat /\ base * c # 0
    BY <2>3
  <2> QED BY <2>2, <2>4 DEF c
<1>10. \A n \in Nat : n \in P => n + 1 \in P
  BY <1>9
<1>11. Nat \subseteq P
  <2> HIDE DEF P
  <2> QED BY <1>8, <1>10, StatsConfigured, RSP!InductiveSet
<1>12. \A i \in 0 .. k : u[i] \in Nat \ {0}
  BY <1>11
<1>13. u \in [0 .. k -> Nat \ {0}]
  BY <1>5, <1>12
<1> QED BY <1>6, <1>7, <1>13 DEF u

(* No call has lost anything to rounding. *)
RoundsNothing(delay, calls) ==
  \A k \in 1 .. Len(calls) :
    (CoefNum * delay[k - 1] + (CoefDen - CoefNum) * calls[k].variation) % CoefDen = 0

SmoothingExact == \E delay : IsSmoothing(delay, inputs) /\ RoundsNothing(delay, inputs)

LEMMA SmoothingUnique ==
  ASSUME NEW calls \in Seq(CallType), NEW delay, NEW other,
         IsSmoothing(delay, calls), IsSmoothing(other, calls)
  PROVE  \A k \in 0 .. Len(calls) : delay[k] = other[k]
<1> DEFINE n == Len(calls)
           P == {k \in Nat : k <= n => delay[k] = other[k]}
<1>1. n \in Nat /\ 0 \in P
  BY LenProperties DEF IsSmoothing
<1>2. ASSUME NEW k \in Nat, k \in P, k + 1 <= n PROVE delay[k + 1] = other[k + 1]
  <2>1. k + 1 \in 1 .. n /\ (k + 1) - 1 = k /\ k <= n
    BY <1>1, <1>2
  <2>2. delay[k] = other[k]
    BY <1>2, <2>1
  <2>3. /\ delay[k + 1] = T!Smoothed(delay[(k + 1) - 1], calls[k + 1].variation)
        /\ other[k + 1] = T!Smoothed(other[(k + 1) - 1], calls[k + 1].variation)
    BY <2>1 DEF IsSmoothing
  <2> QED BY <2>1, <2>2, <2>3
<1>3. \A k \in Nat : k \in P => k + 1 \in P
  BY <1>2
<1>4. Nat \subseteq P
  <2> HIDE DEF P
  <2> QED BY <1>1, <1>3, StatsConfigured, RSP!InductiveSet
<1> QED BY <1>1, <1>4

(* One more term of the weighted sum: p * q carries the older weights.     *)
LEMMA WeightedStep ==
  ASSUME NEW p \in Int, NEW q \in Int, NEW old \in Int, NEW new \in Int, NEW v \in Int,
         NEW n \in Int, NEW d \in Int, d * new = n * old + (d - n) * v
  PROVE  (n * p) * q * old + (d - n) * p * q * v = p * (d * q) * new
<1> DEFINE r == p * q
           e == d - n
<1>1. r \in Int /\ e \in Int
  OBVIOUS
<1>2. (n * p) * q * old = r * (n * old)
  OBVIOUS
<1>3. p * (d * q) * new = r * (d * new)
  OBVIOUS
<1>4. e * p * q * v = r * (e * v)
  <2>1. e \in Int
    BY <1>1
  <2> HIDE DEF e
  <2> QED BY <2>1
<1>5. d * new = n * old + e * v
  OBVIOUS
<1> DEFINE a == n * old
           b == e * v
<1>6. a \in Int /\ b \in Int
  <2> HIDE DEF e
  <2> QED BY <1>1
<1> HIDE DEF r, e, a, b
<1>7. r * (a + b) = r * a + r * b
  BY <1>1, <1>6
<1>8. (n * p) * q * old + e * p * q * v = p * (d * q) * new
  BY <1>2, <1>3, <1>4, <1>5, <1>7 DEF a, b
<1> QED BY <1>8 DEF e

LEMMA ExactReference ==
  ASSUME NEW calls \in Seq(CallType), NEW delay,
         IsSmoothing(delay, calls), RoundsNothing(delay, calls),
         NEW k \in 1 .. Len(calls)
  PROVE  T!ReferenceDelay(calls, k) = delay[k]
<1> DEFINE num == T!Powers(CoefNum, k)
           den == T!Powers(CoefDen, k)
           weighted == [i \in 1 .. k |->
                          (CoefDen - CoefNum) * num[k - i] * den[i - 1] * calls[i].variation]
           P == {m \in Nat : m <= k =>
                               SumUpTo(weighted)[m] = num[k - m] * den[m] * delay[m]}
<1>1. /\ Len(calls) \in Nat /\ k \in Nat /\ k <= Len(calls)
      /\ CoefNum \in Nat \ {0} /\ CoefDen \in Nat \ {0} /\ CoefDen - CoefNum \in Int
  BY FitConstants, LenProperties
<1>2. /\ num \in [0 .. k -> Nat \ {0}] /\ num[0] = 1
      /\ \A i \in 1 .. k : num[i] = CoefNum * num[i - 1]
      /\ den \in [0 .. k -> Nat \ {0}] /\ den[0] = 1
      /\ \A i \in 1 .. k : den[i] = CoefDen * den[i - 1]
  BY <1>1, PowersDef
<1>3. \A i \in 1 .. k : calls[i].variation \in Int
  <2>1. \A i \in 1 .. k : calls[i] \in CallType
    BY <1>1, ElementOfSeq
  <2> QED BY <2>1 DEF CallType
<1>4. delay[0] = 0 /\ \A i \in 0 .. k : delay[i] \in Int
  BY <1>1 DEF IsSmoothing
<1>5. ASSUME NEW i \in 1 .. k
      PROVE  CoefDen * delay[i] = CoefNum * delay[i - 1] + (CoefDen - CoefNum) * calls[i].variation
  <2> DEFINE mix == CoefNum * delay[i - 1] + (CoefDen - CoefNum) * calls[i].variation
  <2>1. i \in 1 .. Len(calls) /\ i - 1 \in 0 .. k
    BY <1>1
  <2>2. mix % CoefDen = 0 /\ delay[i] = mix \div CoefDen
    BY <2>1 DEF IsSmoothing, RoundsNothing, T!Smoothed
  <2>3. mix \in Int
    <3> DEFINE old == delay[i - 1]
               v == calls[i].variation
               e == CoefDen - CoefNum
    <3>1. old \in Int /\ v \in Int /\ e \in Int /\ CoefNum \in Int
      BY <1>1, <1>3, <1>4, <2>1
    <3> HIDE DEF old, v, e
    <3>2. CoefNum * old + e * v \in Int
      BY <3>1
    <3> QED BY <3>2 DEF old, v, e
  <2> HIDE DEF mix
  <2>4. mix = CoefDen * (mix \div CoefDen) + (mix % CoefDen) /\ mix \div CoefDen \in Int
    BY <1>1, <2>3, DivisionFacts
  <2>5. CoefDen * delay[i] = mix
    BY <1>1, <2>2, <2>4
  <2> QED BY <2>5 DEF mix
<1> HIDE DEF num, den
<1>6. /\ weighted \in Seq(Int) /\ Len(weighted) = k
      /\ \A i \in 1 .. k :
           weighted[i] = (CoefDen - CoefNum) * num[k - i] * den[i - 1] * calls[i].variation
  <2>1. ASSUME NEW i \in 1 .. k
        PROVE  (CoefDen - CoefNum) * num[k - i] * den[i - 1] * calls[i].variation \in Int
    <3> DEFINE p == num[k - i]
               q == den[i - 1]
               v == calls[i].variation
               e == CoefDen - CoefNum
    <3>1. k - i \in 0 .. k /\ i - 1 \in 0 .. k
      BY <1>1
    <3>2. /\ p \in Int /\ q \in Int /\ v \in Int /\ e \in Int
      <4>1. p \in Int /\ q \in Int
        BY <1>2, <3>1
      <4>2. v \in Int /\ e \in Int
        BY <1>1, <1>3
      <4> QED BY <4>1, <4>2
    <3> HIDE DEF p, q, v, e
    <3>3. e * p * q * v \in Int
      BY <3>2
    <3> QED BY <3>3 DEF p, q, v, e
  <2>2. weighted \in [1 .. k -> Int]
    BY <2>1
  <2> QED BY <1>1, <2>2, FunctionIsSeq
<1> HIDE DEF weighted
<1>7. 0 \in P
  <2>1. SumUpTo(weighted)[0] = 0
    BY <1>6, SumUpToDef
  <2>2. num[k - 0] \in Int /\ den[0] \in Int
    BY <1>1, <1>2
  <2> DEFINE c == num[k - 0] * den[0]
  <2>3. c \in Int
    BY <2>2
  <2> HIDE DEF c
  <2>4. c * 0 = 0
    BY <2>3
  <2> QED BY <1>4, <2>1, <2>4 DEF c
<1>8. ASSUME NEW m \in Nat, m \in P, m + 1 <= k
      PROVE  SumUpTo(weighted)[m + 1] = num[k - (m + 1)] * den[m + 1] * delay[m + 1]
  <2> DEFINE p == num[k - (m + 1)]
             q == den[m]
             old == delay[m]
             new == delay[m + 1]
             v == calls[m + 1].variation
  <2>1. /\ m + 1 \in 1 .. k /\ (m + 1) - 1 = m /\ m <= k /\ m \in 0 .. k /\ m + 1 \in 0 .. k
        /\ k - (m + 1) \in 0 .. k /\ k - m \in 1 .. k /\ (k - m) - 1 = k - (m + 1)
    BY <1>1, <1>8
  <2>2. p \in Int /\ q \in Int /\ old \in Int /\ new \in Int /\ v \in Int
    BY <1>2, <1>3, <1>4, <2>1
  <2>3. SumUpTo(weighted)[m] = num[k - m] * q * old
    BY <1>8, <2>1
  <2>4. num[k - m] = CoefNum * p /\ den[m + 1] = CoefDen * q
    BY <1>2, <2>1
  <2>5. SumUpTo(weighted)[m + 1] = SumUpTo(weighted)[m] + (CoefDen - CoefNum) * p * q * v
    <3>1. SumUpTo(weighted)[m + 1] = SumUpTo(weighted)[(m + 1) - 1] + weighted[m + 1]
      BY <1>6, <2>1, SumUpToDef
    <3>2. weighted[m + 1] = (CoefDen - CoefNum) * p * den[(m + 1) - 1] * v
      BY <1>6, <2>1
    <3> QED BY <2>1, <3>1, <3>2
  <2>6. CoefDen * new = CoefNum * old + (CoefDen - CoefNum) * v
    BY <1>5, <2>1
  <2> HIDE DEF p, q, old, new, v, P
  <2>7. (CoefNum * p) * q * old + (CoefDen - CoefNum) * p * q * v = p * (CoefDen * q) * new
    BY <1>1, <2>2, <2>6, WeightedStep
  <2>8. SumUpTo(weighted)[m + 1] = p * (CoefDen * q) * new
    BY <2>3, <2>4, <2>5, <2>7, Zenon
  <2> QED BY <2>4, <2>8 DEF p, new
<1>9. \A m \in Nat : m \in P => m + 1 \in P
  BY <1>8
<1>10. k \in P
  <2> HIDE DEF P
  <2> QED BY <1>1, <1>7, <1>9, StatsConfigured, RSP!InductiveSet
<1>11. T!SumOf(weighted) = num[0] * den[k] * delay[k]
  <2>1. k <= k /\ k - k = 0
    BY <1>1
  <2>2. SumUpTo(weighted)[k] = num[k - k] * den[k] * delay[k]
    BY <1>10, <2>1
  <2> QED BY <1>6, <2>1, <2>2, SumIsSumUpToLen
<1>12. den[k] \in Nat \ {0} /\ delay[k] \in Int
  BY <1>1, <1>2, <1>4
<1>13. T!SumOf(weighted) = den[k] * delay[k]
  <2> DEFINE c == den[k]
  <2>1. c \in Nat
    BY <1>12
  <2> HIDE DEF c
  <2>2. 1 * c = c
    BY <2>1
  <2> QED BY <1>2, <1>11, <2>2 DEF c
<1>14. (den[k] * delay[k]) \div den[k] = delay[k]
  BY <1>12, QuotientOfMultiple
<1>15. T!ReferenceDelay(calls, k) = T!SumOf(weighted) \div den[k]
  BY DEF T!ReferenceDelay, weighted, num, den
<1> QED BY <1>13, <1>14, <1>15

(* The reference's slope is the code's quotient; fewer than two points     *)
(* have no pair.                                                           *)
LEMMA SlopeOverPairs ==
  ASSUME NEW points \in Seq(Point)
  PROVE  /\ T!ReferenceSlope(points)
              = [num |-> T!Numerator(points), den |-> T!Denominator(points)]
         /\ Len(points) < 2 => T!Denominator(points) = 0
<1> DEFINE xs == T!Xs(points)
           ys == T!Ys(points)
           n == Len(points)
<1>1. xs \in Seq(Int) /\ ys \in Seq(Int) /\ Len(xs) = n /\ Len(ys) = n /\ n \in Nat
  BY Coordinates
<1>2. T!Numerator(points) = n * T!SumOf(T!Products(xs, ys)) - T!SumOf(xs) * T!SumOf(ys)
  BY DEF T!Numerator
<1>3. T!Denominator(points) = n * T!SumOf(T!Products(xs, xs)) - T!SumOf(xs) * T!SumOf(xs)
  BY DEF T!Denominator
<1>4. T!ReferenceSlope(points) = [num |-> T!PairSum(xs, ys), den |-> T!PairSum(xs, xs)]
  BY DEF T!ReferenceSlope
<1> HIDE DEF xs, ys, n
<1>5. /\ T!Numerator(points) = T!PairSum(xs, ys)
      /\ T!Denominator(points) = T!PairSum(xs, xs)
  <2>1. n * T!SumOf(T!Products(xs, ys)) - T!SumOf(xs) * T!SumOf(ys) = T!PairSum(xs, ys)
    BY <1>1, LeastSquaresOverPairs
  <2>2. n * T!SumOf(T!Products(xs, xs)) - T!SumOf(xs) * T!SumOf(xs) = T!PairSum(xs, xs)
    BY <1>1, LeastSquaresOverPairs
  <2> QED BY <1>2, <1>3, <2>1, <2>2
<1>6. ASSUME n < 2 PROVE T!Denominator(points) = 0
  <2> DEFINE s == T!SumOf(xs)
             q == T!SumOf(T!Products(xs, xs))
  <2>1. T!Products(xs, xs) \in Seq(Int) /\ Len(T!Products(xs, xs)) = n
    BY <1>1, ProductSeq
  <2>2. s = SumUpTo(xs)[n] /\ q = SumUpTo(T!Products(xs, xs))[n]
    BY <1>1, <2>1, SumIsSumUpToLen
  <2>3. SumUpTo(xs)[0] = 0 /\ SumUpTo(T!Products(xs, xs))[0] = 0
    BY <1>1, <2>1, SumUpToDef
  <2>4. CASE n = 0
    <3>1. s = 0 /\ q = 0
      BY <2>2, <2>3, <2>4
    <3> HIDE DEF s, q
    <3>2. n * q - s * s = 0
      BY <3>1, <2>4
    <3> QED BY <1>3, <3>2 DEF s, q
  <2>5. CASE n = 1
    <3> DEFINE a == xs[1]
    <3>1. 0 \in Nat /\ 0 + 1 = 1 /\ 1 <= n
      BY <2>5
    <3>2. /\ xs[0 + 1] \in Int
          /\ SumUpTo(xs)[0 + 1] = SumUpTo(xs)[0] + xs[0 + 1]
          /\ SumUpTo(T!Products(xs, xs))[0 + 1]
               = SumUpTo(T!Products(xs, xs))[0] + xs[0 + 1] * xs[0 + 1]
      BY <1>1, <3>1, PartialSums
    <3>3. a \in Int /\ s = 0 + a /\ q = 0 + a * a
      BY <2>2, <2>3, <2>5, <3>1, <3>2
    <3> HIDE DEF s, q, a
    <3>4. s = a /\ q = a * a
      BY <3>3
    <3>5. a * a \in Int
      BY <3>3
    <3>6. 1 * (a * a) - a * a = 0
      BY <3>5
    <3>7. n * q - s * s = 0
      BY <2>5, <3>4, <3>6
    <3> QED BY <1>3, <3>7 DEF s, q
  <2> QED BY <1>1, <1>6, <2>4, <2>5
<1> QED BY <1>4, <1>5, <1>6 DEF n

(* The history is the end of the reference's points. *)
LEMMA HistoryOfReference ==
  ASSUME NEW history \in Seq(Point), NEW calls \in Seq(CallType), NEW delay,
         IsSmoothing(delay, calls), RoundsNothing(delay, calls),
         Matches(history, calls, delay)
  PROVE  history = SubSeq([k \in 1 .. Len(calls) |-> T!ReferencePoint(calls, k)],
                          Len(calls) - Len(history) + 1, Len(calls))
<1> DEFINE n == Len(calls)
           h == Len(history)
           points == [k \in 1 .. n |-> T!ReferencePoint(calls, k)]
           m == n - h + 1
           kept == SubSeq(points, m, n)
<1>1. n \in Nat /\ h \in Nat /\ h <= n
  BY LenProperties DEF Matches
<1>2. ASSUME NEW i \in 1 .. h
      PROVE  points[m + i - 1] = history[i] /\ history[i] \in Point
  <2>1. m + i - 1 = n - h + i /\ n - h + i \in 1 .. n
    BY <1>1
  <2>2. history[i] = [x |-> T!ToMs(calls[n - h + i].at - calls[1].at), y |-> delay[n - h + i]]
    BY DEF Matches
  <2>3. T!ReferenceDelay(calls, n - h + i) = delay[n - h + i]
    BY <2>1, ExactReference
  <2>4. T!ReferencePoint(calls, n - h + i) = history[i]
    BY <2>2, <2>3 DEF T!ReferencePoint
  <2>5. history[i] \in Point
    BY ElementOfSeq
  <2> QED BY <2>1, <2>4, <2>5
<1> HIDE DEF points, h, n
<1>3. m \in Int /\ n \in Int /\ n - m + 1 = h /\ (m <= n => h > 0) /\ (~(m <= n) => h = 0)
  BY <1>1
<1>4. ASSUME NEW j \in m .. n PROVE points[j] \in Point
  <2>1. j - m + 1 \in 1 .. h /\ m + (j - m + 1) - 1 = j
    BY <1>1, <1>3
  <2>2. points[m + (j - m + 1) - 1] \in Point
    BY <1>2, <2>1
  <2> QED BY <2>1, <2>2
<1>5. /\ kept \in Seq(Point) /\ Len(kept) = IF m <= n THEN n - m + 1 ELSE 0
      /\ \A i \in 1 .. n - m + 1 : kept[i] = points[m + i - 1]
  <2> HIDE DEF m
  <2> QED BY <1>3, <1>4, SubSeqProperties
<1>6. Len(kept) = h /\ \A i \in 1 .. h : kept[i] = history[i]
  BY <1>2, <1>3, <1>5
<1> HIDE DEF kept
<1>7. kept = history
  BY <1>5, <1>6, SeqEqual DEF h
<1> QED BY <1>7 DEF kept, m, points, h, n

(* The trend is the regression over the last WindowSize calls, in the      *)
(* weights and pairs of the reference, as long as no smoothing has rounded *)
(* (in the code it never does but in the last bits of a float64): nothing  *)
(* drifts over the calls, and no quotient is by zero (trendline.go:86).    *)
THEOREM TrendIsRegression == DelaySpec => [](SmoothingExact => TrendIsReference)
<1>1. DelayInit => KInv /\ TrendInv
  BY KInvInit, TrendInvInit
<1>2. KInv /\ TrendInv /\ [DelayNext]_delayVars => KInv' /\ TrendInv'
  BY KInvStep, TrendInvStep
<1>3. KInv /\ TrendInv => (SmoothingExact => TrendIsReference)
  <2> SUFFICES ASSUME KInv, TrendInv, SmoothingExact, filterType = "Trendline"
               PROVE  T!IsReferenceTrend(trend, inputs)
    BY DEF TrendIsReference
  <2> DEFINE n == Len(inputs)
             history == tl.history
             h == T!MinOf(n, WindowSize)
             points == [k \in 1 .. n |-> T!ReferencePoint(inputs, k)]
             slope == T!ReferenceSlope(SubSeq(points, n - h + 1, n))
             count == T!MinOf(n, CountCap)
  <2>1. inputs \in Seq(CallType) /\ history \in Seq(Point)
    BY DEF KInv, TrendInv
  <2>2. PICK delay : IsSmoothing(delay, inputs) /\ Matches(history, inputs, delay)
    BY DEF TrendInv, TrendFollowsCalls
  <2>3. PICK exact : IsSmoothing(exact, inputs) /\ RoundsNothing(exact, inputs)
    BY DEF SmoothingExact
  <2>4. RoundsNothing(delay, inputs)
    <3>1. Len(inputs) \in Nat /\ \A k \in 0 .. Len(inputs) : delay[k] = exact[k]
      BY <2>1, <2>2, <2>3, SmoothingUnique, LenProperties
    <3>2. \A k \in 1 .. Len(inputs) : delay[k - 1] = exact[k - 1]
      BY <3>1
    <3> QED BY <2>3, <3>2 DEF RoundsNothing
  <2>5. Len(history) = h /\ tl.numDeltas = n /\ trend = T!Trend(tl)
    BY DEF TrendInv, TrendFollowsCalls
  <2>6. history = SubSeq(points, n - h + 1, n)
    BY <2>1, <2>2, <2>4, <2>5, HistoryOfReference
  <2>7. /\ slope = [num |-> T!Numerator(history), den |-> T!Denominator(history)]
        /\ Len(history) < 2 => T!Denominator(history) = 0
    <3>1. T!ReferenceSlope(history) = slope
      BY <2>6
    <3> HIDE DEF slope, history
    <3> QED BY <2>1, <3>1, SlopeOverPairs
  <2>8. trend = [T!LinearFitSlope(history) EXCEPT !.num = count * @ * Gain]
    BY <2>5 DEF T!Trend
  <2>9. count \in Int /\ Gain \in Int
    BY <2>1, LenProperties, FitConstants DEF T!MinOf
  <2>10. IF slope.den = 0 THEN trend.num = 0 /\ trend.den # 0
         ELSE trend.num * slope.den = count * slope.num * Gain * trend.den
    <3> HIDE DEF history, slope, count, h, n, points
    <3>1. slope.num = T!Numerator(history) /\ slope.den = T!Denominator(history)
      BY <2>7
    <3>2. CASE T!Denominator(history) = 0
      <4>1. T!LinearFitSlope(history) = [num |-> 0, den |-> 1]
        BY <3>2 DEF T!LinearFitSlope, T!Zero
      <4>2. trend.num = count * 0 * Gain /\ trend.den = 1
        BY <2>8, <4>1
      <4>3. count * 0 * Gain = 0
        BY <2>9
      <4> QED BY <3>1, <3>2, <4>2, <4>3
    <3>3. CASE T!Denominator(history) # 0
      <4>1. T!LinearFitSlope(history)
              = [num |-> T!Numerator(history), den |-> T!Denominator(history)]
        BY <2>7, <3>3 DEF T!LinearFitSlope
      <4>2. /\ trend.num = count * T!Numerator(history) * Gain
            /\ trend.den = T!Denominator(history)
        BY <2>8, <4>1
      <4> QED BY <3>1, <3>3, <4>2, Zenon
    <3> QED BY <3>2, <3>3
  <2> QED BY <2>10 DEF T!IsReferenceTrend
<1> QED BY <1>1, <1>2, <1>3, PTL DEF DelaySpec
-----------------------------------------------------------------------------
(* The detector inside the pipeline, behind either filter.                 *)
DetectorInv == filterType \in FilterTypes /\ now \in Nat /\ det \in DetectorType

LEMMA DetectorInvStep ==
  DetectorInv /\ KInv' /\ TrendInv' /\ [DelayNext]_delayVars => DetectorInv'
<1> SUFFICES ASSUME DetectorInv, KInv', TrendInv', [DelayNext]_delayVars PROVE DetectorInv'
  OBVIOUS
<1>1. ASSUME NEW p \in Packets, OnPacket(p[1], p[2]) PROVE DetectorInv'
  <2>1. arrival' \in Nat
    BY <1>1, ConfigAssumption DEF OnPacket, AddPacket
  <2>2. now' \in Nat /\ filterType' \in FilterTypes
    BY <1>1, <2>1 DEF OnPacket, DetectorInv
  <2>3. CASE measured'.hasResult
    <3>1. det' = OD!Detected(det, Estimate(kf', trend'), now')
      BY <1>1, <2>3 DEF OnPacket
    <3>2. Estimate(kf', trend') \in Int
      <4>1. UNCHANGED filterType
        BY <1>1 DEF OnPacket
      <4>2. CASE filterType = "Kalman"
        BY <4>1, <4>2 DEF Estimate, KInv
      <4>3. CASE filterType # "Kalman"
        <5>1. filterType' = "Trendline"
          BY <4>1, <4>3, PipelineAssumption DEF DetectorInv
        <5>2. tl'.history \in Seq(Point) /\ tl'.numDeltas = Len(inputs') /\ trend' = T!Trend(tl')
          BY <5>1 DEF TrendInv, TrendFollowsCalls
        <5>3. Len(inputs') \in Nat
          BY LenProperties DEF KInv
        <5>4. trend'.num \in Int /\ trend'.den \in Nat \ {0}
          BY <5>2, <5>3, TrendIsQuotient
        <5>5. trend'.num \div trend'.den \in Int
          BY <5>4, DivisionFacts
        <5> QED BY <4>3, <5>5 DEF Estimate
      <4> QED BY <4>2, <4>3
    <3> QED BY <2>2, <3>1, <3>2, DetectorStep DEF DetectorInv
  <2>4. CASE ~measured'.hasResult
    BY <1>1, <2>2, <2>4 DEF OnPacket, pipeline, DetectorInv
  <2> QED BY <2>3, <2>4
<1>2. CASE ResetAll
  BY <1>2, NewPipelineAtRest DEF ResetAll, DetectorInv
<1>3. CASE UNCHANGED delayVars
  BY <1>3 DEF delayVars, pipeline, DetectorInv
<1> QED BY <1>1, <1>2, <1>3 DEF DelayNext

(* Whichever filter feeds it, the detector in the pipeline keeps its       *)
(* fields' types and its threshold the configured range (overuse.go:133).  *)
THEOREM PipelineThresholdInRange ==
  DelaySpec => [](det \in DetectorType /\ det.threshold \in MinThreshold .. MaxThreshold)
<1>1. DelayInit => KInv /\ TrendInv /\ DetectorInv
  BY KInvInit, TrendInvInit, NewPipelineAtRest DEF DelayInit, DetectorInv
<1>2. KInv /\ TrendInv /\ DetectorInv /\ [DelayNext]_delayVars
        => KInv' /\ TrendInv' /\ DetectorInv'
  BY KInvStep, TrendInvStep, DetectorInvStep
<1>3. DetectorInv => det \in DetectorType /\ det.threshold \in MinThreshold .. MaxThreshold
  BY DEF DetectorInv, DetectorType
<1> QED BY <1>1, <1>2, <1>3, PTL DEF DelaySpec
=============================================================================
