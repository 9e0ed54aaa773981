-------------------------- MODULE RtpReceiveProofs --------------------------
(***************************************************************************)
(* Theorems about RtpReceive, for any number of streams and pooled         *)
(* structs, any ids the streams offer, and any timestamps and units: a     *)
(* pooled struct is in one hand, send times keep their clock, and a        *)
(* capture time converts without error.                                    *)
(***************************************************************************)
EXTENDS RtpReceive, TLAPS

Places == {"new", "bind", "read", "loadAbs", "loadCapture", "get", "feed", "put"}
Holding == {s \in Streams : pc[s] \in {"feed", "put"}}

(* A struct that a reader holds is neither free nor held by another one.   *)
PoolInv ==
  /\ pc \in [Streams -> Places]
  /\ DOMAIN held = Streams /\ DOMAIN content = Infos /\ DOMAIN fed = Streams
  /\ DOMAIN sendTime = Streams
  /\ free \subseteq Infos
  /\ \A s \in Holding : held[s] \in Infos \ free
  /\ \A s, t \in Holding : held[s] = held[t] => s = t
  /\ FedIsOwnPacket

LEMMA PoolInvInit == Init => PoolInv
BY DEF Init, PoolInv, Places, Holding, FedIsOwnPacket, NoInfo

(* A step of one reader that keeps away from the pool.                     *)
LEMMA PoolInvKept ==
  ASSUME PoolInv, NEW s \in Streams, NEW place \in Places \ {"feed", "put"},
         pc[s] \notin {"feed", "put"}, Goto(s, place),
         \A t \in Streams \ {s} : sendTime'[t] = sendTime[t], DOMAIN sendTime' = Streams,
         fed' = fed \/ fed' = [fed EXCEPT ![s] = NoInfo],
         UNCHANGED <<held, content, free>>
  PROVE  PoolInv'
<1>1. pc' \in [Streams -> Places] /\ Holding' = Holding
      /\ \A t \in Holding : t # s /\ pc'[t] = pc[t]
  BY DEF PoolInv, Goto, Holding
<1>2. DOMAIN fed' = Streams /\ \A t \in Streams : fed'[t].ssrc \in {t, "none"}
  <2>1. NoInfo.ssrc = "none"
    BY DEF NoInfo
  <2> QED BY <2>1 DEF PoolInv, FedIsOwnPacket
<1>3. \A t \in Streams : pc'[t] = "feed" => t \in Holding /\ pc[t] = "feed"
  BY <1>1 DEF Holding
<1> QED BY <1>1, <1>2, <1>3 DEF PoolInv, FedIsOwnPacket

LEMMA PoolInvGet ==
  ASSUME PoolInv, NEW s \in Streams, GetInfo(s)
  PROVE  PoolInv'
<1>1. PICK i \in free :
        /\ held' = [held EXCEPT ![s] = i]
        /\ free' = free \ {i}
        /\ content' = [content EXCEPT ![i] = [ssrc |-> s, sendTime |-> sendTime[s].value]]
  BY DEF GetInfo, FreeAfterGet
<1>2. /\ pc[s] = "get" /\ pc' = [pc EXCEPT ![s] = "feed"]
      /\ sendTime' = sendTime /\ fed' = fed
  BY DEF GetInfo, Goto
<1>3. pc' \in [Streams -> Places] /\ Holding' = Holding \cup {s} /\ s \notin Holding
  BY <1>2 DEF PoolInv, Holding, Places
<1>4. held'[s] = i /\ \A t \in Holding : held'[t] = held[t] /\ held[t] # i
  BY <1>1, <1>3 DEF PoolInv, Holding
<1>5. content'[i] = [ssrc |-> s, sendTime |-> sendTime[s].value]
      /\ \A t \in Holding : content'[held[t]] = content[held[t]]
  BY <1>1, <1>4 DEF PoolInv
<1>6. FedIsOwnPacket'
  <2> SUFFICES ASSUME NEW t \in Streams
      PROVE  /\ pc'[t] = "feed" =>
                  content'[held'[t]] = [ssrc |-> t, sendTime |-> sendTime'[t].value]
             /\ fed'[t].ssrc \in {t, "none"}
    BY DEF FedIsOwnPacket
  <2>1. CASE t = s
    BY <1>2, <1>4, <1>5, <2>1 DEF PoolInv, FedIsOwnPacket
  <2>2. CASE t # s
    <3>1. pc'[t] = pc[t] /\ (pc[t] = "feed" => t \in Holding)
      BY <1>2, <2>2 DEF PoolInv, Holding
    <3> QED BY <1>2, <1>4, <1>5, <3>1 DEF PoolInv, FedIsOwnPacket
  <2> QED BY <2>1, <2>2
<1>7. DOMAIN held' = Streams /\ DOMAIN content' = Infos /\ DOMAIN fed' = Streams
      /\ free' \subseteq Infos
  BY <1>1, <1>2 DEF PoolInv
<1>8. \A t \in Holding' : held'[t] \in Infos \ free'
  BY <1>1, <1>3, <1>4 DEF PoolInv
<1>9. \A t, u \in Holding' : held'[t] = held'[u] => t = u
  BY <1>3, <1>4 DEF PoolInv
<1> QED BY <1>2, <1>3, <1>6, <1>7, <1>8, <1>9 DEF PoolInv

LEMMA PoolInvFeed ==
  ASSUME PoolInv, NEW s \in Streams, Feed(s)
  PROVE  PoolInv'
<1>1. /\ pc[s] = "feed" /\ pc' = [pc EXCEPT ![s] = "put"]
      /\ fed' = [fed EXCEPT ![s] = content[held[s]]]
      /\ UNCHANGED <<sendTime, held, content, free>>
  BY DEF Feed, Goto
<1>2. pc' \in [Streams -> Places] /\ Holding' = Holding
  BY <1>1 DEF PoolInv, Holding, Places
<1>3. content[held[s]].ssrc = s
  <2>1. content[held[s]] = [ssrc |-> s, sendTime |-> sendTime[s].value]
    BY <1>1 DEF PoolInv, FedIsOwnPacket
  <2> QED BY <2>1
<1>4. FedIsOwnPacket'
  BY <1>1, <1>3 DEF PoolInv, FedIsOwnPacket
<1> QED BY <1>1, <1>2, <1>4 DEF PoolInv

LEMMA PoolInvPut ==
  ASSUME PoolInv, NEW s \in Streams, PutInfo(s)
  PROVE  PoolInv'
<1>1. /\ pc[s] = "put" /\ pc' = [pc EXCEPT ![s] = "read"]
      /\ content' = [content EXCEPT ![held[s]] = NoInfo]
      /\ free' = free \cup {held[s]}
      /\ UNCHANGED <<sendTime, held, fed>>
  BY DEF PutInfo, Goto
<1>2. pc' \in [Streams -> Places] /\ Holding' = Holding \ {s} /\ s \in Holding
  BY <1>1 DEF PoolInv, Holding, Places
<1>3. \A t \in Holding' : held[t] # held[s] /\ content'[held[t]] = content[held[t]]
  BY <1>1, <1>2 DEF PoolInv
<1>4. \A t \in Streams : pc'[t] = "feed" => t \in Holding' /\ pc[t] = "feed"
  BY <1>1 DEF PoolInv, Holding
<1>5. FedIsOwnPacket'
  BY <1>1, <1>3, <1>4 DEF PoolInv, FedIsOwnPacket
<1> QED BY <1>1, <1>2, <1>3, <1>5 DEF PoolInv

LEMMA PoolInvStep == PoolInv /\ [Next]_vars => PoolInv'
<1> SUFFICES ASSUME PoolInv, [Next]_vars PROVE PoolInv'
  OBVIOUS
<1>1. ASSUME NEW s \in Streams,
             \/ BindAbs(s) \/ BindCapture(s) \/ LoadAbs(s)
             \/ \E p \in Packets : Read(s, p)
      PROVE  PoolInv'
  <2>1. /\ pc[s] \in {"new", "bind", "loadAbs", "read"}
        /\ \E place \in Places \ {"feed", "put"} : Goto(s, place)
        /\ UNCHANGED <<sendTime, held, content, free, fed>>
    BY <1>1 DEF BindAbs, BindCapture, LoadAbs, Read, Places
  <2> QED BY <2>1, PoolInvKept DEF PoolInv
<1>2. ASSUME NEW s \in Streams, LoadCapture(s) PROVE PoolInv'
  <2>1. /\ pc[s] = "loadCapture"
        /\ \E place \in Places \ {"feed", "put"} : Goto(s, place)
        /\ sendTime' = sendTime
             \/ \E time : sendTime' = [sendTime EXCEPT ![s] = time]
        /\ fed' = fed \/ fed' = [fed EXCEPT ![s] = NoInfo]
        /\ UNCHANGED <<held, content, free>>
    BY <1>2 DEF LoadCapture, Places
  <2>2. \A t \in Streams \ {s} : sendTime'[t] = sendTime[t]
    BY <2>1 DEF PoolInv
  <2>3. DOMAIN sendTime' = Streams
    BY <2>1 DEF PoolInv
  <2> QED BY <2>1, <2>2, <2>3, PoolInvKept
<1>3. ASSUME NEW s \in Streams, GetInfo(s) \/ Feed(s) \/ PutInfo(s) PROVE PoolInv'
  BY <1>3, PoolInvGet, PoolInvFeed, PoolInvPut
<1>4. CASE UNCHANGED vars
  BY <1>4 DEF vars, PoolInv, Holding, FedIsOwnPacket
<1> QED BY <1>1, <1>2, <1>3, <1>4 DEF Next

(* What the estimator gets from a reader is the reader's own packet, for   *)
(* any number of readers that share any number of pooled structs           *)
(* (interceptor.go:217 to 230, pool.go).                                   *)
THEOREM ReadersDoNotMix == Spec => []FedIsOwnPacket
<1>1. PoolInv => FedIsOwnPacket
  BY DEF PoolInv
<1> QED BY PoolInvInit, PoolInvStep, <1>1, PTL DEF Spec

-----------------------------------------------------------------------------
(* A reader whose last send time came from an id has seen that id stored,  *)
(* and loads it for every packet since.                                    *)
SourceInv ==
  /\ DOMAIN pc = Streams /\ DOMAIN loaded = Streams /\ DOMAIN sendTime = Streams
  /\ \A s \in Streams : pc[s] = "loadCapture" => loaded[s] \in {NoID, absExtID}
  /\ \A s \in Streams : sendTime[s].source = "abs" =>
       /\ sendTime[s].id = absExtID /\ absExtID # NoID
       /\ pc[s] = "loadCapture" => loaded[s] = absExtID

LEMMA SourceInvInit == Init => SourceInv
<1>1. NoTime.source = "none"
  BY DEF NoTime
<1> QED BY <1>1 DEF Init, SourceInv

LEMMA SourceInvBind ==
  ASSUME SourceInv, NEW s \in Streams, BindAbs(s)
  PROVE  SourceInv'
<1>1. absExtID = NoID \/ absExtID' = absExtID
  BY DEF BindAbs, CompareAndSwap
<1>2. /\ \A t \in Streams : pc'[t] = "loadCapture" => pc[t] = "loadCapture"
      /\ DOMAIN pc' = Streams /\ UNCHANGED <<loaded, sendTime>>
  BY DEF BindAbs, Goto, SourceInv
<1> QED BY <1>1, <1>2 DEF SourceInv

LEMMA SourceInvLoadAbs ==
  ASSUME SourceInv, NEW s \in Streams, LoadAbs(s)
  PROVE  SourceInv'
<1>1. /\ loaded' = [loaded EXCEPT ![s] = absExtID]
      /\ pc' = [pc EXCEPT ![s] = "loadCapture"]
      /\ UNCHANGED <<absExtID, sendTime>>
  BY DEF LoadAbs, Goto
<1> QED BY <1>1 DEF SourceInv

(* The time chosen names its id.                                           *)
LEMMA ChosenFromAbs ==
  ASSUME NEW s, NEW a, NEW c
  PROVE  /\ ChosenTime(s, a, c).source = "abs" <=> AbsSendTime(s, a) # 0
         /\ AbsSendTime(s, a) # 0 => ChosenTime(s, a, c).id = a /\ a # NoID
<1>1. AbsSendTime(s, a) # 0 => a # NoID
  BY DEF AbsSendTime
<1>2. CASE AbsSendTime(s, a) # 0
  BY <1>1, <1>2 DEF ChosenTime
<1>3. CASE AbsSendTime(s, a) = 0
  BY <1>3 DEF ChosenTime, NoTime
<1> QED BY <1>2, <1>3

LEMMA SourceInvLoadCapture ==
  ASSUME SourceInv, NEW s \in Streams, LoadCapture(s)
  PROVE  SourceInv'
<1> DEFINE time == ChosenTime(s, loaded[s], captureExtID)
<1>1. /\ pc[s] = "loadCapture" /\ UNCHANGED <<absExtID, loaded>>
      /\ sendTime' = sendTime \/ sendTime' = [sendTime EXCEPT ![s] = time]
      /\ \E place \in {"read", "get"} : pc' = [pc EXCEPT ![s] = place]
  BY DEF LoadCapture, Goto
<1>2. time.source = "abs" => time.id = loaded[s] /\ loaded[s] # NoID
  BY ChosenFromAbs
<1>3. loaded[s] \in {NoID, absExtID}
  BY <1>1 DEF SourceInv
<1> HIDE DEF time
<1> QED BY <1>1, <1>2, <1>3 DEF SourceInv

LEMMA SourceInvStep == SourceInv /\ [Next]_vars => SourceInv'
<1> SUFFICES ASSUME SourceInv, [Next]_vars PROVE SourceInv'
  OBVIOUS
<1>1. ASSUME NEW s \in Streams,
             \/ BindCapture(s) \/ GetInfo(s) \/ Feed(s) \/ PutInfo(s)
             \/ \E p \in Packets : Read(s, p)
      PROVE  SourceInv'
  <2>1. /\ \E place \in {"read", "loadAbs", "feed", "put"} : pc' = [pc EXCEPT ![s] = place]
        /\ UNCHANGED <<absExtID, loaded, sendTime>>
    BY <1>1 DEF BindCapture, GetInfo, Feed, PutInfo, Read, Goto
  <2> QED BY <2>1 DEF SourceInv
<1>2. ASSUME NEW s \in Streams, BindAbs(s) \/ LoadAbs(s) \/ LoadCapture(s) PROVE SourceInv'
  BY <1>2, SourceInvBind, SourceInvLoadAbs, SourceInvLoadCapture
<1>3. CASE UNCHANGED vars
  BY <1>3 DEF vars, SourceInv
<1> QED BY <1>1, <1>2, <1>3 DEF Next

(* A stream that has been read by its send times is switched to capture    *)
(* times only for a packet that has no send time under the same id,        *)
(* whatever the streams that join have negotiated (interceptor.go:145 and  *)
(* 187 to 215).                                                            *)
THEOREM SendTimesKeepTheirClock == Spec => ClockSwitchHasCause
<1> DEFINE Kept(s) ==
      sendTime[s].source = "abs" =>
        \/ sendTime'[s].source = "abs" /\ sendTime'[s].id = sendTime[s].id
        \/ AbsSendTime(s, sendTime[s].id) = 0
<1>1. SourceInv /\ [Next]_vars => [\A s \in Streams : Kept(s)]_sendTime
  <2> SUFFICES ASSUME SourceInv, [Next]_vars, NEW s \in Streams, sendTime[s].source = "abs",
                      sendTime' # sendTime
      PROVE  \/ sendTime'[s].source = "abs" /\ sendTime'[s].id = sendTime[s].id
             \/ AbsSendTime(s, sendTime[s].id) = 0
    OBVIOUS
  <2>1. PICK t \in Streams : LoadCapture(t)
    BY DEF Next, vars, BindAbs, BindCapture, Read, LoadAbs, GetInfo, Feed, PutInfo
  <2> DEFINE time == ChosenTime(t, loaded[t], captureExtID)
  <2>2. pc[t] = "loadCapture" /\ sendTime' = [sendTime EXCEPT ![t] = time]
    BY <2>1 DEF LoadCapture
  <2>3. CASE t = s
    <3>1. sendTime[s].id = loaded[s] /\ sendTime'[s] = time
      BY <2>2, <2>3 DEF SourceInv
    <3>2. AbsSendTime(s, loaded[s]) # 0 => time.source = "abs" /\ time.id = loaded[s]
      BY <2>3, ChosenFromAbs
    <3> HIDE DEF time
    <3> QED BY <3>1, <3>2
  <2>4. CASE t # s
    <3>1. sendTime'[s] = sendTime[s]
      BY <2>2, <2>4 DEF SourceInv
    <3> QED BY <3>1
  <2> QED BY <2>3, <2>4
<1> QED BY SourceInvInit, SourceInvStep, <1>1, PTL DEF Spec, ClockSwitchHasCause

-----------------------------------------------------------------------------
LEMMA ProductAtLeast ==
  ASSUME NEW m \in Nat, NEW k \in Nat \ {0}
  PROVE  m * k \in Nat /\ m * k >= m
<1>1. k - 1 \in Nat
  OBVIOUS
<1>2. m * (k - 1) \in Nat
  BY <1>1
<1>3. m * (k - 1) = m * k - m
  OBVIOUS
<1> QED BY <1>2, <1>3

(* Quotient and remainder are unique.                                      *)
LEMMA DivisionUnique ==
  ASSUME NEW m \in Nat \ {0}, NEW q \in Int, NEW r \in 0 .. m - 1,
         NEW a \in Int, a = m * q + r
  PROVE  a \div m = q /\ a % m = r
<1> DEFINE p == a \div m
           t == a % m
<1>1. p \in Int /\ t \in 0 .. m - 1
  OBVIOUS
<1>2. a = m * p + t
  OBVIOUS
<1> HIDE DEF p, t
<1>3. m * (p - q) = r - t /\ m * (q - p) = t - r
  <2>1. m * (p - q) = m * p - m * q /\ m * (q - p) = m * q - m * p
    BY <1>1
  <2>2. m * p \in Int /\ m * q \in Int
    BY <1>1
  <2> QED BY <1>1, <1>2, <2>1, <2>2
<1>4. ~(p > q)
  <2> SUFFICES ASSUME p > q PROVE FALSE
    OBVIOUS
  <2>1. p - q \in Nat \ {0}
    BY <1>1
  <2> QED BY <1>1, <1>3, <2>1, ProductAtLeast
<1>5. ~(q > p)
  <2> SUFFICES ASSUME q > p PROVE FALSE
    OBVIOUS
  <2>1. q - p \in Nat \ {0}
    BY <1>1
  <2> QED BY <1>1, <1>3, <2>1, ProductAtLeast
<1>6. p = q
  BY <1>1, <1>4, <1>5
<1>7. t = r
  <2>1. m * q \in Int
    OBVIOUS
  <2> QED BY <1>1, <1>2, <1>6, <2>1
<1> QED BY <1>6, <1>7 DEF p, t

(* Scaling the fraction of a whole gives a fraction of the scaled whole.   *)
LEMMA ScaledFraction ==
  ASSUME NEW m \in Nat \ {0}, NEW k \in Nat \ {0}, NEW r \in 0 .. m - 1
  PROVE  /\ (r * k) \div m \in 0 .. k - 1 /\ (r * k) % m \in 0 .. m - 1
         /\ r * k = m * ((r * k) \div m) + ((r * k) % m)
<1> DEFINE a == r * k
           g == a \div m
           h == a % m
<1>1. a \in Nat /\ a <= m * k - k
  <2>1. m - 1 - r \in Nat /\ r \in Nat
    OBVIOUS
  <2>2. (m - 1 - r) * k \in Nat /\ r * k \in Nat
    BY <2>1
  <2>3. (m - 1 - r) * k = m * k - k - r * k
    OBVIOUS
  <2>4. m * k \in Nat
    OBVIOUS
  <2> QED BY <2>2, <2>3, <2>4
<1> HIDE DEF a
<1>2. g \in Int /\ h \in 0 .. m - 1 /\ a = m * g + h
  <2>1. g \in Int
    BY <1>1
  <2>2. h \in 0 .. m - 1
    BY <1>1
  <2>3. a = m * g + h
    BY <1>1
  <2> QED BY <2>1, <2>2, <2>3
<1> HIDE DEF g, h
<1>3. m * g \in Int /\ m * k \in Int
  BY <1>2
<1>4. ~(g < 0)
  <2> SUFFICES ASSUME g < 0 PROVE FALSE
    OBVIOUS
  <2>1. -g \in Nat \ {0}
    BY <1>2
  <2>2. m * (-g) >= m
    BY <2>1, ProductAtLeast
  <2>3. m * (-g) = -(m * g)
    BY <1>2
  <2> QED BY <1>1, <1>2, <1>3, <2>2, <2>3
<1>5. ~(g >= k)
  <2> SUFFICES ASSUME g >= k PROVE FALSE
    OBVIOUS
  <2>1. g - k \in Nat
    BY <1>2
  <2>2. m * (g - k) \in Nat
    BY <2>1
  <2>3. m * (g - k) = m * g - m * k
    BY <1>2
  <2> QED BY <1>1, <1>2, <1>3, <2>2, <2>3
<1>6. g \in 0 .. k - 1
  BY <1>2, <1>4, <1>5
<1> QED BY <1>2, <1>6 DEF a, g, h

(* The conversion of a capture time in two parts, whole seconds modulo     *)
(* AbsSeconds and a fraction, is exact: it gives what taking the whole     *)
(* time to the scale of send times gives, for any two resolutions and      *)
(* however often the seconds have wrapped (interceptor.go:205 to 215).     *)
THEOREM ConversionExact ==
  ASSUME NEW time \in Nat
  PROVE  Scaled(time) = CaptureInAbsScale(time)
<1> DEFINE A == AbsRes
           C == CaptureRes
           S == AbsSeconds
           q == time \div C
           f == time % C
           g == (f * A) \div C
           h == (f * A) % C
           p == q \div S
           r == q % S
<1>1. A \in Nat \ {0} /\ C \in Nat \ {0} /\ S \in Nat \ {0}
  BY TimeAssumption
<1> HIDE DEF A, C, S
<1>2. q \in Int /\ f \in 0 .. C - 1 /\ time = C * q + f
  <2>1. q \in Int
    BY <1>1
  <2>2. f \in 0 .. C - 1
    BY <1>1
  <2>3. time = C * q + f
    BY <1>1
  <2> QED BY <2>1, <2>2, <2>3
<1> HIDE DEF q, f
<1>3. g \in 0 .. A - 1 /\ h \in 0 .. C - 1 /\ f * A = C * g + h
  BY <1>1, <1>2, ScaledFraction
<1>4. p \in Int /\ r \in 0 .. S - 1 /\ q = S * p + r
  <2>1. p \in Int
    BY <1>1, <1>2
  <2>2. r \in 0 .. S - 1
    BY <1>1, <1>2
  <2>3. q = S * p + r
    BY <1>1, <1>2
  <2> QED BY <2>1, <2>2, <2>3
<1> HIDE DEF g, h, p, r
<1>5. (time * A) \div C = q * A + g
  <2>1. q * A + g \in Int /\ time * A \in Int
    BY <1>1, <1>2, <1>3
  <2>2. time * A = C * (q * A + g) + h
    <3>1. time * A = C * (q * A) + f * A
      BY <1>1, <1>2
    <3>2. C * (q * A + g) = C * (q * A) + C * g
      BY <1>1, <1>2, <1>3
    <3>3. C * (q * A) \in Int /\ C * g \in Int /\ f * A \in Int
      BY <1>1, <1>2, <1>3
    <3> QED BY <1>3, <3>1, <3>2, <3>3
  <2> DEFINE b == time * A
             Q == q * A + g
  <2>3. b \in Int /\ Q \in Int /\ b = C * Q + h
    BY <2>1, <2>2
  <2> HIDE DEF b, Q
  <2>4. b \div C = Q
    BY <1>1, <1>3, <2>3, DivisionUnique
  <2> QED BY <2>4 DEF b, Q
<1>6. (q * A + g) % (S * A) = r * A + g
  <2>1. S * A \in Nat \ {0}
    <3>1. S * A >= S /\ S * A \in Nat
      BY <1>1, ProductAtLeast
    <3> QED BY <1>1, <3>1
  <2>2. r * A + g \in 0 .. S * A - 1
    <3>1. S - 1 - r \in Nat /\ r \in Nat
      BY <1>1, <1>4
    <3>2. (S - 1 - r) * A \in Nat /\ r * A \in Nat
      BY <1>1, <3>1
    <3>3. (S - 1 - r) * A = S * A - A - r * A
      BY <1>1, <1>4
    <3> QED BY <1>1, <1>3, <2>1, <3>2, <3>3
  <2>3. q * A + g = (S * A) * p + (r * A + g)
    <3>1. q * A = (S * A) * p + r * A
      BY <1>1, <1>4
    <3>2. (S * A) * p \in Int /\ r * A \in Int /\ q * A \in Int
      BY <1>1, <1>2, <1>4
    <3> QED BY <1>3, <3>1, <3>2
  <2>4. q * A + g \in Int
    BY <1>1, <1>2, <1>3
  <2> QED BY <1>4, <2>1, <2>2, <2>3, <2>4, DivisionUnique
<1>7. Scaled(time) = r * A + g
  BY DEF Scaled, q, f, r, g, A, C, S
<1>8. CaptureInAbsScale(time) = ((time * A) \div C) % (S * A)
  BY DEF CaptureInAbsScale, AbsRange, A, C, S
<1> QED BY <1>5, <1>6, <1>7, <1>8

-----------------------------------------------------------------------------
(* The ids in use were offered by some stream, and are there for a stream  *)
(* that offers them once it is bound.                                      *)
IdsInv ==
  /\ offer \in [Streams -> Offers]
  /\ absExtID # NoID => \E t \in Streams : absExtID = offer[t].abs
  /\ captureExtID # NoID => \E t \in Streams : captureExtID = offer[t].capture
  /\ \A s \in Streams :
       /\ pc[s] # "new" /\ offer[s].abs # NoID => absExtID # NoID
       /\ pc[s] \notin {"new", "bind"} /\ offer[s].capture # NoID => captureExtID # NoID

(* A packet in hand has the timestamps its stream offers; what has been    *)
(* loaded and chosen for it is what the agreement makes of them.           *)
TimeInv ==
  /\ DOMAIN pc = Streams /\ DOMAIN packet = Streams
  /\ DOMAIN loaded = Streams /\ DOMAIN sendTime = Streams
  /\ \A s \in Streams :
       /\ packet[s].abs \in AbsTimes \cup {NoExt}
       /\ packet[s].capture \in CaptureTimes \cup {NoExt}
       /\ packet[s].abs # NoExt => offer[s].abs # NoID
       /\ packet[s].capture # NoExt => offer[s].capture # NoID
       /\ pc[s] = "loadCapture" =>
            loaded[s] = absExtID \/ (loaded[s] = NoID /\ offer[s].abs = NoID)
       /\ pc[s] \in {"get", "feed"} /\ Agrees(s) => sendTime[s].value = OwnTime(s)

LEMMA AbsTimeUnderAgreement ==
  ASSUME IdsInv, TimeInv, NEW s \in Streams, pc[s] = "loadCapture", Agrees(s)
  PROVE  AbsSendTime(s, loaded[s]) = IF packet[s].abs \notin {NoExt, 0} THEN packet[s].abs ELSE 0
<1>1. CASE packet[s].abs # NoExt
  <2>1. offer[s].abs # NoID /\ loaded[s] = absExtID /\ absExtID # NoID
    BY <1>1 DEF IdsInv, TimeInv
  <2>2. PICK t \in Streams : absExtID = offer[t].abs
    BY <2>1 DEF IdsInv
  <2>3. offer[t].abs = offer[s].abs
    BY <2>1, <2>2 DEF Agrees
  <2>4. Extension(s, loaded[s]) = [bytes |-> 3, value |-> packet[s].abs]
    BY <1>1, <2>1, <2>2, <2>3 DEF Extension
  <2> QED BY <1>1, <2>1, <2>4 DEF AbsSendTime, FirstThreeBytes
<1>2. CASE packet[s].abs = NoExt
  <2>1. CASE loaded[s] = NoID
    BY <1>2, <2>1 DEF AbsSendTime
  <2>2. CASE loaded[s] # NoID
    <3>1. PICK t \in Streams : loaded[s] = offer[t].abs
      BY <2>2 DEF IdsInv, TimeInv
    <3>2. loaded[s] # offer[s].capture
      BY <2>2, <3>1 DEF Agrees
    <3>3. Extension(s, loaded[s]).bytes = 0
      BY <1>2, <3>2 DEF Extension, NoExtension
    <3> QED BY <1>2, <3>3 DEF AbsSendTime
  <2> QED BY <2>1, <2>2
<1> QED BY <1>1, <1>2

LEMMA CaptureTimeUnderAgreement ==
  ASSUME IdsInv, TimeInv, NEW s \in Streams, pc[s] = "loadCapture", Agrees(s)
  PROVE  AbsCaptureTime(s, captureExtID)
           = IF packet[s].capture # NoExt THEN CaptureInAbsScale(packet[s].capture) ELSE 0
<1>1. CASE packet[s].capture # NoExt
  <2>1. offer[s].capture # NoID /\ captureExtID # NoID
    BY <1>1 DEF IdsInv, TimeInv
  <2>2. PICK t \in Streams : captureExtID = offer[t].capture
    BY <2>1 DEF IdsInv
  <2>3. captureExtID = offer[s].capture
    BY <2>1, <2>2 DEF Agrees
  <2>4. offer[s].abs # offer[s].capture
    <3>1. offer[s] \in Offers
      BY DEF IdsInv
    <3> QED BY <2>1, <3>1, TimeAssumption
  <2>5. Extension(s, captureExtID) = [bytes |-> 8, value |-> packet[s].capture]
    BY <1>1, <2>3, <2>4 DEF Extension
  <2>6. packet[s].capture \in Nat
    <3>1. CaptureRange \in Nat
      BY TimeAssumption DEF CaptureRange
    <3>2. packet[s].capture \in 0 .. CaptureRange - 1
      BY <1>1, TimeAssumption DEF TimeInv
    <3> QED BY <3>1, <3>2
  <2> QED BY <1>1, <2>1, <2>5, <2>6, ConversionExact DEF AbsCaptureTime
<1>2. CASE packet[s].capture = NoExt
  <2>1. Extension(s, captureExtID).bytes \in {0, 3}
    BY <1>2 DEF Extension, NoExtension
  <2> QED BY <1>2, <2>1 DEF AbsCaptureTime
<1> QED BY <1>1, <1>2

LEMMA ChosenIsOwn ==
  ASSUME IdsInv, TimeInv, NEW s \in Streams, pc[s] = "loadCapture", Agrees(s)
  PROVE  ChosenTime(s, loaded[s], captureExtID).value = OwnTime(s)
<1>1. ChosenTime(s, loaded[s], captureExtID).value
        = IF AbsSendTime(s, loaded[s]) # 0 THEN AbsSendTime(s, loaded[s])
          ELSE AbsCaptureTime(s, captureExtID)
  BY DEF ChosenTime, NoTime
<1> QED BY <1>1, AbsTimeUnderAgreement, CaptureTimeUnderAgreement DEF OwnTime

LEMMA IdsInvInit == Init => IdsInv
BY DEF Init, IdsInv

LEMMA TimeInvInit == Init => TimeInv
<1>1. NoPacket.abs = NoExt /\ NoPacket.capture = NoExt
  BY DEF NoPacket
<1> QED BY <1>1 DEF Init, TimeInv

(* The two ids are set once: BindAbs and BindCapture alone store them.     *)
LEMMA IdsInvStep == IdsInv /\ TimeInv /\ [Next]_vars => IdsInv'
<1> SUFFICES ASSUME IdsInv, TimeInv, [Next]_vars PROVE IdsInv'
  OBVIOUS
<1>0. DOMAIN pc = Streams
  BY DEF TimeInv
<1>1. ASSUME NEW s \in Streams, BindAbs(s) PROVE IdsInv'
  <2>1. /\ pc' = [pc EXCEPT ![s] = "bind"] /\ UNCHANGED <<offer, captureExtID>>
        /\ absExtID' = IF absExtID = NoID THEN offer[s].abs ELSE absExtID
        /\ pc[s] = "new"
    BY <1>1 DEF BindAbs, CompareAndSwap, Goto
  <2> QED BY <1>0, <2>1 DEF IdsInv
<1>2. ASSUME NEW s \in Streams, BindCapture(s) PROVE IdsInv'
  <2>1. /\ pc' = [pc EXCEPT ![s] = "read"] /\ UNCHANGED <<offer, absExtID>>
        /\ captureExtID' = IF captureExtID = NoID THEN offer[s].capture ELSE captureExtID
        /\ pc[s] = "bind"
    BY <1>2 DEF BindCapture, CompareAndSwap, Goto
  <2> QED BY <1>0, <2>1 DEF IdsInv
<1>3. ASSUME NEW s \in Streams,
             \/ LoadAbs(s) \/ LoadCapture(s) \/ GetInfo(s) \/ Feed(s) \/ PutInfo(s)
             \/ \E p \in Packets : Read(s, p)
      PROVE  IdsInv'
  <2>1. /\ \E place : pc' = [pc EXCEPT ![s] = place]
        /\ pc[s] \notin {"new", "bind"}
        /\ UNCHANGED <<offer, absExtID, captureExtID>>
    BY <1>3 DEF LoadAbs, LoadCapture, GetInfo, Feed, PutInfo, Read, Goto
  <2> QED BY <1>0, <2>1 DEF IdsInv
<1>4. CASE UNCHANGED vars
  BY <1>4 DEF vars, IdsInv
<1> QED BY <1>1, <1>2, <1>3, <1>4 DEF Next

(* What is own and what agrees depends on the packet in hand and on the    *)
(* offers, which never change.                                             *)
LEMMA OwnTimeKept ==
  ASSUME NEW s \in Streams, offer' = offer, packet'[s] = packet[s]
  PROVE  OwnTime(s)' = OwnTime(s) /\ (Agrees(s)' <=> Agrees(s))
BY DEF OwnTime, Agrees, CaptureInAbsScale

LEMMA TimeInvStep == IdsInv /\ TimeInv /\ [Next]_vars => TimeInv'
<1> SUFFICES ASSUME IdsInv, TimeInv, [Next]_vars PROVE TimeInv'
  OBVIOUS
<1>0. DOMAIN pc = Streams /\ DOMAIN packet = Streams
      /\ DOMAIN loaded = Streams /\ DOMAIN sendTime = Streams
  BY DEF TimeInv
<1>1. ASSUME NEW s \in Streams, BindAbs(s) PROVE TimeInv'
  <2>1. /\ pc' = [pc EXCEPT ![s] = "bind"]
        /\ UNCHANGED <<offer, packet, loaded, sendTime>>
        /\ absExtID = NoID \/ absExtID' = absExtID
    BY <1>1 DEF BindAbs, CompareAndSwap, Goto
  <2>2. \A t \in Streams : pc'[t] = "loadCapture" =>
          loaded[t] = absExtID' \/ (loaded[t] = NoID /\ offer[t].abs = NoID)
    BY <1>0, <2>1 DEF TimeInv, IdsInv
  <2> QED BY <1>0, <2>1, <2>2, OwnTimeKept DEF TimeInv
<1>2. ASSUME NEW s \in Streams, BindCapture(s) \/ GetInfo(s) \/ Feed(s) \/ PutInfo(s)
      PROVE  TimeInv'
  <2>1. /\ \/ pc' = [pc EXCEPT ![s] = "read"]
           \/ pc' = [pc EXCEPT ![s] = "put"]
           \/ pc[s] = "get" /\ pc' = [pc EXCEPT ![s] = "feed"]
        /\ UNCHANGED <<offer, absExtID, packet, loaded, sendTime>>
    BY <1>2 DEF BindCapture, GetInfo, Feed, PutInfo, Goto
  <2> QED BY <1>0, <2>1, OwnTimeKept DEF TimeInv
<1>3. ASSUME NEW s \in Streams, NEW p \in Packets, Read(s, p) PROVE TimeInv'
  <2>1. /\ pc' = [pc EXCEPT ![s] = "loadAbs"] /\ packet' = [packet EXCEPT ![s] = p]
        /\ p.abs # NoExt => offer[s].abs # NoID
        /\ p.capture # NoExt => offer[s].capture # NoID
        /\ UNCHANGED <<offer, absExtID, loaded, sendTime>>
    BY <1>3 DEF Read, Goto
  <2>2. p.abs \in AbsTimes /\ p.capture \in CaptureTimes
    BY DEF Packets
  <2>3. \A t \in Streams \ {s} : packet'[t] = packet[t] /\ pc'[t] = pc[t]
    BY <1>0, <2>1
  <2>4. \A t \in Streams \ {s} : OwnTime(t)' = OwnTime(t) /\ (Agrees(t)' <=> Agrees(t))
    BY <2>1, <2>3, OwnTimeKept
  <2> QED BY <1>0, <2>1, <2>2, <2>3, <2>4 DEF TimeInv
<1>4. ASSUME NEW s \in Streams, LoadAbs(s) PROVE TimeInv'
  <2>1. /\ loaded' = [loaded EXCEPT ![s] = absExtID]
        /\ pc' = [pc EXCEPT ![s] = "loadCapture"]
        /\ UNCHANGED <<offer, absExtID, packet, sendTime>>
    BY <1>4 DEF LoadAbs, Goto
  <2> QED BY <1>0, <2>1, OwnTimeKept DEF TimeInv
<1>5. ASSUME NEW s \in Streams, LoadCapture(s) PROVE TimeInv'
  <2> DEFINE time == ChosenTime(s, loaded[s], captureExtID)
  <2>1. /\ pc[s] = "loadCapture"
        /\ UNCHANGED <<offer, absExtID, packet, loaded>>
        /\ \/ pc' = [pc EXCEPT ![s] = "read"] /\ sendTime' = sendTime
           \/ pc' = [pc EXCEPT ![s] = "get"] /\ sendTime' = [sendTime EXCEPT ![s] = time]
    BY <1>5 DEF LoadCapture, Goto
  <2>2. Agrees(s) => time.value = OwnTime(s)
    BY <2>1, ChosenIsOwn
  <2> HIDE DEF time
  <2> QED BY <1>0, <2>1, <2>2, OwnTimeKept DEF TimeInv
<1>6. CASE UNCHANGED vars
  BY <1>6, OwnTimeKept DEF vars, TimeInv
<1> QED BY <1>1, <1>2, <1>3, <1>4, <1>5, <1>6 DEF Next

(* When the streams agree on ids, every packet reaches the estimator with  *)
(* its own time, in one scale, and is skipped only if it has none or a     *)
(* time of zero, for any streams, offers, packets and units                *)
(* (interceptor.go:170 to 230, extension.go).                              *)
THEOREM EveryPacketKeepsItsTime == Spec => OwnTimeFed
<1> DEFINE Fed(s) ==
      Agrees(s) /\ <<pc[s], pc'[s]>> \in {<<"feed", "put">>, <<"loadCapture", "read">>}
        => fed'[s].sendTime = OwnTime(s)
<1>1. PoolInv /\ IdsInv /\ TimeInv /\ [Next]_vars => [\A s \in Streams : Fed(s)]_vars
  <2> SUFFICES ASSUME PoolInv, IdsInv, TimeInv, Next, NEW s \in Streams, Agrees(s),
                      <<pc[s], pc'[s]>> \in {<<"feed", "put">>, <<"loadCapture", "read">>}
      PROVE  fed'[s].sendTime = OwnTime(s)
    OBVIOUS
  <2>0. DOMAIN pc = Streams /\ DOMAIN fed = Streams
    BY DEF TimeInv, PoolInv
  <2>1. PICK t \in Streams :
          \/ BindAbs(t) \/ BindCapture(t) \/ (\E p \in Packets : Read(t, p))
          \/ LoadAbs(t) \/ LoadCapture(t) \/ GetInfo(t) \/ Feed(t) \/ PutInfo(t)
    BY DEF Next
  <2>2. \E place : pc' = [pc EXCEPT ![t] = place]
    BY <2>1 DEF BindAbs, BindCapture, Read, LoadAbs, LoadCapture, GetInfo, Feed, PutInfo, Goto
  <2>3. t = s
    BY <2>0, <2>2
  <2>4. CASE pc[s] = "feed"
    <3>1. Feed(s)
      BY <2>1, <2>3, <2>4
        DEF BindAbs, BindCapture, Read, LoadAbs, LoadCapture, GetInfo, PutInfo
    <3>2. fed'[s] = content[held[s]]
      BY <2>0, <3>1 DEF Feed
    <3>3. content[held[s]] = [ssrc |-> s, sendTime |-> sendTime[s].value]
      BY <2>4 DEF PoolInv, FedIsOwnPacket
    <3>4. sendTime[s].value = OwnTime(s)
      BY <2>4 DEF TimeInv
    <3> QED BY <3>2, <3>3, <3>4
  <2>5. CASE pc[s] = "loadCapture"
    <3>1. LoadCapture(s) /\ pc'[s] = "read"
      BY <2>1, <2>3, <2>5 DEF BindAbs, BindCapture, Read, LoadAbs, GetInfo, Feed, PutInfo
    <3>2. ChosenTime(s, loaded[s], captureExtID) = NoTime /\ fed'[s] = NoInfo
      BY <2>0, <3>1 DEF LoadCapture, Goto
    <3>3. NoTime.value = 0 /\ NoInfo.sendTime = 0
      BY DEF NoTime, NoInfo
    <3> QED BY <2>5, <3>2, <3>3, ChosenIsOwn
  <2> QED BY <2>4, <2>5
<1> QED BY PoolInvInit, PoolInvStep, IdsInvInit, IdsInvStep, TimeInvInit, TimeInvStep, <1>1, PTL
        DEF Spec, OwnTimeFed
=============================================================================
