----------------------------- MODULE RtpReceive -----------------------------
(***************************************************************************)
(* The receive path of the interceptor, pkg/bwe/interceptor: the header    *)
(* extension ids that BindRemoteStream takes from the streams, and         *)
(* processRTP, which every stream's reader runs in its own goroutine, with *)
(* the pool of PacketInfo structs that all readers share.                  *)
(*                                                                         *)
(* A sender puts its two timestamps under the ids its own stream has       *)
(* negotiated.  An unreadable packet changes nothing and is left out; the  *)
(* tracking of streams is in StreamTracking.                               *)
(***************************************************************************)
EXTENDS Integers

CONSTANTS
  Streams,
  Offers,            (* [abs, capture]: what a stream may have negotiated  *)
  AbsTimes,          (* abs-send-times in packets, or NoExt                *)
  CaptureTimes,      (* abs-capture-times in packets, or NoExt             *)
  AbsRes, CaptureRes, (* units per second of the two timestamps            *)
  AbsSeconds, CaptureSeconds, (* seconds until each wraps                  *)
  Infos              (* the PacketInfo structs that may get allocated      *)

NoExt == -1          \* the packet lacks the extension
NoID == 0            \* FindExtensionID found no such URI

AbsRange == AbsSeconds * AbsRes
CaptureRange == CaptureSeconds * CaptureRes

(* In the code 2^18 and 2^32 units, 2^6 and 2^32 seconds. *)
ASSUME TimeAssumption ==
  /\ {AbsRes, CaptureRes, AbsSeconds, CaptureSeconds} \subseteq Nat \ {0}
  /\ CaptureRange >= AbsRange
  /\ AbsTimes \subseteq 0 .. AbsRange - 1 \cup {NoExt}
  /\ CaptureTimes \subseteq 0 .. CaptureRange - 1 \cup {NoExt}
  /\ Offers \subseteq [abs : Nat, capture : Nat]
  /\ \A o \in Offers : o.abs = o.capture => o.abs = NoID

VARIABLES
  offer,                  (* StreamInfo: the ids of each stream            *)
  absExtID, captureExtID, (* the interceptor's atomics                     *)
  pc,                     (* where the goroutine of each stream is         *)
  packet,                 (* the packet it works on                        *)
  loaded,                 (* the abs id it has loaded                      *)
  sendTime,               (* its local sendTime, and what it is from       *)
  held,                   (* the PacketInfo it has got from the pool       *)
  content,                (* ssrc and SendTime of each PacketInfo          *)
  free,                   (* the pool                                      *)
  fed                     (* what the estimator last got from a stream     *)

vars == <<offer, absExtID, captureExtID, pc, packet, loaded, sendTime, held, content,
          free, fed>>

Packets == [abs : AbsTimes, capture : CaptureTimes]
NoPacket == [abs |-> NoExt, capture |-> NoExt]
NoTime == [value |-> 0, source |-> "none", id |-> NoID]
NoInfo == [ssrc |-> "none", sendTime |-> 0]

Init ==
  /\ offer \in [Streams -> Offers]
  /\ absExtID = NoID /\ captureExtID = NoID
  /\ pc = [s \in Streams |-> "new"]
  /\ packet = [s \in Streams |-> NoPacket]
  /\ loaded = [s \in Streams |-> NoID]
  /\ sendTime = [s \in Streams |-> NoTime]
  /\ held = [s \in Streams |-> NoInfo]
  /\ content = [i \in Infos |-> NoInfo]
  /\ free = Infos
  /\ fed = [s \in Streams |-> NoInfo]

Goto(s, place) == pc' = [pc EXCEPT ![s] = place]

-----------------------------------------------------------------------------
(* BindRemoteStream: the first stream that provides an id wins; both ids   *)
(* are set one after the other, while readers of other streams run.        *)
Stored(current, offered) == offered          \* mutation: Store for CompareAndSwap

CompareAndSwap(current, offered) == IF current = NoID THEN offered ELSE current

BindAbs(s) ==
  /\ pc[s] = "new"
  /\ absExtID' = CompareAndSwap(absExtID, offer[s].abs)
  /\ Goto(s, "bind")
  /\ UNCHANGED <<offer, captureExtID, packet, loaded, sendTime, held, content, free, fed>>

BindCapture(s) ==
  /\ pc[s] = "bind"
  /\ captureExtID' = CompareAndSwap(captureExtID, offer[s].capture)
  /\ Goto(s, "read")
  /\ UNCHANGED <<offer, absExtID, packet, loaded, sendTime, held, content, free, fed>>

-----------------------------------------------------------------------------
(* header.GetExtension: the bytes under an id and the number they hold.    *)
NoExtension == [bytes |-> 0, value |-> 0]
Extension(s, id) ==
  IF id = offer[s].abs /\ packet[s].abs # NoExt
    THEN [bytes |-> 3, value |-> packet[s].abs]
  ELSE IF id = offer[s].capture /\ packet[s].capture # NoExt
    THEN [bytes |-> 8, value |-> packet[s].capture]
  ELSE NoExtension

(* AbsSendTimeExtension.Unmarshal takes the first three bytes. *)
FirstThreeBytes(ext) ==
  IF ext.bytes = 3 THEN ext.value ELSE ext.value \div (CaptureRange \div AbsRange)

AbsSendTime(s, id) ==
  LET ext == Extension(s, id)
  IN  IF id # NoID /\ ext.bytes >= 3 THEN FirstThreeBytes(ext) ELSE 0

(* The conversion of a capture time to the scale of a send time.           *)
ScaledSecondsOnly(time) == ((time \div CaptureRes) % AbsSeconds) * AbsRes  \* mutation: no fraction

Scaled(time) ==
  LET seconds == (time \div CaptureRes) % AbsSeconds
      fraction == ((time % CaptureRes) * AbsRes) \div CaptureRes
  IN  seconds * AbsRes + fraction

AbsCaptureTime(s, id) ==
  LET ext == Extension(s, id)
  IN  IF id # NoID /\ ext.bytes >= 8 THEN Scaled(ext.value) ELSE 0

ChosenTime(s, absID, captureID) ==
  IF AbsSendTime(s, absID) # 0
    THEN [value |-> AbsSendTime(s, absID), source |-> "abs", id |-> absID]
  ELSE IF AbsCaptureTime(s, captureID) # 0
    THEN [value |-> AbsCaptureTime(s, captureID), source |-> "capture", id |-> captureID]
  ELSE NoTime

-----------------------------------------------------------------------------
(* processRTP *)
Read(s, p) ==
  /\ pc[s] = "read"
  /\ p.abs # NoExt => offer[s].abs # NoID
  /\ p.capture # NoExt => offer[s].capture # NoID
  /\ packet' = [packet EXCEPT ![s] = p]
  /\ Goto(s, "loadAbs")
  /\ UNCHANGED <<offer, absExtID, captureExtID, loaded, sendTime, held, content, free, fed>>

LoadAbs(s) ==
  /\ pc[s] = "loadAbs"
  /\ loaded' = [loaded EXCEPT ![s] = absExtID]
  /\ Goto(s, "loadCapture")
  /\ UNCHANGED <<offer, absExtID, captureExtID, packet, sendTime, held, content, free, fed>>

(* A packet without a timestamp is skipped, and so is one whose time is 0. *)
LoadCapture(s) ==
  /\ pc[s] = "loadCapture"
  /\ LET time == ChosenTime(s, loaded[s], captureExtID)
     IN  IF time = NoTime
           THEN /\ fed' = [fed EXCEPT ![s] = NoInfo]
                /\ Goto(s, "read")
                /\ UNCHANGED sendTime
           ELSE /\ sendTime' = [sendTime EXCEPT ![s] = time]
                /\ Goto(s, "get")
                /\ UNCHANGED fed
  /\ UNCHANGED <<offer, absExtID, captureExtID, packet, loaded, held, content, free>>

FreeAfterGetShared(i) == free              \* mutation: given back before it is used

FreeAfterGet(i) == free \ {i}

(* getPacketInfo and the four assignments. *)
GetInfo(s) ==
  /\ pc[s] = "get"
  /\ \E i \in free :
        /\ held' = [held EXCEPT ![s] = i]
        /\ free' = FreeAfterGet(i)
        /\ content' = [content EXCEPT ![i] = [ssrc |-> s, sendTime |-> sendTime[s].value]]
  /\ Goto(s, "feed")
  /\ UNCHANGED <<offer, absExtID, captureExtID, packet, loaded, sendTime, fed>>

(* OnPacket takes the struct by value. *)
Feed(s) ==
  /\ pc[s] = "feed"
  /\ fed' = [fed EXCEPT ![s] = content[held[s]]]
  /\ Goto(s, "put")
  /\ UNCHANGED <<offer, absExtID, captureExtID, packet, loaded, sendTime, held, content, free>>

PutInfo(s) ==
  /\ pc[s] = "put"
  /\ content' = [content EXCEPT ![held[s]] = NoInfo]
  /\ free' = free \cup {held[s]}
  /\ Goto(s, "read")
  /\ UNCHANGED <<offer, absExtID, captureExtID, packet, loaded, sendTime, held, fed>>

Next ==
  \E s \in Streams :
    \/ BindAbs(s) \/ BindCapture(s)
    \/ \E p \in Packets : Read(s, p)
    \/ LoadAbs(s) \/ LoadCapture(s) \/ GetInfo(s) \/ Feed(s) \/ PutInfo(s)

Spec == Init /\ [][Next]_vars

-----------------------------------------------------------------------------
(* Every stream that negotiated an abs-send-time id agrees with this one,  *)
(* and none uses its capture id for send times.                            *)
Agrees(s) ==
  \A o \in {offer[t] : t \in Streams} :
    /\ o.abs # NoID => o.abs # offer[s].capture /\ (offer[s].abs # NoID => o.abs = offer[s].abs)
    /\ o.capture # NoID /\ offer[s].capture # NoID => o.capture = offer[s].capture

(* The time a packet was captured in 24 bits, by definition. *)
CaptureInAbsScale(time) == ((time * AbsRes) \div CaptureRes) % AbsRange

(* What the estimator ought to be fed. *)
OwnTime(s) ==
  IF packet[s].abs \notin {NoExt, 0} THEN packet[s].abs
  ELSE IF packet[s].capture # NoExt THEN CaptureInAbsScale(packet[s].capture)
  ELSE 0

(* When the streams agree on ids, every packet reaches the estimator with  *)
(* its own send time, or with its own capture time in the same scale if    *)
(* its send time is missing or zero, and is skipped only when both are,    *)
(* whatever other streams are being bound meanwhile.                       *)
OwnTimeFed ==
  [][\A s \in Streams :
       Agrees(s) /\ <<pc[s], pc'[s]>> \in {<<"feed", "put">>, <<"loadCapture", "read">>}
         => fed'[s].sendTime = OwnTime(s)]_vars

(* A stream whose send times have been read under some id goes on with     *)
(* this id: it switches to capture times, which may be of another clock,   *)
(* only for a packet whose send time under the same id is zero, whichever  *)
(* ids the streams that join have negotiated.                              *)
ClockSwitchHasCause ==
  [][\A s \in Streams :
       sendTime[s].source = "abs" =>
         \/ sendTime'[s].source = "abs" /\ sendTime'[s].id = sendTime[s].id
         \/ AbsSendTime(s, sendTime[s].id) = 0]_sendTime

(* However the readers interleave, what the estimator gets from a reader   *)
(* is its own packet: a pooled struct is never in two hands.               *)
FedIsOwnPacket ==
  \A s \in Streams :
    /\ pc[s] = "feed" => content[held[s]] = [ssrc |-> s, sendTime |-> sendTime[s].value]
    /\ fed[s].ssrc \in {s, "none"}
=============================================================================
