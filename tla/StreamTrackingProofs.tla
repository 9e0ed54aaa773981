------------------------ MODULE StreamTrackingProofs ------------------------
(***************************************************************************)
(* Theorems about StreamTracking: a silent stream is removed in time, and  *)
(* none that was not silent just before, for every number of streams,      *)
(* every timeout, period and lag, and every interleaving of readers,       *)
(* binders and cleanup loop.                                               *)
(***************************************************************************)
EXTENDS StreamTracking, TLAPS

ReaderType ==
  [at : {"idle", "stamped", "loaded"}, stamp : 0 .. MaxLag, linked : BOOLEAN]

CleanupType ==
  [at : {"idle", "ticked", "ranging"}, todo : SUBSET SSRCs, doomed : SUBSET SSRCs]

TypeInv ==
  /\ streams \in [SSRCs -> Ages \cup {Untracked}]
  /\ reader \in [SSRCs -> ReaderType]
  /\ sinceTick \in 0 .. CleanupPeriod - 1
  /\ cleanup \in CleanupType
  /\ bound \subseteq SSRCs
  /\ silence \in [SSRCs -> Nat] /\ sincePause \in [SSRCs -> Nat]

(* The loop is never later than MaxLag, holds keys only while it ranges,   *)
(* and dooms one at a time.                                                *)
LoopInv ==
  /\ cleanup.at # "idle" => sinceTick <= MaxLag
  /\ cleanup.at # "ranging" => cleanup.todo = {} /\ cleanup.doomed = {}
  /\ \A j, k \in cleanup.doomed : j = k

(* The cleanup that has begun has yet to deal with the stream.             *)
Pending(k) == cleanup.at = "ticked" \/ k \in cleanup.todo \/ k \in cleanup.doomed

(* A stream that this cleanup has passed over was active at its tick; one  *)
(* that it has not come to was active at the tick before.                  *)
AgeInv ==
  \A k \in Tracked :
    /\ streams[k] <= StreamTimeout + CleanupPeriod + sinceTick
    /\ ~Pending(k) => streams[k] <= StreamTimeout + sinceTick

(* A packet that is on its way to the stream's state in the map.           *)
UnderWay(k) ==
  reader[k].at = "stamped" \/ (reader[k].at = "loaded" /\ reader[k].linked)

(* What is stored lags the silence by MaxLag, unless a packet is under way *)
(* that has ended the silence: then it was a pause, or not a long one.  So *)
(* what the cleanup finds inactive was in a pause when it was found or     *)
(* MaxLag before.                                                          *)
StoredInTime(k) == InPause(k) \/ streams[k] <= silence[k] + MaxLag

EndsSilence(k) ==
  /\ UnderWay(k)
  /\ \/ sincePause[k] <= reader[k].stamp
     \/ streams[k] <= LongestGap + MaxLag + reader[k].stamp

PauseInv ==
  /\ Tracked \subseteq bound
  /\ \A k \in SSRCs : reader[k].at = "loaded" /\ reader[k].linked => k \in Tracked
  /\ \A k \in SSRCs : InPause(k) => sincePause[k] = 0
  /\ \A k \in Tracked : StoredInTime(k) \/ EndsSilence(k)
  /\ \A k \in cleanup.doomed : sincePause[k] <= MaxLag + sinceTick

IInv == TypeInv /\ LoopInv /\ AgeInv /\ PauseInv

-----------------------------------------------------------------------------
LEMMA Configured ==
  /\ {StreamTimeout, CleanupPeriod, MaxLag, MaxAge} \subseteq Nat \ {0}
  /\ MaxLag < CleanupPeriod /\ MaxLag < StreamTimeout /\ StreamTimeout < MaxAge
  /\ LongestGap \in Nat /\ StreamTimeout = LongestGap + MaxLag + MaxLag
  /\ LongAgo \in Nat
BY ConfigAssumption DEF MaxAge, LongestGap, LongAgo

LEMMA IInvInit == Init => IInv
BY Configured DEF Init, IInv, TypeInv, LoopInv, AgeInv, PauseInv, Tracked, IdleReader,
   IdleCleanup, ReaderType, CleanupType, Untracked, InPause

(* A store in the map leaves the invariant alone if the stream becomes     *)
(* young, or goes, and the cleanup loop keeps its place or is done with    *)
(* the stream.                                                             *)
LEMMA StoreKeepsIInv ==
  ASSUME IInv, NEW k \in SSRCs, NEW age \in 0 .. MaxLag \cup {Untracked},
         streams' = [streams EXCEPT ![k] = age],
         reader' \in [SSRCs -> ReaderType], reader'[k].linked = FALSE,
         \A j \in SSRCs \ {k} : reader'[j] = reader[j],
         bound' \subseteq SSRCs, age # Untracked => k \in bound',
         \A j \in SSRCs \ {k} : j \in bound' <=> j \in bound,
         silence' = silence \/ silence' = [silence EXCEPT ![k] = 0],
         InPause(k)' => InPause(k),
         cleanup' = cleanup \/ (k \in cleanup.doomed /\ age = Untracked
                                /\ cleanup' = [cleanup EXCEPT !.doomed = {}]),
         UNCHANGED <<sinceTick, sincePause>>
  PROVE  IInv'
<1>1. TypeInv /\ LoopInv /\ AgeInv /\ PauseInv
  BY DEF IInv
<1>2. /\ age \in Ages \cup {Untracked} /\ age \in Int /\ age < StreamTimeout
  BY Configured DEF Ages, Untracked, MaxAge
<1>3. /\ streams'[k] = age
      /\ \A j \in SSRCs \ {k} : streams'[j] = streams[j]
      /\ streams' \in [SSRCs -> Ages \cup {Untracked}]
  BY <1>1, <1>2 DEF TypeInv
<1>4. cleanup' \in CleanupType /\ cleanup'.at = cleanup.at /\ cleanup'.todo = cleanup.todo
      /\ cleanup'.doomed \subseteq cleanup.doomed
  BY <1>1 DEF TypeInv, CleanupType
<1>5. TypeInv' /\ \A j \in SSRCs \ {k} : silence'[j] = silence[j]
  BY <1>1, <1>3, <1>4 DEF TypeInv
<1>6. LoopInv'
  BY <1>1, <1>4 DEF LoopInv
<1>7. AgeInv'
  <2> SUFFICES ASSUME NEW j \in SSRCs, streams'[j] # Untracked
               PROVE  /\ streams'[j] <= StreamTimeout + CleanupPeriod + sinceTick
                      /\ ~Pending(j)' => streams'[j] <= StreamTimeout + sinceTick
    BY DEF AgeInv, Tracked
  <2>1. sinceTick \in Nat
    BY <1>1, Configured DEF TypeInv
  <2>2. CASE j = k
    BY <1>2, <1>3, <2>1, <2>2, Configured
  <2>3. CASE j # k
    <3>1. streams'[j] = streams[j] /\ j \in Tracked
      BY <1>3, <2>3 DEF Tracked
    <3>2. Pending(j) => Pending(j)'
      BY <1>1, <1>4, <2>3 DEF Pending, LoopInv
    <3> QED BY <1>1, <3>1, <3>2 DEF AgeInv
  <2> QED BY <2>2, <2>3
<1>8. PauseInv'
  <2>1. \A j \in SSRCs \ {k} : j \in Tracked' <=> j \in Tracked
    BY <1>3 DEF Tracked
  <2>2. k \in Tracked' => age \in 0 .. MaxLag /\ k \in bound'
    BY <1>3 DEF Tracked
  <2>3. Tracked' \subseteq bound'
    BY <1>1, <2>1, <2>2 DEF PauseInv, Tracked
  <2>4. \A j \in SSRCs : reader'[j].at = "loaded" /\ reader'[j].linked => j \in Tracked'
    BY <1>1, <2>1 DEF PauseInv
  <2>5. \A j \in SSRCs : InPause(j)' => InPause(j)
    BY <1>5 DEF InPause
  <2>6. \A j \in Tracked' : StoredInTime(j)' \/ EndsSilence(j)'
    <3> SUFFICES ASSUME NEW j \in Tracked' PROVE StoredInTime(j)' \/ EndsSilence(j)'
      OBVIOUS
    <3>1. CASE j = k
      BY <1>3, <1>5, <2>2, <3>1, Configured DEF StoredInTime, TypeInv
    <3>2. CASE j # k
      <4>1. j \in Tracked /\ streams'[j] = streams[j] /\ silence'[j] = silence[j]
            /\ reader'[j] = reader[j] /\ (InPause(j)' <=> InPause(j))
        BY <1>3, <1>5, <2>1, <3>2 DEF Tracked, InPause
      <4> QED BY <1>1, <4>1 DEF PauseInv, StoredInTime, EndsSilence, UnderWay
    <3> QED BY <3>1, <3>2
  <2> QED BY <1>1, <1>4, <2>3, <2>4, <2>5, <2>6 DEF PauseInv
<1> QED BY <1>5, <1>6, <1>7, <1>8 DEF IInv

-----------------------------------------------------------------------------
(* The binders and the readers.                                            *)
LEMMA StreamStep ==
  ASSUME IInv, NEW k \in SSRCs,
         BindRemoteStream(k) \/ UnbindRemoteStream(k) \/ Stamp(k) \/ LoadStream(k)
           \/ UpdateLastPacket(k)
  PROVE  IInv'
<1>1. TypeInv /\ LoopInv /\ AgeInv /\ PauseInv
  BY DEF IInv
<1>2. /\ reader \in [SSRCs -> ReaderType] /\ reader[k] \in ReaderType
      /\ reader[k].stamp \in 0 .. MaxLag /\ 0 \in 0 .. MaxLag
      /\ bound \subseteq SSRCs
  BY <1>1, Configured DEF TypeInv, ReaderType
<1>3. IdleReader \in ReaderType
  BY Configured DEF IdleReader, ReaderType
<1>4. CASE BindRemoteStream(k)
  <2>1. /\ reader' \in [SSRCs -> ReaderType] /\ reader'[k].linked = FALSE
        /\ \A j \in SSRCs \ {k} : reader'[j] = reader[j]
    BY <1>2, <1>4 DEF BindRemoteStream, MapSet, ReaderType
  <2>2. /\ streams' = [streams EXCEPT ![k] = 0] /\ 0 # Untracked
        /\ bound' = bound \cup {k} /\ silence' = [silence EXCEPT ![k] = 0]
        /\ UNCHANGED <<cleanup, sinceTick, sincePause>>
    BY <1>4 DEF BindRemoteStream, MapSet, NewStreamState, Untracked
  <2>3. ~InPause(k)'
    BY <1>1, <2>2, Configured DEF InPause, TypeInv
  <2> QED BY <1>2, <2>1, <2>2, <2>3, StoreKeepsIInv
<1>5. CASE UnbindRemoteStream(k)
  <2>1. /\ reader' \in [SSRCs -> ReaderType] /\ reader'[k].linked = FALSE
        /\ \A j \in SSRCs \ {k} : reader'[j] = reader[j]
    BY <1>2, <1>5 DEF UnbindRemoteStream, MapSet, ReaderType
  <2>2. /\ streams' = [streams EXCEPT ![k] = Untracked]
        /\ bound' = bound \ {k} /\ UNCHANGED <<cleanup, silence, sinceTick, sincePause>>
    BY <1>5 DEF UnbindRemoteStream, MapSet, heard
  <2>3. ~InPause(k)'
    BY <2>2 DEF InPause
  <2> QED BY <1>2, <2>1, <2>2, <2>3, StoreKeepsIInv
<1>6. CASE UpdateLastPacket(k) /\ reader[k].linked
  <2>1. /\ reader' \in [SSRCs -> ReaderType] /\ reader'[k].linked = FALSE
        /\ \A j \in SSRCs \ {k} : reader'[j] = reader[j]
    BY <1>2, <1>3, <1>6 DEF UpdateLastPacket, IdleReader
  <2>2. /\ streams' = [streams EXCEPT ![k] = reader[k].stamp] /\ reader[k].stamp # Untracked
        /\ UNCHANGED <<bound, cleanup, silence, sinceTick, sincePause>>
    BY <1>2, <1>6, Configured DEF UpdateLastPacket, Untracked, heard
  <2>3. k \in bound /\ (InPause(k)' => InPause(k))
    BY <1>1, <1>6, <2>2 DEF UpdateLastPacket, PauseInv, InPause
  <2> QED BY <1>2, <2>1, <2>2, <2>3, StoreKeepsIInv
<1>7. CASE Stamp(k) \/ LoadStream(k) \/ (UpdateLastPacket(k) /\ ~reader[k].linked)
  <2>1. reader' \in [SSRCs -> ReaderType] /\ \A j \in SSRCs \ {k} : reader'[j] = reader[j]
    BY <1>2, <1>3, <1>7 DEF Stamp, LoadStream, UpdateLastPacket, ReaderType
  <2>2. /\ UNCHANGED <<streams, sinceTick, cleanup, bound, sincePause>>
        /\ silence' = silence \/ (Stamp(k) /\ silence' = [silence EXCEPT ![k] = 0])
    BY <1>7 DEF Stamp, LoadStream, UpdateLastPacket, heard
  <2>3. TypeInv' /\ LoopInv' /\ AgeInv'
    BY <1>1, <2>1, <2>2 DEF TypeInv, LoopInv, AgeInv, Pending, Tracked
  <2>4. /\ Tracked' = Tracked /\ \A j \in SSRCs \ {k} : silence'[j] = silence[j]
        /\ silence'[k] <= silence[k]
    BY <1>1, <2>2 DEF Tracked, TypeInv
  <2>5. \A j \in SSRCs : reader'[j].at = "loaded" /\ reader'[j].linked => j \in Tracked
    <3> SUFFICES reader'[k].at = "loaded" /\ reader'[k].linked => k \in Tracked
      BY <1>1, <2>1 DEF PauseInv
    <3>1. CASE LoadStream(k)
      <4>1. CASE streams[k] = Untracked
        BY <1>2, <3>1, <4>1 DEF LoadStream, IdleReader
      <4>2. CASE streams[k] # Untracked
        BY <4>2 DEF Tracked
      <4> QED BY <4>1, <4>2
    <3>2. CASE Stamp(k)
      BY <1>2, <3>2 DEF Stamp, ReaderType
    <3>3. CASE UpdateLastPacket(k)
      BY <1>2, <3>3 DEF UpdateLastPacket, IdleReader
    <3> QED BY <1>7, <3>1, <3>2, <3>3
  <2>6. \A j \in SSRCs : InPause(j)' => InPause(j)
    BY <1>1, <2>2, <2>4, Configured DEF InPause, TypeInv
  <2>7. k \in Tracked => StoredInTime(k)' \/ EndsSilence(k)'
    <3> SUFFICES ASSUME k \in Tracked PROVE StoredInTime(k)' \/ EndsSilence(k)'
      OBVIOUS
    <3>1. /\ silence[k] \in Nat /\ sincePause[k] \in Nat /\ streams[k] \in Int
          /\ streams'[k] = streams[k] /\ sincePause'[k] = sincePause[k]
          /\ (StoredInTime(k) \/ EndsSilence(k)) /\ (InPause(k) => sincePause[k] = 0)
      BY <1>1, <2>2, Configured DEF TypeInv, PauseInv, Ages, Untracked
    <3>2. CASE Stamp(k)
      <4>1. UnderWay(k)' /\ reader'[k].stamp \in Nat
        BY <1>2, <3>2, Configured DEF Stamp, UnderWay
      <4>2. ~UnderWay(k)
        BY <3>2 DEF Stamp, UnderWay
      <4>3. InPause(k) \/ streams[k] <= LongestGap + MaxLag
        BY <1>1, <3>1, <4>2, Configured DEF EndsSilence, StoredInTime, InPause, PauseInv
      <4> QED BY <3>1, <4>1, <4>3, Configured DEF EndsSilence
    <3>3. CASE LoadStream(k)
      <4>1. UnderWay(k)' /\ UnderWay(k) /\ reader'[k].stamp = reader[k].stamp
        BY <1>2, <3>3 DEF LoadStream, UnderWay, Tracked
      <4>2. silence' = silence /\ (InPause(k)' <=> InPause(k))
        BY <2>2, <3>3 DEF LoadStream, heard, InPause
      <4> QED BY <3>1, <4>1, <4>2 DEF EndsSilence, StoredInTime
    <3>4. CASE UpdateLastPacket(k) /\ ~reader[k].linked
      <4>1. ~UnderWay(k)
        BY <3>4 DEF UpdateLastPacket, UnderWay
      <4>2. silence' = silence /\ (InPause(k)' <=> InPause(k))
        BY <2>2, <3>4 DEF UpdateLastPacket, heard, InPause
      <4> QED BY <3>1, <4>1, <4>2 DEF EndsSilence, StoredInTime
    <3> QED BY <1>7, <3>2, <3>3, <3>4
  <2>8. \A j \in Tracked : StoredInTime(j)' \/ EndsSilence(j)'
    <3> SUFFICES ASSUME NEW j \in Tracked \ {k} PROVE StoredInTime(j)' \/ EndsSilence(j)'
      BY <2>7
    <3>1. j \in SSRCs \ {k}
      BY DEF Tracked
    <3>2. /\ streams'[j] = streams[j] /\ silence'[j] = silence[j] /\ reader'[j] = reader[j]
          /\ (InPause(j)' <=> InPause(j))
      BY <2>1, <2>2, <2>4, <3>1 DEF InPause
    <3> QED BY <1>1, <2>2, <3>2 DEF PauseInv, StoredInTime, EndsSilence, UnderWay
  <2>9. PauseInv'
    BY <1>1, <2>2, <2>4, <2>5, <2>6, <2>8 DEF PauseInv
  <2> QED BY <2>3, <2>9 DEF IInv
<1> QED BY <1>4, <1>5, <1>6, <1>7

-----------------------------------------------------------------------------
(* The cleanup loop.                                                       *)
LEMMA StartRangeStep == ASSUME IInv, StartRange PROVE IInv'
<1>1. TypeInv /\ LoopInv /\ AgeInv /\ PauseInv
  BY DEF IInv
<1>2. /\ cleanup.at = "ticked"
      /\ cleanup' = [at |-> "ranging", todo |-> Tracked, doomed |-> {}]
      /\ UNCHANGED <<streams, reader, sinceTick, bound, silence, sincePause>>
  BY DEF StartRange, heard
<1>3. TypeInv'
  BY <1>1, <1>2 DEF TypeInv, CleanupType, Tracked
<1>4. LoopInv'
  BY <1>1, <1>2 DEF LoopInv
<1>5. Tracked' = Tracked /\ \A k \in Tracked : Pending(k)'
  BY <1>2 DEF Tracked, Pending
<1>6. AgeInv'
  BY <1>1, <1>2, <1>5 DEF AgeInv
<1>7. PauseInv'
  BY <1>1, <1>2, <1>5 DEF PauseInv, StoredInTime, EndsSilence, UnderWay, InPause, Tracked
<1> QED BY <1>3, <1>4, <1>6, <1>7 DEF IInv

(* What the loop finds inactive was in a pause MaxLag before its tick.     *)
LEMMA FoundWasPaused ==
  ASSUME IInv, NEW k \in Tracked, Inactive(k)
  PROVE  sincePause[k] <= MaxLag + sinceTick
<1>1. /\ k \in SSRCs /\ streams[k] \in Int /\ sinceTick \in Nat
      /\ silence[k] \in Nat /\ sincePause[k] \in Nat /\ reader[k].stamp \in 0 .. MaxLag
  BY Configured DEF IInv, TypeInv, ReaderType, Tracked, Ages, Untracked
<1>2. streams[k] > LongestGap + MaxLag + MaxLag
  BY <1>1, Configured DEF Inactive
<1>3. CASE StoredInTime(k)
  <2>1. InPause(k)
    BY <1>1, <1>2, <1>3, Configured DEF StoredInTime, InPause, IInv, PauseInv
  <2> QED BY <1>1, <2>1, Configured DEF IInv, PauseInv
<1>4. CASE EndsSilence(k)
  BY <1>1, <1>2, <1>4, Configured DEF EndsSilence
<1> QED BY <1>3, <1>4 DEF IInv, PauseInv

LEMMA VisitStep == ASSUME IInv, NEW k \in SSRCs, Visit(k) PROVE IInv'
<1>1. TypeInv /\ LoopInv /\ AgeInv /\ PauseInv
  BY DEF IInv
<1> DEFINE found == k \in Tracked /\ Inactive(k)
<1>2. /\ cleanup.at = "ranging" /\ cleanup.doomed = {} /\ k \in cleanup.todo
      /\ UNCHANGED <<streams, reader, sinceTick, bound, silence, sincePause>>
  BY DEF Visit, heard
<1>3. /\ cleanup' \in CleanupType /\ cleanup'.at = "ranging"
      /\ cleanup'.todo = cleanup.todo \ {k}
      /\ cleanup'.doomed = IF found THEN {k} ELSE {}
  BY <1>1, <1>2 DEF TypeInv, CleanupType, Visit
<1>4. sinceTick \in Nat /\ streams[k] \in Int
  BY <1>1, Configured DEF TypeInv, Ages, Untracked
<1>5. TypeInv'
  BY <1>1, <1>2, <1>3 DEF TypeInv
<1>6. LoopInv'
  BY <1>1, <1>2, <1>3 DEF LoopInv
<1>7. AgeInv'
  <2> SUFFICES ASSUME NEW j \in Tracked
               PROVE  /\ streams[j] <= StreamTimeout + CleanupPeriod + sinceTick
                      /\ ~Pending(j)' => streams[j] <= StreamTimeout + sinceTick
    BY <1>2 DEF AgeInv, Tracked
  <2>1. CASE j = k
    <3>1. ~Pending(j)' => ~Inactive(k)
      BY <1>3, <2>1 DEF Pending
    <3> QED BY <1>1, <1>4, <2>1, <3>1, Configured DEF AgeInv, Inactive
  <2>2. CASE j # k
    <3>1. Pending(j) => Pending(j)'
      BY <1>2, <1>3, <2>2 DEF Pending
    <3> QED BY <1>1, <3>1 DEF AgeInv
  <2> QED BY <2>1, <2>2
<1>8. PauseInv'
  <2>1. found => sincePause[k] <= MaxLag + sinceTick
    BY <1>1, <1>4, FoundWasPaused
  <2> QED BY <1>1, <1>2, <1>3, <2>1 DEF PauseInv, StoredInTime, EndsSilence, UnderWay, InPause, Tracked
<1> QED BY <1>5, <1>6, <1>7, <1>8 DEF IInv

LEMMA DeleteStep == ASSUME IInv, NEW k \in SSRCs, DeleteInactive(k) PROVE IInv'
<1>1. TypeInv /\ LoopInv /\ AgeInv /\ PauseInv
  BY DEF IInv
<1>2. k \in cleanup.doomed
  BY DEF DeleteInactive
<1>3. /\ streams' = [streams EXCEPT ![k] = Untracked]
      /\ reader' = [reader EXCEPT ![k].linked = FALSE]
      /\ cleanup' = [cleanup EXCEPT !.doomed = {}]
      /\ UNCHANGED <<sinceTick, bound, silence, sincePause>>
  BY DEF DeleteInactive, MapSet, heard
<1>4. /\ reader' \in [SSRCs -> ReaderType] /\ bound \subseteq SSRCs
      /\ reader'[k].linked = FALSE /\ \A j \in SSRCs \ {k} : reader'[j] = reader[j]
  BY <1>1, <1>3 DEF TypeInv, ReaderType
<1>5. InPause(k)' => InPause(k)
  BY <1>3 DEF InPause
<1> QED BY <1>2, <1>3, <1>4, <1>5, StoreKeepsIInv

LEMMA EndRangeStep == ASSUME IInv, EndRange PROVE IInv'
<1>1. TypeInv /\ LoopInv /\ AgeInv /\ PauseInv
  BY DEF IInv
<1>2. /\ cleanup.at = "ranging" /\ cleanup.todo = {} /\ cleanup.doomed = {}
      /\ cleanup' = [at |-> "idle", todo |-> {}, doomed |-> {}]
      /\ UNCHANGED <<streams, reader, sinceTick, bound, silence, sincePause>>
  BY DEF EndRange, IdleCleanup, heard
<1>3. TypeInv'
  BY <1>1, <1>2 DEF TypeInv, CleanupType
<1>4. LoopInv'
  BY <1>1, <1>2 DEF LoopInv
<1>5. \A k \in SSRCs : ~Pending(k)
  BY <1>2 DEF Pending
<1>6. AgeInv'
  BY <1>1, <1>2, <1>5 DEF AgeInv, Tracked
<1>7. PauseInv'
  BY <1>1, <1>2 DEF PauseInv, StoredInTime, EndsSilence, UnderWay, InPause, Tracked
<1> QED BY <1>3, <1>4, <1>6, <1>7 DEF IInv

-----------------------------------------------------------------------------
(* Time passes: every age grows with the time since the tick, except that  *)
(* a tick starts it anew, and then a cleanup is pending for every stream.  *)
LEMMA AdvanceStep == ASSUME IInv, Advance PROVE IInv'
<1>1. TypeInv /\ LoopInv /\ AgeInv /\ PauseInv
  BY DEF IInv
<1>2. /\ OnTime
      /\ sinceTick' = (sinceTick + 1) % CleanupPeriod
      /\ cleanup' = IF sinceTick' = 0 THEN [cleanup EXCEPT !.at = "ticked"] ELSE cleanup
      /\ streams' = [k \in SSRCs |-> IF k \in Tracked THEN Older(streams[k]) ELSE Untracked]
      /\ reader' = [k \in SSRCs |-> IF reader[k].at # "idle"
                                       THEN [reader[k] EXCEPT !.stamp = @ + 1] ELSE reader[k]]
      /\ bound' = bound
      /\ silence' = [k \in SSRCs |-> IF k \in bound /\ ~InPause(k) THEN silence[k] + 1
                                                                    ELSE silence[k]]
      /\ sincePause' = [k \in SSRCs |-> IF InPause(k)' THEN 0
                                          ELSE IF sincePause[k] < LongAgo THEN sincePause[k] + 1
                                          ELSE LongAgo]
  BY DEF Advance
<1>3. sinceTick \in Nat /\ sinceTick < CleanupPeriod
  BY <1>1, Configured DEF TypeInv
<1>4. sinceTick' = (sinceTick + 1) % CleanupPeriod
  BY <1>2
<1>5. sinceTick' = IF sinceTick + 1 < CleanupPeriod THEN sinceTick + 1 ELSE 0
  <2>1. CASE sinceTick + 1 < CleanupPeriod
    BY <1>3, <1>4, <2>1, Configured
  <2>2. CASE ~(sinceTick + 1 < CleanupPeriod)
    <3>1. sinceTick + 1 = CleanupPeriod
      BY <1>3, <2>2, Configured
    <3>2. \A n \in Nat \ {0} : n % n = 0
      OBVIOUS
    <3> QED BY <1>4, <2>2, <3>1, <3>2, Configured
  <2> QED BY <2>1, <2>2
<1>6. \A k \in Tracked : streams[k] \in Ages /\ Older(streams[k]) \in Ages
                         /\ Older(streams[k]) <= streams[k] + 1
  BY <1>1, Configured DEF TypeInv, Tracked, Ages, Older, Untracked
<1>7. Tracked' = Tracked /\ \A k \in Tracked : streams'[k] = Older(streams[k])
  BY <1>2, <1>6 DEF Tracked, Ages, Untracked
<1>8. /\ cleanup' \in CleanupType /\ cleanup'.todo = cleanup.todo
      /\ cleanup'.doomed = cleanup.doomed
      /\ sinceTick' = 0 => cleanup'.at = "ticked"
      /\ sinceTick' # 0 => cleanup' = cleanup
  BY <1>1, <1>2 DEF TypeInv, CleanupType
<1>9. /\ cleanup.at # "idle" => sinceTick' = sinceTick + 1 /\ sinceTick' <= MaxLag
      /\ sinceTick' = 0 => cleanup.at = "idle"
  <2>1. cleanup.at # "idle" => sinceTick < MaxLag
    BY <1>2 DEF OnTime
  <2> QED BY <1>3, <1>5, <2>1, Configured
<1>10. TypeInv'
  <2>1. reader' \in [SSRCs -> ReaderType]
    <3> SUFFICES ASSUME NEW k \in SSRCs
                 PROVE  (IF reader[k].at # "idle" THEN [reader[k] EXCEPT !.stamp = @ + 1]
                                                  ELSE reader[k]) \in ReaderType
      BY <1>2
    <3>1. reader[k] \in ReaderType
      BY <1>1 DEF TypeInv
    <3>2. CASE reader[k].at # "idle"
      <4>1. reader[k].stamp < MaxLag
        BY <1>2, <3>2 DEF OnTime
      <4>2. reader[k].stamp + 1 \in 0 .. MaxLag
        BY <3>1, <4>1, Configured DEF ReaderType
      <4> QED BY <3>1, <3>2, <4>2 DEF ReaderType
    <3> QED BY <3>1, <3>2
  <2>2. streams' \in [SSRCs -> Ages \cup {Untracked}]
    BY <1>2, <1>6
  <2>3. sinceTick' \in 0 .. CleanupPeriod - 1
    BY <1>3, <1>5, Configured
  <2>4. silence' \in [SSRCs -> Nat] /\ sincePause' \in [SSRCs -> Nat]
    BY <1>1, <1>2, Configured DEF TypeInv
  <2> QED BY <1>1, <1>2, <1>8, <2>1, <2>2, <2>3, <2>4 DEF TypeInv
<1>11. LoopInv'
  <2>1. cleanup'.at # "idle" => sinceTick' <= MaxLag
    BY <1>8, <1>9, Configured
  <2> QED BY <1>1, <1>8, <1>9, <2>1 DEF LoopInv
<1>12. AgeInv'
  <2> SUFFICES ASSUME NEW k \in Tracked
               PROVE  /\ streams'[k] <= StreamTimeout + CleanupPeriod + sinceTick'
                      /\ ~Pending(k)' => streams'[k] <= StreamTimeout + sinceTick'
    BY <1>7 DEF AgeInv
  <2>1. /\ streams'[k] <= streams[k] + 1 /\ streams[k] \in Int /\ streams'[k] \in Int
        /\ streams[k] <= StreamTimeout + CleanupPeriod + sinceTick
        /\ ~Pending(k) => streams[k] <= StreamTimeout + sinceTick
    BY <1>1, <1>6, <1>7, Configured DEF AgeInv, Ages
  <2>2. CASE sinceTick' = 0
    <3>1. ~Pending(k) /\ Pending(k)'
      BY <1>1, <1>8, <1>9, <2>2 DEF Pending, LoopInv
    <3>2. sinceTick + 1 = CleanupPeriod
      BY <1>3, <1>5, <2>2, Configured
    <3> QED BY <1>3, <2>1, <2>2, <3>1, <3>2, Configured
  <2>3. CASE sinceTick' # 0
    <3>1. sinceTick' = sinceTick + 1 /\ (Pending(k)' <=> Pending(k))
      BY <1>5, <1>8, <2>3 DEF Pending
    <3> QED BY <1>3, <2>1, <3>1, Configured
  <2> QED BY <2>2, <2>3
<1>13. PauseInv'
  <2>1. \A k \in SSRCs : /\ reader'[k].at = reader[k].at /\ reader'[k].linked = reader[k].linked
                         /\ (UnderWay(k)' <=> UnderWay(k))
                         /\ UnderWay(k) => reader'[k].stamp = reader[k].stamp + 1
    BY <1>1, <1>2 DEF TypeInv, ReaderType, UnderWay
  <2>2. \A k \in SSRCs :
          /\ silence[k] \in Nat /\ sincePause[k] \in Nat /\ sincePause'[k] \in Nat
          /\ k \in bound /\ ~InPause(k) => silence'[k] = silence[k] + 1
          /\ InPause(k) => silence'[k] = silence[k]
          /\ sincePause'[k] <= sincePause[k] + 1
          /\ InPause(k)' => sincePause'[k] = 0
    BY <1>1, <1>2, Configured DEF TypeInv
  <2>3. \A k \in SSRCs : InPause(k) => InPause(k)'
    BY <1>2, <2>2 DEF InPause
  <2>4. \A k \in Tracked : StoredInTime(k)' \/ EndsSilence(k)'
    <3> SUFFICES ASSUME NEW k \in Tracked PROVE StoredInTime(k)' \/ EndsSilence(k)'
      OBVIOUS
    <3>1. /\ k \in SSRCs /\ k \in bound /\ streams'[k] <= streams[k] + 1
          /\ streams[k] \in Int /\ streams'[k] \in Int /\ reader[k].stamp \in Int
      BY <1>1, <1>6, <1>7 DEF PauseInv, Tracked, Ages, TypeInv, ReaderType
    <3>2. CASE StoredInTime(k)
      <4>1. CASE InPause(k)
        BY <2>3, <3>1, <4>1 DEF StoredInTime
      <4>2. CASE ~InPause(k)
        BY <2>2, <3>1, <3>2, <4>2, Configured DEF StoredInTime
      <4> QED BY <4>1, <4>2
    <3>3. CASE EndsSilence(k)
      BY <2>1, <2>2, <3>1, <3>3, Configured DEF EndsSilence
    <3> QED BY <1>1, <3>2, <3>3 DEF PauseInv
  <2>5. \A k \in cleanup'.doomed : sincePause'[k] <= MaxLag + sinceTick'
    <3> SUFFICES ASSUME NEW k \in cleanup.doomed
                 PROVE  sincePause'[k] <= MaxLag + sinceTick'
      BY <1>8
    <3>1. k \in SSRCs /\ sinceTick' = sinceTick + 1
      BY <1>1, <1>9 DEF TypeInv, CleanupType, LoopInv
    <3> QED BY <1>1, <1>3, <2>2, <3>1, Configured DEF PauseInv
  <2> QED BY <1>1, <1>2, <1>7, <2>1, <2>2, <2>4, <2>5 DEF PauseInv
<1> QED BY <1>10, <1>11, <1>12, <1>13 DEF IInv

LEMMA IInvStep == IInv /\ [Next]_vars => IInv'
<1> SUFFICES ASSUME IInv, [Next]_vars PROVE IInv'
  OBVIOUS
<1>1. CASE UNCHANGED vars
  BY <1>1 DEF vars, heard, IInv, TypeInv, LoopInv, AgeInv, PauseInv, Pending, Tracked,
     StoredInTime, EndsSilence, UnderWay, InPause
<1>2. CASE Next
  BY <1>2, StreamStep, StartRangeStep, VisitStep, DeleteStep, EndRangeStep, AdvanceStep
  DEF Next
<1> QED BY <1>1, <1>2

-----------------------------------------------------------------------------
(* A silent stream is removed no later than a timeout, a period and the    *)
(* loop's lateness after its last packet.                                  *)
THEOREM RemovedInTime == Spec => []InactiveRemovedInTime
<1>1. IInv => InactiveRemovedInTime
  <2> SUFFICES ASSUME IInv, NEW k \in Tracked
               PROVE  streams[k] <= StreamTimeout + CleanupPeriod + MaxLag
    BY DEF InactiveRemovedInTime
  <2>1. /\ sinceTick \in Nat /\ sinceTick < CleanupPeriod /\ streams[k] \in Int
    BY Configured DEF IInv, TypeInv, Tracked, Ages, Untracked
  <2>2. CASE cleanup.at = "idle"
    <3>1. ~Pending(k)
      BY <2>2 DEF IInv, LoopInv, Pending
    <3> QED BY <2>1, <3>1, Configured DEF IInv, AgeInv
  <2>3. CASE cleanup.at # "idle"
    BY <2>1, <2>3, Configured DEF IInv, AgeInv, LoopInv
  <2> QED BY <2>2, <2>3
<1> QED BY <1>1, IInvInit, IInvStep, PTL DEF Spec

(* What the cleanup takes from its owner was in a pause no more than twice *)
(* the lateness before: it doomed the stream MaxLag after the tick at the  *)
(* latest, for a pause not longer before the tick.                         *)
THEOREM OnlyPausedLost == Spec => OnlyPausedRemoved
<1>1. IInv /\ [Next]_vars
        => \A k \in bound \cap bound' :
             k \in Tracked /\ k \notin Tracked' => sincePause[k] <= 2 * MaxLag
  <2> SUFFICES ASSUME IInv, [Next]_vars, NEW k \in bound \cap bound',
                      k \in Tracked, k \notin Tracked'
               PROVE  sincePause[k] <= 2 * MaxLag
    OBVIOUS
  <2>1. /\ streams \in [SSRCs -> Ages \cup {Untracked}] /\ sinceTick \in Nat
        /\ k \in SSRCs /\ reader[k].stamp \in Nat /\ sincePause[k] \in Nat
    BY Configured DEF IInv, TypeInv, ReaderType, Tracked
  <2>2. streams[k] # Untracked /\ streams'[k] = Untracked
    BY <2>1 DEF Tracked
  <2>3. k \in cleanup.doomed
    <3>1. ~UNCHANGED streams
      BY <2>2
    <3>2. CASE \E j \in SSRCs : DeleteInactive(j)
      BY <2>1, <2>2, <3>2 DEF DeleteInactive, MapSet
    <3>3. CASE Advance
      BY <2>1, <2>2, <3>3, Configured DEF Advance, Older, Ages, Untracked
    <3>4. CASE \E j \in SSRCs : BindRemoteStream(j) \/ UnbindRemoteStream(j)
      BY <2>1, <2>2, <3>4 DEF BindRemoteStream, UnbindRemoteStream, MapSet, NewStreamState,
         Untracked
    <3>5. CASE \E j \in SSRCs : UpdateLastPacket(j)
      <4>1. PICK j \in SSRCs : UpdateLastPacket(j)
        BY <3>5
      <4>2. reader[j].stamp # Untracked
        BY Configured DEF IInv, TypeInv, ReaderType, Untracked
      <4> QED BY <2>1, <2>2, <3>1, <4>1, <4>2 DEF UpdateLastPacket
    <3> QED BY <3>1, <3>2, <3>3, <3>4, <3>5
        DEF Next, vars, Stamp, LoadStream, Visit, StartRange, EndRange
  <2>4. sincePause[k] <= MaxLag + sinceTick /\ sinceTick <= MaxLag
    BY <2>3 DEF IInv, PauseInv, LoopInv
  <2> QED BY <2>1, <2>4, Configured
<1> QED BY <1>1, IInvInit, IInvStep, PTL DEF Spec, OnlyPausedRemoved
=============================================================================
