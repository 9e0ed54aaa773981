--------------------------- MODULE StreamTracking ---------------------------
(***************************************************************************)
(* Stream tracking in interceptor/interceptor.go and stream.go: the        *)
(* sync.Map of stream states, the readers that touch them and the cleanup  *)
(* loop that removes the inactive ones, interleaved at their atomic        *)
(* operations.                                                             *)
(*                                                                         *)
(* An instant is represented by its age, so that time can pass for ever in *)
(* a finite model; MaxAge stands for every age no guard tells apart.       *)
(***************************************************************************)
EXTENDS Integers

CONSTANTS
  SSRCs,
  StreamTimeout,       (* streamTimeout                                    *)
  CleanupPeriod,       (* the period of the cleanup loop's ticker          *)
  MaxLag               (* bound: how far the clock may run while a         *)
                       (* goroutine is between two of its steps            *)

ASSUME ConfigAssumption ==
  /\ {StreamTimeout, CleanupPeriod, MaxLag} \subseteq Nat \ {0}
  /\ MaxLag < CleanupPeriod /\ 2 * MaxLag < StreamTimeout

VARIABLES
  streams,     (* SSRC -> age of its state's last packet, or Untracked     *)
  reader,      (* SSRC -> where its reader is in processRTP                *)
  sinceTick,   (* age of the cleanup ticker's last tick                    *)
  cleanup,     (* where the cleanup loop is in cleanupInactiveStreams      *)
  bound,       (* history: SSRCs bound and not unbound since               *)
  silence,     (* history: SSRC -> time since its last packet was stamped, *)
               (* stored or not, or since it was bound                     *)
  sincePause   (* history: SSRC -> time since it was last in a pause       *)

heard == <<silence, sincePause>>
vars == <<streams, reader, sinceTick, cleanup, bound, heard>>

MaxAge == StreamTimeout + CleanupPeriod + MaxLag + 1
Ages == 0 .. MaxAge
Untracked == -1
Older(age) == IF age < MaxAge THEN age + 1 ELSE age

(* A gap the cleanup is sure to let pass.  Lateness counts twice: a packet *)
(* counts only once it is stored, and one stamped before a stream is bound *)
(* anew may be stored after, which takes the new state back to its stamp.  *)
LongestGap == StreamTimeout - 2 * MaxLag
InPause(k) == k \in bound /\ silence[k] > LongestGap
LongAgo == 2 * MaxLag + 1

Tracked == {k \in SSRCs : streams[k] # Untracked}

(* linked: the state the reader has loaded is still the one in the map.    *)
IdleReader == [at |-> "idle", stamp |-> 0, linked |-> FALSE]
IdleCleanup == [at |-> "idle", todo |-> {}, doomed |-> {}]

-----------------------------------------------------------------------------
Init ==
  /\ streams = [k \in SSRCs |-> Untracked]
  /\ reader = [k \in SSRCs |-> IdleReader]
  /\ sinceTick = 0
  /\ cleanup = IdleCleanup
  /\ bound = {}
  /\ silence = [k \in SSRCs |-> 0]
  /\ sincePause = [k \in SSRCs |-> LongAgo]

NewStreamState == 0                \* lastPacketTime starts at time.Now()

(* Store or Delete in the map: a reader that has loaded the old state       *)
(* keeps it, but no longer reaches the map through it.                      *)
MapSet(k, age) ==
  /\ streams' = [streams EXCEPT ![k] = age]
  /\ reader' = [reader EXCEPT ![k].linked = FALSE]

BindRemoteStream(k) ==
  /\ MapSet(k, NewStreamState)
  /\ bound' = bound \cup {k}
  /\ silence' = [silence EXCEPT ![k] = 0]
  /\ UNCHANGED <<sinceTick, cleanup, sincePause>>

UnbindRemoteStream(k) ==
  /\ MapSet(k, Untracked)
  /\ bound' = bound \ {k}
  /\ UNCHANGED <<sinceTick, cleanup, heard>>

-----------------------------------------------------------------------------
(* processRTP as far as it touches the stream: time.Now, the map lookup,   *)
(* the atomic store.  The reader of an unbound stream may still deliver.   *)
Stamp(k) ==
  /\ reader[k].at = "idle"
  /\ reader' = [reader EXCEPT ![k].at = "stamped"]
  /\ silence' = [silence EXCEPT ![k] = 0]
  /\ UNCHANGED <<streams, sinceTick, cleanup, bound, sincePause>>

LoadStream(k) ==
  /\ reader[k].at = "stamped"
  /\ reader' = IF streams[k] = Untracked
                 THEN [reader EXCEPT ![k] = IdleReader]
                 ELSE [reader EXCEPT ![k].at = "loaded", ![k].linked = TRUE]
  /\ UNCHANGED <<streams, sinceTick, cleanup, bound, heard>>

UpdateLastPacket(k) ==
  /\ reader[k].at = "loaded"
  /\ streams' = IF reader[k].linked
                  THEN [streams EXCEPT ![k] = reader[k].stamp] ELSE streams
  /\ reader' = [reader EXCEPT ![k] = IdleReader]
  /\ UNCHANGED <<sinceTick, cleanup, bound, heard>>

-----------------------------------------------------------------------------
(* now.Sub(state.LastPacket()) > streamTimeout, now being the tick's time. *)
Inactive(k) == streams[k] - sinceTick > StreamTimeout

(* The loop receives its tick and starts a Range over the map. *)
StartRange ==
  /\ cleanup.at = "ticked"
  /\ cleanup' = [at |-> "ranging", todo |-> Tracked, doomed |-> {}]
  /\ UNCHANGED <<streams, reader, sinceTick, bound, heard>>

VisitStopsEarly(k) ==              \* mutation: Range ends at the first inactive stream
  /\ cleanup.at = "ranging" /\ cleanup.doomed = {}
  /\ k \in cleanup.todo
  /\ cleanup' = IF k \in Tracked /\ Inactive(k)
                  THEN [cleanup EXCEPT !.todo = {}, !.doomed = {k}]
                  ELSE [cleanup EXCEPT !.todo = @ \ {k}]
  /\ UNCHANGED <<streams, reader, sinceTick, bound, heard>>

(* Range hands the callback a key and its state, and the callback reads    *)
(* the state's last packet; a key that has gone meanwhile is skipped.      *)
Visit(k) ==
  /\ cleanup.at = "ranging" /\ cleanup.doomed = {}
  /\ k \in cleanup.todo
  /\ cleanup' = [cleanup EXCEPT !.todo = @ \ {k},
                                !.doomed = IF k \in Tracked /\ Inactive(k)
                                             THEN {k} ELSE {}]
  /\ UNCHANGED <<streams, reader, sinceTick, bound, heard>>

(* The callback deletes the key it found inactive, whatever is stored      *)
(* under it by now.                                                        *)
DeleteInactive(k) ==
  /\ k \in cleanup.doomed
  /\ MapSet(k, Untracked)
  /\ cleanup' = [cleanup EXCEPT !.doomed = {}]
  /\ UNCHANGED <<sinceTick, bound, heard>>

EndRangeUnfinished ==              \* mutation: go i.streams.Delete(key)
  /\ cleanup.at = "ranging" /\ cleanup.todo = {}
  /\ cleanup' = [cleanup EXCEPT !.at = "idle"]
  /\ UNCHANGED <<streams, reader, sinceTick, bound, heard>>

EndRange ==
  /\ cleanup.at = "ranging" /\ cleanup.todo = {} /\ cleanup.doomed = {}
  /\ cleanup' = IdleCleanup
  /\ UNCHANGED <<streams, reader, sinceTick, bound, heard>>

-----------------------------------------------------------------------------
(* Time passes, and the ticker fires every CleanupPeriod, unless one of    *)
(* the goroutines is MaxLag late already.                                  *)
OnTime ==
  /\ cleanup.at # "idle" => sinceTick < MaxLag
  /\ \A k \in SSRCs : reader[k].at # "idle" => reader[k].stamp < MaxLag

Advance ==
  /\ OnTime
  /\ sinceTick' = (sinceTick + 1) % CleanupPeriod
  /\ cleanup' = IF sinceTick' = 0 THEN [cleanup EXCEPT !.at = "ticked"] ELSE cleanup
  /\ streams' = [k \in SSRCs |-> IF k \in Tracked THEN Older(streams[k]) ELSE Untracked]
  /\ reader' = [k \in SSRCs |-> IF reader[k].at # "idle"
                                  THEN [reader[k] EXCEPT !.stamp = @ + 1] ELSE reader[k]]
  /\ UNCHANGED bound
  /\ silence' = [k \in SSRCs |-> IF k \in bound /\ ~InPause(k) THEN silence[k] + 1
                                                               ELSE silence[k]]
  /\ sincePause' = [k \in SSRCs |-> IF InPause(k)' THEN 0
                                     ELSE IF sincePause[k] < LongAgo THEN sincePause[k] + 1
                                     ELSE LongAgo]

Next ==
  \/ \E k \in SSRCs :
        \/ BindRemoteStream(k) \/ UnbindRemoteStream(k)
        \/ Stamp(k) \/ LoadStream(k) \/ UpdateLastPacket(k)
        \/ Visit(k) \/ DeleteInactive(k)
  \/ StartRange
  \/ EndRange
  \/ Advance

Spec == Init /\ [][Next]_vars

-----------------------------------------------------------------------------
(* A silent stream is removed no later than a timeout, a period and the    *)
(* loop's own lateness after its last packet, however many streams expire  *)
(* together and whatever is bound, unbound or read meanwhile.              *)
InactiveRemovedInTime ==
  \A k \in Tracked : streams[k] <= StreamTimeout + CleanupPeriod + MaxLag

(* The cleanup takes no live stream from its owner: one that it removes    *)
(* while it is bound was in a pause, longer than the timeout less twice    *)
(* the lateness, no more than twice the lateness ago.  So stale is what it *)
(* finds, and so late its deletion, which may hit a stream that has been   *)
(* read or bound again since.                                              *)
OnlyPausedRemoved ==
  [][\A k \in bound \cap bound' :
       k \in Tracked /\ k \notin Tracked' => sincePause[k] <= 2 * MaxLag]_vars
=============================================================================
