------------------------------ MODULE RembLoop ------------------------------
(***************************************************************************)
(* The goroutines of interceptor/interceptor.go: REMB loops started by     *)
(* BindRTCPWriter, the cleanup loop started by BindRemoteStream, Close     *)
(* which signals and awaits them, and the path of a REMB from the          *)
(* estimator's record to the remote sender.                                *)
(*                                                                         *)
(* Time is abstract: due says that the scheduler's interval has elapsed.   *)
(* What packets do to the estimate is abstract too; a decrease of any size *)
(* counts as significant.  Some packet has been received, so that the      *)
(* estimator has an SSRC to put into a REMB.                               *)
(***************************************************************************)
EXTENDS Integers, FiniteSets

CONSTANTS
  RembLoops,       (* goroutines that calls of BindRTCPWriter may start    *)
  CleanupLoop,     (* the goroutine that the first BindRemoteStream starts *)
  Estimates        (* bandwidth estimates                                  *)

Loops == RembLoops \cup {CleanupLoop}

ASSUME ConfigAssumption ==
  /\ CleanupLoop \notin RembLoops
  /\ Estimates \subseteq Nat \ {0}

VARIABLES
  loop,        (* loop -> where its goroutine is                           *)
  wg,          (* the WaitGroup's counter                                  *)
  closed,      (* whether the channel closed is closed                     *)
  closer,      (* where the call of Close is                               *)
  binding,     (* REMB loops whose BindRTCPWriter has stored the writer    *)
  estimate,    (* the estimator's estimate                                 *)
  lastValue,   (* the scheduler's last value, 0 before the first REMB      *)
  due,         (* whether the scheduler's interval has elapsed             *)
  packet,      (* loop -> the value of the REMB it is about to write       *)
  remote,      (* the value the remote sender last received, 0 for none    *)
  late,        (* history: loops started when closed was closed already    *)
  lost         (* history: whether the last write failed                   *)

vars == <<loop, wg, closed, closer, binding, estimate, lastValue, due,
          packet, remote, late, lost>>
lifecycle == <<wg, closed, closer, binding, late>>
rembPath == <<estimate, lastValue, due, packet, remote, lost>>

Places == {"none", "select", "build", "write", "callback", "cleanup", "exiting", "done"}

Init ==
  /\ loop = [l \in Loops |-> "none"]
  /\ wg = 0
  /\ closed = FALSE
  /\ closer = "not called"
  /\ binding = {}
  /\ estimate \in Estimates
  /\ lastValue = 0
  /\ due = TRUE
  /\ packet = [l \in RembLoops |-> 0]
  /\ remote = 0
  /\ late = {} /\ lost = FALSE

-----------------------------------------------------------------------------
(* wg.Add and the go statement.                                            *)
StartLoop(l) ==
  /\ loop[l] = "none"
  /\ loop' = [loop EXCEPT ![l] = "select"]
  /\ wg' = wg + 1
  /\ late' = IF closed THEN late \cup {l} ELSE late

(* BindRTCPWriter stores the writer under mu ...                            *)
StoreWriter(l) ==
  /\ loop[l] = "none"
  /\ binding' = binding \cup {l}
  /\ UNCHANGED <<loop, wg, closed, closer, late, rembPath>>

(* ... and starts a loop, one for each call.                                *)
StartRembLoop(l) ==
  /\ l \in binding
  /\ StartLoop(l)
  /\ binding' = binding \ {l}
  /\ UNCHANGED <<closed, closer, rembPath>>

(* BindRemoteStream: startOnce starts the cleanup loop with the first one. *)
BindFirstStream ==
  /\ StartLoop(CleanupLoop)
  /\ UNCHANGED <<closed, closer, binding, rembPath>>

-----------------------------------------------------------------------------
(* Close: close(closed), then wg.Wait.                                      *)
Close ==
  /\ closer = "not called"
  /\ closed' = TRUE
  /\ closer' = "waiting"
  /\ UNCHANGED <<loop, wg, binding, late, rembPath>>

CloseReturnAtOnce ==               \* mutation: no wg.Wait
  /\ closer = "waiting"
  /\ closer' = "returned"
  /\ UNCHANGED <<loop, wg, closed, binding, late, rembPath>>

CloseReturn ==
  /\ closer = "waiting"
  /\ wg = 0
  /\ closer' = "returned"
  /\ UNCHANGED <<loop, wg, closed, binding, late, rembPath>>

-----------------------------------------------------------------------------
(* The loop's select: either ready case may be chosen.  Since time is       *)
(* abstract, the ticker may have fired by the time of any select.          *)
ReceiveTick(l) ==
  /\ loop[l] = "select"
  /\ loop' = [loop EXCEPT ![l] = IF l = CleanupLoop THEN "cleanup" ELSE "build"]
  /\ UNCHANGED <<lifecycle, rembPath>>

ReceiveClosedRembOnly(l) ==        \* mutation: cleanupLoop does not select on closed
  /\ loop[l] = "select" /\ closed /\ l # CleanupLoop
  /\ loop' = [loop EXCEPT ![l] = "exiting"]
  /\ UNCHANGED <<lifecycle, rembPath>>

ReceiveClosed(l) ==
  /\ loop[l] = "select" /\ closed
  /\ loop' = [loop EXCEPT ![l] = "exiting"]
  /\ UNCHANGED <<lifecycle, rembPath>>

(* The deferred calls: ticker.Stop, then wg.Done.                           *)
Exit(l) ==
  /\ loop[l] = "exiting"
  /\ loop' = [loop EXCEPT ![l] = "done"]
  /\ wg' = wg - 1
  /\ UNCHANGED <<closed, closer, binding, late, rembPath>>

CleanupStreams ==
  /\ loop[CleanupLoop] = "cleanup"
  /\ loop' = [loop EXCEPT ![CleanupLoop] = "select"]
  /\ UNCHANGED <<lifecycle, rembPath>>

-----------------------------------------------------------------------------
(* Readers change the estimate; the interval elapses.                      *)
Packet(e) ==
  /\ estimate' = e
  /\ UNCHANGED <<loop, lifecycle, lastValue, due, packet, remote, lost>>

IntervalElapses ==
  /\ ~due
  /\ due' = TRUE
  /\ UNCHANGED <<loop, lifecycle, estimate, lastValue, packet, remote, lost>>

ShouldSendREMBOnce == lastValue = 0 \/ estimate < lastValue  \* mutation: no interval

ShouldSendREMB == due \/ (lastValue > 0 /\ estimate < lastValue)

(* MaybeBuildREMB, under the estimator's lock, records the value as sent.  *)
MaybeBuildREMBTwice(l) ==          \* mutation: estimate read again after recording it
  /\ loop[l] = "build"
  /\ \E again \in Estimates :
       IF ShouldSendREMB
         THEN /\ lastValue' = estimate
              /\ due' = FALSE
              /\ packet' = [packet EXCEPT ![l] = again]
              /\ loop' = [loop EXCEPT ![l] = "write"]
         ELSE /\ loop' = [loop EXCEPT ![l] = "select"]
              /\ UNCHANGED <<lastValue, due, packet>>
  /\ UNCHANGED <<lifecycle, estimate, remote, lost>>

MaybeBuildREMB(l) ==
  /\ loop[l] = "build"
  /\ IF ShouldSendREMB
       THEN /\ lastValue' = estimate
            /\ due' = FALSE
            /\ packet' = [packet EXCEPT ![l] = estimate]
            /\ loop' = [loop EXCEPT ![l] = "write"]
       ELSE /\ loop' = [loop EXCEPT ![l] = "select"]
            /\ UNCHANGED <<lastValue, due, packet>>
  /\ UNCHANGED <<lifecycle, estimate, remote, lost>>

(* writer.Write outside both locks; its error is ignored.                  *)
WriteSucceeds(l) ==
  /\ loop[l] = "write"
  /\ remote' = packet[l]
  /\ lost' = FALSE
  /\ loop' = [loop EXCEPT ![l] = "callback"]
  /\ packet' = [packet EXCEPT ![l] = 0]
  /\ UNCHANGED <<lifecycle, estimate, lastValue, due>>

WriteFails(l) ==
  /\ loop[l] = "write"
  /\ lost' = TRUE
  /\ loop' = [loop EXCEPT ![l] = "callback"]
  /\ packet' = [packet EXCEPT ![l] = 0]
  /\ UNCHANGED <<lifecycle, estimate, lastValue, due, remote>>

(* onREMB returns (without having called Close).                           *)
Callback(l) ==
  /\ loop[l] = "callback"
  /\ loop' = [loop EXCEPT ![l] = "select"]
  /\ UNCHANGED <<lifecycle, rembPath>>

-----------------------------------------------------------------------------
RembStep(l) ==
  \/ MaybeBuildREMB(l) \/ WriteSucceeds(l) \/ WriteFails(l) \/ Callback(l)

Next ==
  \/ \E l \in RembLoops : StoreWriter(l) \/ StartRembLoop(l) \/ RembStep(l)
  \/ \E l \in Loops : ReceiveTick(l) \/ ReceiveClosed(l) \/ Exit(l)
  \/ BindFirstStream
  \/ CleanupStreams
  \/ Close
  \/ CloseReturn
  \/ \E e \in Estimates : Packet(e)
  \/ IntervalElapses

Spec == Init /\ [][Next]_vars

(* Goroutines are scheduled, Write and the callback return, tickers fire:   *)
(* no loop stays where it is.  A case of select that is ready again and     *)
(* again is chosen (Go chooses uniformly), a network that is tried again    *)
(* and again is up sometimes, and time passes.                              *)
LoopStep(l) ==
  ReceiveTick(l) \/ Exit(l) \/ IF l = CleanupLoop THEN CleanupStreams ELSE RembStep(l)

Fairness ==
  /\ \A l \in Loops : WF_vars(LoopStep(l)) /\ SF_vars(ReceiveClosed(l))
  /\ \A l \in RembLoops : SF_vars(WriteSucceeds(l))
  /\ WF_vars(CloseReturn)
  /\ WF_vars(IntervalElapses)

FairSpec == Spec /\ Fairness

-----------------------------------------------------------------------------
(* The WaitGroup counts exactly the loops that run, so that Done never     *)
(* drives it negative, which would panic.                                  *)
Running == {l \in Loops : loop[l] \notin {"none", "done"}}
WaitGroupCountsLoops == wg = Cardinality(Running)

(* When Close has returned no loop runs that was started before it, so     *)
(* these write nothing more; a Bind call that overlaps or follows Close may *)
(* leave a loop.                                                            *)
NoLoopAfterClose == closer = "returned" => Running \subseteq late

(* As long as one REMB loop has been started, the remote sender has the     *)
(* value that the scheduler believes it sent, unless that REMB is being     *)
(* written or its write failed.                                            *)
Started == {l \in RembLoops : loop[l] # "none"}
InFlight == \E l \in RembLoops : loop[l] = "write" /\ packet[l] = lastValue
LastValueAccountedFor ==
  Cardinality(Started) <= 1 => remote = lastValue \/ InFlight \/ lost

(* Close returns, also while Bind calls overlap it and writes fail.         *)
CloseReturns == closer = "waiting" ~> closer = "returned"

(* A lost REMB is made up for, and REMBs that overtake each other are       *)
(* corrected: once the estimate settles, and a loop runs, the remote sender *)
(* gets it and keeps it, or the interceptor is closed.                      *)
RemoteCatchesUp ==
  <>[][FALSE]_estimate /\ <>(\E l \in RembLoops : loop[l] # "none")
    => <>[](closed \/ remote = estimate)
=============================================================================
