-------------------------- MODULE LifecycleProofs --------------------------
(***************************************************************************)
(* Theorems about the two parts that start goroutines and stop them again. *)
(* RembLoop: the WaitGroup's count, what Close leaves behind, and what the *)
(* remote sender knows, for any number of loops and any set of estimates.  *)
(* InteropServer: which listener is served, for any number of listeners    *)
(* and requests.                                                           *)
(***************************************************************************)
EXTENDS RembLoop, InteropServer, FiniteSetTheorems, TLAPS

(* Close may conclude from a counter of zero that no loop runs, because    *)
(* the counter is exact; and a loop started later finds closed closed.     *)
ClosingInv ==
  /\ loop \in [Loops -> Places]
  /\ IsFiniteSet(Running) /\ WaitGroupCountsLoops
  /\ closer # "not called" => closed
  /\ NoLoopAfterClose

(* Moving a loop between two places where it runs leaves Running alone.    *)
LEMMA MoveKeepsRunning ==
  ASSUME loop \in [Loops -> Places], NEW l \in Loops, loop[l] \notin {"none", "done"},
         NEW place \in Places \ {"none", "done"},
         loop' = [loop EXCEPT ![l] = place]
  PROVE  loop' \in [Loops -> Places] /\ Running' = Running
BY DEF Running

LEMMA StartAddsToRunning ==
  ASSUME loop \in [Loops -> Places], NEW l \in Loops, StartLoop(l)
  PROVE  loop' \in [Loops -> Places] /\ l \notin Running /\ Running' = Running \cup {l}
BY DEF StartLoop, Running, Places

LEMMA ExitRemovesFromRunning ==
  ASSUME loop \in [Loops -> Places], NEW l \in Loops, Exit(l)
  PROVE  loop' \in [Loops -> Places] /\ l \in Running /\ Running' = Running \ {l}
BY DEF Exit, Running, Places

(* A step that leaves Running, the counter and Close alone.                *)
LEMMA ClosingInvKept ==
  ASSUME ClosingInv, loop' \in [Loops -> Places], Running' = Running, UNCHANGED lifecycle
  PROVE  ClosingInv'
BY DEF ClosingInv, WaitGroupCountsLoops, NoLoopAfterClose, lifecycle

LEMMA ClosingInvStart ==
  ASSUME ClosingInv, NEW l \in Loops, StartLoop(l), UNCHANGED <<closed, closer>>
  PROVE  ClosingInv'
<1>1. loop' \in [Loops -> Places] /\ l \notin Running /\ Running' = Running \cup {l}
  BY StartAddsToRunning DEF ClosingInv
<1>2. IsFiniteSet(Running') /\ Cardinality(Running') = Cardinality(Running) + 1
  BY <1>1, FS_AddElement DEF ClosingInv
<1>3. wg' = Cardinality(Running')
  BY <1>2 DEF ClosingInv, WaitGroupCountsLoops, StartLoop
<1>4. closer' = "returned" => Running' \subseteq late'
  BY <1>1 DEF ClosingInv, NoLoopAfterClose, StartLoop
<1> QED BY <1>1, <1>2, <1>3, <1>4 DEF ClosingInv, WaitGroupCountsLoops, NoLoopAfterClose

LEMMA ClosingInvExit ==
  ASSUME ClosingInv, NEW l \in Loops, Exit(l)
  PROVE  ClosingInv'
<1>1. loop' \in [Loops -> Places] /\ l \in Running /\ Running' = Running \ {l}
  BY ExitRemovesFromRunning DEF ClosingInv
<1>2. IsFiniteSet(Running') /\ Cardinality(Running') = Cardinality(Running) - 1
  BY <1>1, FS_RemoveElement DEF ClosingInv
<1>3. wg' = Cardinality(Running')
  BY <1>2 DEF ClosingInv, WaitGroupCountsLoops, Exit
<1>4. closer' = "returned" => Running' \subseteq late'
  BY <1>1 DEF ClosingInv, NoLoopAfterClose, Exit
<1> QED BY <1>1, <1>2, <1>3, <1>4 DEF ClosingInv, WaitGroupCountsLoops, NoLoopAfterClose, Exit

LEMMA ClosingInvClose == ClosingInv /\ (Close \/ CloseReturn) => ClosingInv'
<1> SUFFICES ASSUME ClosingInv, Close \/ CloseReturn PROVE ClosingInv'
  OBVIOUS
<1>1. Running' = Running /\ wg' = wg /\ loop' = loop
  BY DEF Close, CloseReturn, Running
<1>2. CASE Close
  BY <1>1, <1>2 DEF Close, ClosingInv, WaitGroupCountsLoops, NoLoopAfterClose
<1>3. CASE CloseReturn
  <2>1. Running = {}
    BY <1>3, FS_EmptySet DEF CloseReturn, ClosingInv, WaitGroupCountsLoops
  <2> QED BY <1>1, <1>3, <2>1 DEF CloseReturn, ClosingInv, WaitGroupCountsLoops, NoLoopAfterClose
<1> QED BY <1>2, <1>3

LEMMA ClosingInvInit == Init => ClosingInv
<1> SUFFICES ASSUME Init PROVE ClosingInv
  OBVIOUS
<1>1. Running = {} /\ loop \in [Loops -> Places]
  BY DEF Init, Running, Places
<1> QED BY <1>1, FS_EmptySet DEF Init, ClosingInv, WaitGroupCountsLoops, NoLoopAfterClose

LEMMA LoopsMembers == CleanupLoop \in Loops /\ RembLoops \subseteq Loops
BY DEF Loops

LEMMA ClosingInvStep == ClosingInv /\ [Next]_vars => ClosingInv'
<1> SUFFICES ASSUME ClosingInv, [Next]_vars PROVE ClosingInv'
  OBVIOUS
<1> USE LoopsMembers
<1>0. loop \in [Loops -> Places]
  BY DEF ClosingInv
<1>1. ASSUME NEW l \in RembLoops, StoreWriter(l) PROVE ClosingInv'
  BY <1>1 DEF StoreWriter, ClosingInv, WaitGroupCountsLoops, NoLoopAfterClose, Running
<1>2. ASSUME NEW l \in RembLoops, StartRembLoop(l) PROVE ClosingInv'
  BY <1>2, ClosingInvStart DEF StartRembLoop
<1>3. ASSUME NEW l \in RembLoops, RembStep(l) PROVE ClosingInv'
  <2>1. /\ loop[l] \in {"build", "write", "callback"}
        /\ \E place \in {"write", "select", "callback"} : loop' = [loop EXCEPT ![l] = place]
        /\ UNCHANGED lifecycle
    BY <1>3 DEF RembStep, MaybeBuildREMB, WriteSucceeds, WriteFails, Callback
  <2>2. loop' \in [Loops -> Places] /\ Running' = Running
    BY <1>0, <2>1, MoveKeepsRunning DEF Places
  <2> QED BY <2>1, <2>2, ClosingInvKept
<1>4. ASSUME NEW l \in Loops, ReceiveTick(l) \/ ReceiveClosed(l) PROVE ClosingInv'
  <2>1. /\ loop[l] = "select"
        /\ \E place \in {"cleanup", "build", "exiting"} : loop' = [loop EXCEPT ![l] = place]
        /\ UNCHANGED lifecycle
    BY <1>4 DEF ReceiveTick, ReceiveClosed
  <2>2. loop' \in [Loops -> Places] /\ Running' = Running
    BY <1>0, <2>1, MoveKeepsRunning DEF Places
  <2> QED BY <2>1, <2>2, ClosingInvKept
<1>5. ASSUME NEW l \in Loops, Exit(l) PROVE ClosingInv'
  BY <1>5, ClosingInvExit
<1>6. CASE BindFirstStream
  BY <1>6, ClosingInvStart DEF BindFirstStream
<1>7. CASE CleanupStreams
  <2>1. loop' \in [Loops -> Places] /\ Running' = Running
    BY <1>0, <1>7, MoveKeepsRunning DEF CleanupStreams, Places
  <2> QED BY <1>7, <2>1, ClosingInvKept DEF CleanupStreams
<1>8. CASE Close \/ CloseReturn
  BY <1>8, ClosingInvClose
<1>9. CASE (\E e \in Estimates : Packet(e)) \/ IntervalElapses \/ UNCHANGED vars
  BY <1>0, <1>9, ClosingInvKept DEF Packet, IntervalElapses, vars, lifecycle, Running
<1> QED BY <1>1, <1>2, <1>3, <1>4, <1>5, <1>6, <1>7, <1>8, <1>9 DEF Next

(* For any number of loops, whatever Bind calls overlap Close, the counter  *)
(* of the WaitGroup is that of the loops that run: Done never drives it    *)
(* negative (interceptor.go:127, 135, 236 and 287).                        *)
THEOREM CounterExact == Spec => []WaitGroupCountsLoops
<1>1. ClosingInv => WaitGroupCountsLoops
  BY DEF ClosingInv
<1> QED BY ClosingInvInit, ClosingInvStep, <1>1, PTL DEF Spec

(* When Close has returned, no loop runs that was started before it        *)
(* (interceptor.go:112).                                                   *)
THEOREM NothingLeftRunning == Spec => []NoLoopAfterClose
<1>1. ClosingInv => NoLoopAfterClose
  BY DEF ClosingInv
<1> QED BY ClosingInvInit, ClosingInvStep, <1>1, PTL DEF Spec

-----------------------------------------------------------------------------
(* With one REMB loop the value in flight is always the one recorded as    *)
(* sent: nobody records another while this loop is on its way.             *)
EstimateOK == estimate \in Estimates
OneLoop == \A l, k \in Started : l = k
SentInv ==
  /\ loop \in [Loops -> Places] /\ packet \in [RembLoops -> Estimates \cup {0}]
  /\ IsFiniteSet(Started)
  /\ OneLoop =>
       /\ \A l \in RembLoops : loop[l] = "write" => packet[l] = lastValue
       /\ remote = lastValue \/ InFlight \/ lost

LEMMA AtMostOne ==
  ASSUME NEW S, IsFiniteSet(S), Cardinality(S) <= 1
  PROVE  \A l, k \in S : l = k
<1> SUFFICES ASSUME NEW l \in S, NEW k \in S, l # k PROVE FALSE
  OBVIOUS
<1>1. IsFiniteSet({l}) /\ Cardinality({l}) = 1
  BY FS_Singleton
<1>2. IsFiniteSet({l, k}) /\ Cardinality({l, k}) = 2
  <2>1. {l} \cup {k} = {l, k} /\ k \notin {l}
    OBVIOUS
  <2> QED BY <1>1, <2>1, FS_AddElement
<1>3. Cardinality({l, k}) <= Cardinality(S)
  <2>1. {l, k} \in SUBSET S
    OBVIOUS
  <2> QED BY <2>1, FS_Subset
<1>4. Cardinality(S) \in Nat
  BY FS_CardinalityType
<1> QED BY <1>2, <1>3, <1>4

(* A step of a loop that is running changes neither Started nor OneLoop.   *)
LEMMA MoveKeepsStarted ==
  ASSUME loop \in [Loops -> Places], NEW l \in Loops, loop[l] # "none",
         NEW place \in Places \ {"none"}, loop' = [loop EXCEPT ![l] = place]
  PROVE  loop' \in [Loops -> Places] /\ Started' = Started /\ (OneLoop' <=> OneLoop)
<1>1. Started' = Started
  BY LoopsMembers DEF Started
<1> QED BY <1>1 DEF OneLoop

(* A step that neither starts nor ends a write and records nothing.        *)
LEMMA SentInvKept ==
  ASSUME SentInv, NEW l \in Loops, NEW place \in Places \ {"none", "write"},
         loop[l] \notin {"none", "write"}, loop' = [loop EXCEPT ![l] = place],
         UNCHANGED <<lastValue, packet, remote, lost>>
  PROVE  SentInv'
<1>1. loop' \in [Loops -> Places] /\ Started' = Started /\ (OneLoop' <=> OneLoop)
  BY MoveKeepsStarted DEF SentInv
<1>2. \A k \in RembLoops : loop'[k] = "write" <=> loop[k] = "write"
  BY LoopsMembers DEF SentInv
<1> QED BY <1>1, <1>2 DEF SentInv, InFlight

LEMMA SentInvStart ==
  ASSUME SentInv, NEW l \in Loops, StartLoop(l),
         UNCHANGED <<lastValue, packet, remote, lost>>
  PROVE  SentInv'
<1>1. loop' \in [Loops -> Places] /\ \A k \in RembLoops : loop'[k] = "write" <=> loop[k] = "write"
  BY LoopsMembers DEF SentInv, StartLoop, Places
<1>2. Started' = Started \/ Started' = Started \cup {l}
  BY LoopsMembers DEF SentInv, StartLoop, Started
<1>3. IsFiniteSet(Started')
  BY <1>2, FS_AddElement DEF SentInv
<1>4. OneLoop' => OneLoop
  BY <1>2 DEF OneLoop
<1> QED BY <1>1, <1>3, <1>4 DEF SentInv, InFlight

LEMMA SentInvRemb ==
  ASSUME EstimateOK, SentInv, NEW l \in RembLoops,
         MaybeBuildREMB(l) \/ WriteSucceeds(l) \/ WriteFails(l)
  PROVE  SentInv'
<1> USE LoopsMembers
<1>0. loop \in [Loops -> Places] /\ packet \in [RembLoops -> Estimates \cup {0}]
  BY DEF SentInv
<1>1. CASE MaybeBuildREMB(l) /\ ~ShouldSendREMB
  BY <1>0, <1>1, SentInvKept DEF MaybeBuildREMB, Places, rembPath
<1>2. CASE MaybeBuildREMB(l) /\ ShouldSendREMB
  <2>1. /\ loop[l] = "build" /\ loop' = [loop EXCEPT ![l] = "write"]
        /\ packet' = [packet EXCEPT ![l] = lastValue']
    BY <1>2 DEF MaybeBuildREMB
  <2>2. loop' \in [Loops -> Places] /\ Started' = Started /\ (OneLoop' <=> OneLoop)
    BY <1>0, <2>1, MoveKeepsStarted DEF Places
  <2>3. loop'[l] = "write" /\ packet'[l] = lastValue'
    BY <1>0, <2>1
  <2>4. OneLoop => \A k \in RembLoops : loop'[k] = "write" => k = l
    BY <1>0, <2>1 DEF OneLoop, Started
  <2>5. InFlight'
    BY <2>3 DEF InFlight
  <2>6. packet' \in [RembLoops -> Estimates \cup {0}]
    <3>1. lastValue' \in Estimates
      BY <1>2 DEF MaybeBuildREMB, EstimateOK
    <3> QED BY <1>0, <2>1, <3>1
  <2> QED BY <2>2, <2>3, <2>4, <2>5, <2>6 DEF SentInv
<1>3. CASE WriteSucceeds(l) \/ WriteFails(l)
  <2>1. /\ loop[l] = "write" /\ loop' = [loop EXCEPT ![l] = "callback"]
        /\ packet' = [packet EXCEPT ![l] = 0] /\ lastValue' = lastValue
        /\ remote' = packet[l] \/ lost' = TRUE
    BY <1>3 DEF WriteSucceeds, WriteFails
  <2>2. loop' \in [Loops -> Places] /\ Started' = Started /\ (OneLoop' <=> OneLoop)
    BY <1>0, <2>1, MoveKeepsStarted DEF Places
  <2>3. OneLoop => \A k \in RembLoops : loop'[k] # "write"
    BY <1>0, <2>1 DEF OneLoop, Started
  <2>4. OneLoop => remote' = lastValue' \/ lost'
    BY <2>1 DEF SentInv
  <2>5. packet' \in [RembLoops -> Estimates \cup {0}]
    BY <1>0, <2>1
  <2> QED BY <2>2, <2>3, <2>4, <2>5 DEF SentInv
<1> QED BY <1>1, <1>2, <1>3

LEMMA SentInvInit == Init => SentInv
<1> SUFFICES ASSUME Init PROVE SentInv
  OBVIOUS
<1>1. Started = {} /\ loop \in [Loops -> Places] /\ packet \in [RembLoops -> Estimates \cup {0}]
  BY LoopsMembers DEF Init, Started, Places
<1> QED BY <1>1, FS_EmptySet, LoopsMembers DEF Init, SentInv

LEMMA SentInvStep == EstimateOK /\ SentInv /\ [Next]_vars => SentInv'
<1> SUFFICES ASSUME EstimateOK, SentInv, [Next]_vars PROVE SentInv'
  OBVIOUS
<1> USE LoopsMembers
<1>1. ASSUME NEW l \in RembLoops, StartRembLoop(l) PROVE SentInv'
  BY <1>1, SentInvStart DEF StartRembLoop, rembPath
<1>2. ASSUME NEW l \in RembLoops, MaybeBuildREMB(l) \/ WriteSucceeds(l) \/ WriteFails(l)
      PROVE  SentInv'
  BY <1>2, SentInvRemb
<1>3. ASSUME NEW l \in Loops,
             (l \in RembLoops /\ Callback(l)) \/ ReceiveTick(l) \/ ReceiveClosed(l) \/ Exit(l)
      PROVE  SentInv'
  <2>1. /\ loop[l] \in {"callback", "select", "exiting"}
        /\ \E place \in Places \ {"none", "write"} : loop' = [loop EXCEPT ![l] = place]
        /\ UNCHANGED <<lastValue, packet, remote, lost>>
    BY <1>3 DEF Callback, ReceiveTick, ReceiveClosed, Exit, rembPath, Places
  <2> QED BY <2>1, SentInvKept
<1>4. CASE BindFirstStream
  BY <1>4, SentInvStart DEF BindFirstStream, rembPath
<1>5. CASE CleanupStreams
  BY <1>5, SentInvKept DEF CleanupStreams, rembPath, Places
<1>6. ASSUME UNCHANGED <<loop, lastValue, packet, remote, lost>> PROVE SentInv'
  BY <1>6 DEF SentInv, OneLoop, Started, InFlight
<1>7. CASE \/ \E l \in RembLoops : StoreWriter(l)
           \/ Close \/ CloseReturn \/ IntervalElapses \/ UNCHANGED vars
           \/ \E e \in Estimates : Packet(e)
  <2>1. UNCHANGED <<loop, lastValue, packet, remote, lost>>
    BY <1>7 DEF StoreWriter, Close, CloseReturn, IntervalElapses, Packet, rembPath, vars
  <2> QED BY <1>6, <2>1
<1> QED BY <1>1, <1>2, <1>3, <1>4, <1>5, <1>7 DEF Next, RembStep

LEMMA EstimateStep == EstimateOK /\ [Next]_vars => EstimateOK'
BY DEF EstimateOK, Next, vars, lifecycle, rembPath, StoreWriter, StartRembLoop, RembStep,
   MaybeBuildREMB, WriteSucceeds, WriteFails, Callback, ReceiveTick, ReceiveClosed, Exit,
   BindFirstStream, CleanupStreams, Close, CloseReturn, Packet, IntervalElapses

(* As long as one REMB loop has been started, the sender knows the value   *)
(* the scheduler recorded, or it is being written, or its write failed     *)
(* (interceptor.go:251 to 276, bandwidth_estimator.go:193).                *)
THEOREM RecordedIsAccountedFor == Spec => []LastValueAccountedFor
<1>1. Init => SentInv /\ EstimateOK
  BY SentInvInit DEF Init, EstimateOK
<1>2. SentInv /\ EstimateOK /\ [Next]_vars => SentInv' /\ EstimateOK'
  BY SentInvStep, EstimateStep
<1>3. SentInv => LastValueAccountedFor
  BY AtMostOne DEF SentInv, OneLoop, LastValueAccountedFor
<1> QED BY <1>1, <1>2, <1>3, PTL DEF Spec

-----------------------------------------------------------------------------
(* Until the first Shutdown only the goroutine of the last successful Start *)
(* can still have a listener to serve; from then on none can.              *)
ServingInv ==
  /\ listener = [l \in Listeners |-> listener[l]]
  /\ ServedIsNamed
  /\ ~inShutdown => \A l \in Listeners : listener[l] = "open" => l = addr /\ running

LEMMA ServingInvStart == ServingInv /\ Start => ServingInv'
<1> SUFFICES ASSUME ServingInv, Start PROVE ServingInv'
  OBVIOUS
<1>1. PICK l \in Listeners : listener' = [listener EXCEPT ![l] = "open"] /\ addr' = l
  BY DEF Start
<1>2. listener' = [k \in Listeners |-> IF k = l THEN "open" ELSE listener[k]]
  BY <1>1 DEF ServingInv
<1>3. \A k \in Listeners : listener[k] # "serving"
  BY DEF Start, ServingInv, ServedIsNamed
<1>4. ~inShutdown => \A k \in Listeners : listener[k] # "open"
  BY DEF Start, ServingInv
<1>5. running' /\ inShutdown' = inShutdown
  BY DEF Start
<1> QED BY <1>1, <1>2, <1>3, <1>4, <1>5 DEF ServingInv, ServedIsNamed

(* A goroutine that comes after Shutdown closes its listener.              *)
LEMMA ServingInvServe ==
  ASSUME ServingInv, NEW l \in Listeners, Serve(l)
  PROVE  ServingInv'
<1> DEFINE outcome == IF inShutdown THEN "closed" ELSE "serving"
<1>1. listener' = [k \in Listeners |-> IF k = l THEN outcome ELSE listener[k]]
  BY DEF Serve, ServingInv
<1>2. ~inShutdown => l = addr /\ running
  BY DEF Serve, ServingInv
<1>3. UNCHANGED <<running, addr, inShutdown>>
  BY DEF Serve
<1> QED BY <1>1, <1>2, <1>3 DEF ServingInv, ServedIsNamed

LEMMA ServingInvShutdown == ServingInv /\ Shutdown => ServingInv'
<1> SUFFICES ASSUME ServingInv, Shutdown PROVE ServingInv'
  OBVIOUS
<1>1. inShutdown' /\ \A l \in Listeners : listener'[l] # "serving"
  BY DEF Shutdown
<1>2. listener' = [l \in Listeners |-> listener'[l]]
  BY DEF Shutdown
<1> QED BY <1>1, <1>2 DEF ServingInv, ServedIsNamed

LEMMA ServingInvStep == ServingInv /\ [ServerNext]_serverVars => ServingInv'
<1> SUFFICES ASSUME ServingInv, [ServerNext]_serverVars PROVE ServingInv'
  OBVIOUS
<1>1. ASSUME UNCHANGED <<running, addr, inShutdown, listener>> PROVE ServingInv'
  BY <1>1 DEF ServingInv, ServedIsNamed
<1>2. CASE Start
  BY <1>2, ServingInvStart
<1>3. CASE \E l \in Listeners : Serve(l)
  BY <1>3, ServingInvServe
<1>4. CASE Shutdown
  BY <1>4, ServingInvShutdown
<1>5. CASE StartFails \/ ShutdownReturns \/ ShutdownTimesOut \/ UNCHANGED serverVars
  BY <1>1, <1>5 DEF StartFails, ShutdownReturns, ShutdownTimesOut, serverVars, socket
<1>6. CASE \E r \in Requests : Accept(r) \/ Request(r) \/ PeerGone(r)
  BY <1>1, <1>6 DEF Accept, Request, StepSucceeds, StepFails, PeerGone, socket
<1> QED BY <1>2, <1>3, <1>4, <1>5, <1>6 DEF ServerNext

(* Whatever goroutines are late, the one address that is served is the one *)
(* Addr names, and none is after Shutdown (server.go:69 and 98).           *)
THEOREM OnlyNamedIsServed == ServerSpec => []ServedIsNamed
<1>1. ServerInit => ServingInv
  BY DEF ServerInit, ServingInv, ServedIsNamed
<1>2. ServingInv => ServedIsNamed
  BY DEF ServingInv
<1> QED BY <1>1, <1>2, ServingInvStep, PTL DEF ServerSpec
=============================================================================
