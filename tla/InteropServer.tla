---------------------------- MODULE InteropServer ----------------------------
(***************************************************************************)
(* The interop server, cmd/chrome-interop/server: Start, Shutdown and Addr *)
(* under their mutex, the goroutine that serves a listener, and HandleOffer, *)
(* which negotiates a peer connection per request.                         *)
(*                                                                         *)
(* External, as the code uses them: net/http refuses to serve a listener   *)
(* after Shutdown, and Shutdown waits for the requests in progress; a peer *)
(* connection whose descriptions are both set fails or is closed when its  *)
(* peer has gone.                                                          *)
(***************************************************************************)
EXTENDS Naturals, Sequences

CONSTANTS
  Requests,
  MaxListeners       (* bound on the successful calls of net.Listen        *)

ASSUME BoundAssumption == MaxListeners \in Nat \ {0}

VARIABLES
  mu,                (* the mutex: "free", or "shutdown" while Shutdown waits *)
  running, addr,     (* fields of Server; addr is the listener's number    *)
  inShutdown,        (* the http.Server's own flag                         *)
  listener,          (* state of each listener                             *)
  step,              (* how far HandleOffer has got with each request      *)
  conn               (* the request's peer connection                      *)

socket == <<mu, running, addr, inShutdown, listener>>
serverVars == <<socket, step, conn>>

Listeners == 1 .. MaxListeners
NoAddr == 0

(* HandleOffer in order.  "configure" is everything up to the creation of  *)
(* the peer connection; gathering and sending the answer do not fail.      *)
Steps == <<"decode", "configure", "create", "transceiver", "remote", "answer", "local",
           "gather", "send">>
CannotFail == {"gather", "send"}

ServerInit ==
  /\ mu = "free" /\ running = FALSE /\ addr = NoAddr
  /\ inShutdown = FALSE
  /\ listener = [l \in Listeners |-> "none"]
  /\ step = [r \in Requests |-> "none"]
  /\ conn = [r \in Requests |-> "none"]

-----------------------------------------------------------------------------
StartAgain ==                 \* mutation: Start does not ask whether it is running
  /\ mu = "free"
  /\ \E l \in Listeners :
        /\ \A k \in Listeners : k < l <=> listener[k] # "none"
        /\ listener' = [listener EXCEPT ![l] = "open"]
        /\ addr' = l
  /\ running' = TRUE
  /\ UNCHANGED <<mu, inShutdown, step, conn>>

(* Start: a running server keeps its listener.  The goroutine that it      *)
(* starts may run at any later time.                                       *)
Start ==
  /\ mu = "free" /\ ~running
  /\ \E l \in Listeners :
        /\ \A k \in Listeners : k < l <=> listener[k] # "none"
        /\ listener' = [listener EXCEPT ![l] = "open"]
        /\ addr' = l
  /\ running' = TRUE
  /\ UNCHANGED <<mu, inShutdown, step, conn>>

StartFailsRunning ==      \* mutation: running is set before Listen has succeeded
  /\ mu = "free" /\ ~running
  /\ running' = TRUE
  /\ UNCHANGED <<mu, addr, inShutdown, listener, step, conn>>

(* Listen fails and nothing changes. *)
StartFails ==
  /\ mu = "free" /\ ~running
  /\ UNCHANGED serverVars

(* http.Server.Serve, in the goroutine.                                    *)
Serve(l) ==
  /\ listener[l] = "open"
  /\ listener' = [listener EXCEPT ![l] = IF inShutdown THEN "closed" ELSE "serving"]
  /\ UNCHANGED <<mu, running, addr, inShutdown, step, conn>>

InProgress(r) == step[r] \notin {"none", "failed", "answered"}

(* Shutdown keeps the mutex while http.Server.Shutdown waits.              *)
Shutdown ==
  /\ mu = "free" /\ running
  /\ mu' = "shutdown"
  /\ running' = FALSE /\ inShutdown' = TRUE
  /\ listener' = [l \in Listeners |-> IF listener[l] = "serving" THEN "closed" ELSE listener[l]]
  /\ UNCHANGED <<addr, step, conn>>

(* It returns when no request is in progress, or when its context ends.    *)
ShutdownReturns ==
  /\ mu = "shutdown"
  /\ \A r \in Requests : ~InProgress(r)
  /\ mu' = "free"
  /\ UNCHANGED <<running, addr, inShutdown, listener, step, conn>>

ShutdownTimesOut ==
  /\ mu = "shutdown"
  /\ mu' = "free"
  /\ UNCHANGED <<running, addr, inShutdown, listener, step, conn>>

-----------------------------------------------------------------------------
Accept(r) ==
  /\ \E l \in Listeners : listener[l] = "serving"
  /\ step[r] = "none"
  /\ step' = [step EXCEPT ![r] = Steps[1]]
  /\ UNCHANGED <<socket, conn>>

Following(stage) ==
  LET i == CHOOSE i \in DOMAIN Steps : Steps[i] = stage
  IN  IF i = Len(Steps) THEN "answered" ELSE Steps[i + 1]

StepSucceedsLocked(r) ==      \* mutation: the handler asks the server for Addr
  /\ InProgress(r) /\ mu = "free"
  /\ step' = [step EXCEPT ![r] = Following(step[r])]
  /\ conn' = IF step[r] = "create" THEN [conn EXCEPT ![r] = "open"] ELSE conn
  /\ UNCHANGED socket

(* The handler never takes the server's mutex. *)
StepSucceeds(r) ==
  /\ InProgress(r)
  /\ step' = [step EXCEPT ![r] = Following(step[r])]
  /\ conn' = IF step[r] = "create" THEN [conn EXCEPT ![r] = "open"] ELSE conn
  /\ UNCHANGED socket

(* Every failing step answers with an error and returns; none closes the   *)
(* peer connection.                                                        *)
StepFails(r) ==
  /\ InProgress(r) /\ step[r] \notin CannotFail
  /\ step' = [step EXCEPT ![r] = "failed"]
  /\ UNCHANGED <<socket, conn>>

Request(r) == StepSucceeds(r) \/ StepFails(r)

(* The peer goes, and the state change handler closes the connection.      *)
OnFailedIgnored == "lost"            \* mutation: only the state Closed is handled

OnFailed == "closed"

PeerGone(r) ==
  /\ conn[r] = "open" /\ step[r] \in CannotFail \cup {"answered"}
  /\ conn' = [conn EXCEPT ![r] = OnFailed]
  /\ UNCHANGED <<socket, step>>

ServerNext ==
  \/ Start \/ StartFails \/ Shutdown \/ ShutdownReturns \/ ShutdownTimesOut
  \/ \E l \in Listeners : Serve(l)
  \/ \E r \in Requests : Accept(r) \/ Request(r) \/ PeerGone(r)

(* Goroutines and handlers run; nobody is obliged to call Start or         *)
(* Shutdown, no context to end and no client to come.                      *)
ServerFairness ==
  /\ \A l \in Listeners : WF_serverVars(Serve(l))
  /\ \A r \in Requests : WF_serverVars(Request(r)) /\ WF_serverVars(PeerGone(r))
  /\ WF_serverVars(ShutdownReturns)

ServerSpec == ServerInit /\ [][ServerNext]_serverVars

FairServerSpec == ServerSpec /\ ServerFairness

-----------------------------------------------------------------------------
(* Clients are served only at the address that Addr names, and only while  *)
(* the server calls itself running and before its first Shutdown, however  *)
(* late the goroutine of a call of Start gets to run, between or after     *)
(* other calls of Start and Shutdown.                                      *)
ServedIsNamed ==
  \A l \in Listeners : listener[l] = "serving" => l = addr /\ running /\ ~inShutdown

(* A server that calls itself running, and was never shut down, comes to   *)
(* serve the address that Addr names, however its failed calls of Start    *)
(* and its goroutines interleave.  After a Shutdown this is not so: Start  *)
(* listens again, and net/http closes what it is asked to serve.           *)
RunningIsServed ==
  running /\ ~inShutdown ~> inShutdown \/ (addr # NoAddr /\ listener[addr] = "serving")

(* Shutdown holds the mutex only as long as requests are in progress, and  *)
(* they end without it: Start and Addr are not blocked for ever, also if   *)
(* the context of Shutdown has no end.                                     *)
MutexIsReleased == mu = "shutdown" ~> mu = "free"

(* A peer connection that stays open for good belongs to an offer that     *)
(* failed after it was created: every answered offer's is closed.          *)
LeaksOnlyFromFailedOffers ==
  <>[](\A r \in Requests : conn[r] \in {"none", "closed"} \/ step[r] = "failed")
=============================================================================
