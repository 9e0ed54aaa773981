--------------------------- MODULE MCInteropServer ---------------------------
(* Model checking InteropServer: two requests, and two listeners, so that   *)
(* the server can be started again after Shutdown.                          *)
EXTENDS InteropServer

MCRequests == {"offer1", "offer2"}
=============================================================================
