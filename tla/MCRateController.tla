-------------------------- MODULE MCRateController --------------------------
(* Constant values for model checking RateController: half-second ticks,   *)
(* beta 0.85, eta the powers of 1.08 rounded down to four digits.          *)
EXTENDS RateController

MCEta == [e \in 0 .. 4 |-> <<10000, 10392, 10800, 11223, 11664>>[e + 1]]
MCTimes == 0 .. 4
MCUnsetInitial == -1     \* not positive: replaced by the default
MCIncomingRates == {0, 1, 12, 30, 80}
=============================================================================
