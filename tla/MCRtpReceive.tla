---------------------------- MODULE MCRtpReceive ----------------------------
(* Constant values for model checking RtpReceive: offers that agree, that   *)
(* swap the two ids and that lack one; seconds of four and eight units, of  *)
(* which two and four fit, and times that are zero in one scale only.       *)
EXTENDS RtpReceive

MCOffers == {[abs |-> 1, capture |-> 2], [abs |-> 2, capture |-> 1],
             [abs |-> 1, capture |-> 0], [abs |-> 0, capture |-> 2]}
MCAbsTimes == {NoExt, 0, 5}
MCCaptureTimes == {NoExt, 1, 21}
=============================================================================
