----------------------------- MODULE MCConnTrack -----------------------------
(* Instances of ConnTrack for TLC: one TCP and one UDP flow, with timeouts  *)
(* and sweep interval in the same order as the code's 120, 60 and 15.       *)
EXTENDS ConnTrack, TLC

CONSTANTS web, dns

Timeouts == (web :> 3) @@ (dns :> 2)
=============================================================================
