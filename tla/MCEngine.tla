------------------------------- MODULE MCEngine -------------------------------
(* Instances of Engine for TLC: one remote host and the flow both readers   *)
(* see packets of.                                                          *)
EXTENDS Engine, TLC

CONSTANTS host, self, ssh

Peers == ssh :> host
===============================================================================
