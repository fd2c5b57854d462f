---------------------------- MODULE MCAnomalyModel ----------------------------
(* Instances of AnomalyModel for TLC.                                       *)
EXTENDS AnomalyModel, TLC

CONSTANTS web1, web2, in, out

ThreadSymmetry == Permutations({web1, web2}) \cup Permutations({in, out})
===============================================================================
