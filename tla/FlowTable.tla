------------------------------ MODULE FlowTable ------------------------------
(***************************************************************************)
(* What the decision pipeline needs of the connection table: who opened    *)
(* each flow.  The first packet seen of a flow opens it and stays its      *)
(* opener until the flow is closed or forgotten; the table may forget any  *)
(* flow at a packet of another one.  ConnTrack implements this with clocks, *)
(* timeouts and sweeps; Engine is built on it.                              *)
(***************************************************************************)
CONSTANT Flow
VARIABLE opener  \* opener[f]: the direction of the packet that opened f

Direction == {"in", "out"}

Init == opener = [f \in Flow |-> "none"]

(* A packet in direction d on flow f; a closing one ends a known flow.      *)
Packet(d, f, closing, forgotten) ==
    LET next == IF opener[f] = "none" THEN d
                ELSE IF closing THEN "none" ELSE opener[f]
    IN  /\ f \notin forgotten
        /\ opener' = [g \in Flow |-> IF g = f THEN next
                                     ELSE IF g \in forgotten THEN "none"
                                     ELSE opener[g]]

Next ==
    \E d \in Direction, f \in Flow, closing \in BOOLEAN, forgotten \in SUBSET Flow :
        Packet(d, f, closing, forgotten)

Spec == Init /\ [][Next]_opener
===============================================================================
