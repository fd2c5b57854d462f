------------------------------ MODULE MCDetectors ------------------------------
(* Instances of Detectors for TLC: limits of two and three, windows of one   *)
(* and two units, so that a burst can straddle the end of a window and go    *)
(* on after an alert stops silencing.                                        *)
EXTENDS Detectors

Suite == {"portscan", "bruteforce", "syn_flood", "udp_flood", "icmp_flood"}

(* One busy source, and another whose packets must not count for it.        *)
Mix == [src : {"s"}, dport : Port, proto : {"syn", "tcp", "udp", "icmp"}]
          \cup [src : {"t"}, dport : {"ssh"}, proto : {"syn", "icmp"}]

Limits == [k \in Kind |-> IF k \in {"syn_flood", "bruteforce"} THEN 3 ELSE 2]
Windows == [k \in Kind |-> IF k \in {"portscan", "icmp_flood"} THEN 1 ELSE 2]
===============================================================================
