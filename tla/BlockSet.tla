------------------------------- MODULE BlockSet -------------------------------
(***************************************************************************)
(* What the decision pipeline needs of the blocklist: the addresses        *)
(* recorded as blocked and those the kernel drops.  Both get an address in *)
(* one step, a safe one never; the kernel may keep an entry that could not *)
(* be deleted, and may lose one to its own timer at any time.  Blocklist   *)
(* implements this with its lock, deadlines, callers and sweeper; Engine   *)
(* is built on it.                                                          *)
(***************************************************************************)
CONSTANTS
    Ip,       \* addresses
    Safe,     \* those that are never blocked
    MayStick  \* those whose kernel entry may fail to be deleted

VARIABLES
    active,  \* addresses recorded in the blocklist
    kernel   \* addresses in the kernel's blocked set

Init == active = {} /\ kernel = {}

Blockable == Ip \ (Safe \cup active)

Block(ip) ==
    /\ ip \in Blockable
    /\ active' = active \cup {ip}
    /\ kernel' = kernel \cup {ip}

Lift(ip) ==
    /\ active' = active \ {ip}
    /\ \/ kernel' = kernel \ {ip}
       \/ ip \in MayStick /\ kernel' = kernel

(* Entries time out in the kernel; the records go on until they are lifted. *)
Lapse(gone) ==
    /\ gone \subseteq kernel
    /\ kernel' = kernel \ gone
    /\ active' = active

Next ==
    \/ \E ip \in Ip : Block(ip) \/ Lift(ip)
    \/ \E gone \in SUBSET kernel : Lapse(gone)

Spec == Init /\ [][Next]_<<active, kernel>>
===============================================================================
