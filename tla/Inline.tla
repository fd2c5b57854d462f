-------------------------------- MODULE Inline --------------------------------
(***************************************************************************)
(* What an inline packet filter promises (HOW_IT_WORKS.md, sections 3 and  *)
(* 10): a reader holds one packet at a time, the packet waits until it is  *)
(* passed or stopped, a verdict is given once and never changed, a packet  *)
(* is stopped only if enforce mode was in force at a moment of its wait,   *)
(* and no packet waits for ever as long as its reader serves.              *)
(***************************************************************************)
CONSTANT Reader

VARIABLES
    mode,    \* "monitor" or "enforce"
    held,    \* held[r]: what became of the packet reader r holds
    serving  \* the readers that still take and answer packets

vars == <<mode, held, serving>>

Fate == {"none", "waiting", "condemned", "passed", "stopped"}

Init ==
    /\ mode \in {"monitor", "enforce"}
    /\ held = [r \in Reader |-> "none"]
    /\ serving = Reader

Move(r, from, to) ==
    /\ r \in serving
    /\ held[r] = from
    /\ held' = [held EXCEPT ![r] = to]
    /\ UNCHANGED serving

Take(r) == Move(r, "none", "waiting") /\ UNCHANGED mode
Pass(r) == Move(r, "waiting", "passed") /\ UNCHANGED mode

(* The decision to stop a packet falls in enforce mode; the stop may follow *)
(* when the mode has changed.                                               *)
Condemn(r) == mode = "enforce" /\ Move(r, "waiting", "condemned") /\ UNCHANGED mode
Stop(r) == Move(r, "condemned", "stopped") /\ UNCHANGED mode

Release(r) ==
    /\ \E fate \in {"passed", "stopped"} : Move(r, fate, "none")
    /\ UNCHANGED mode

SetMode == mode' \in {"monitor", "enforce"} /\ UNCHANGED <<held, serving>>

(* A packet that was not answered by then waits for ever.                   *)
Leave(r) == serving' = serving \ {r} /\ UNCHANGED <<mode, held>>

Next ==
    \/ \E r \in Reader : Take(r) \/ Pass(r) \/ Condemn(r) \/ Stop(r) \/ Release(r) \/ Leave(r)
    \/ SetMode

Spec == /\ Init
        /\ [][Next]_vars
        /\ \A r \in Reader : WF_vars(Pass(r) \/ Condemn(r) \/ Stop(r))
===============================================================================
