------------------------------ MODULE Blocklist ------------------------------
(***************************************************************************)
(* The dynamic blocklist of fwcore/blocklist.py with the kernel set it      *)
(* drives (the ipset calls of fwcore/netfilter.py) and the sweeper thread   *)
(* of fwcore/engine.py.                                                     *)
(*                                                                         *)
(* Several threads call block() and unblock() at once: the two packet       *)
(* readers (detector and AI blocks), the web workers (manual blocks) and    *)
(* the sweeper (expiry).  A step is what runs between two points at which   *)
(* another thread, the kernel timer or a packet can observe the state:      *)
(* is_safe() runs before the lock is taken, the ipset command runs inside   *)
(* the lock but is visible to the kernel at once, the record follows, and   *)
(* the history callback runs after the lock is released.                    *)
(*                                                                         *)
(* Time is in seconds.  Reason, source and creation time of a record are    *)
(* left out: no decision of the code depends on them.                       *)
(***************************************************************************)
EXTENDS Integers, FiniteSets

CONSTANTS
    Ip,           \* the addresses callers may name
    Protected,    \* those is_safe() refuses from the start: loopback,
                  \* unspecified, multicast, gateway, DNS, configured safelist
    Callers,      \* threads that call block() and unblock()
    Sweeper,      \* the thread of _sweep_loop
    Seconds,      \* lifetimes a caller asks for; 0 means until removed
    Start,        \* time.time() when the firewall starts
    LastTick,     \* bound: the clock stops here
    MayStick      \* the addresses whose entry `ipset del` may fail to remove

Threads == Callers \cup {Sweeper}

(* A deadline is never mistaken for 0 ("no deadline"): time.time() is far   *)
(* larger than any lifetime a caller subtracts from it.                     *)
ASSUME BlocklistAssumption ==
    /\ Protected \subseteq Ip
    /\ Sweeper \notin Callers
    /\ Start \in Nat \ {0}
    /\ LastTick \in Nat
    /\ Seconds \subseteq Int
    /\ \A s \in Seconds : Start + s > 0
    /\ MayStick \subseteq Ip

VARIABLES
    now,      \* time.time()
    safe,     \* self._safe together with the classes is_safe() refuses
    active,   \* the addresses in self._active
    until,    \* until[ip]: the record's deadline, 0 for none
    kernel,   \* the entries of the kernel sets aifw_block4 / aifw_block6
    expiry,   \* expiry[ip]: when the kernel drops the entry, 0 for never
    call,     \* call[t]: where thread t is inside block(), unblock() or sweep()
    due,      \* the sweeper's local list `expired`, not yet lifted
    logged    \* logged[ip]: block rows minus unblock rows sent to history

vars == <<now, safe, active, until, kernel, expiry, call, due, logged>>

Idle == [at |-> "idle"]
BlockCall == [at : {"lock", "record", "logBlock"}, ip : Ip, secs : Seconds]
UnblockCall == [at : {"logUnblock"}, ip : Ip]
ScanCall == [at : {"scan"}, time : Nat]
Call == {Idle} \cup BlockCall \cup UnblockCall \cup ScanCall

TypeOK ==
    /\ now \in Nat \ {0}
    /\ safe \subseteq Ip
    /\ active \subseteq Ip
    /\ until \in [Ip -> Nat]
    /\ kernel \subseteq Ip
    /\ expiry \in [Ip -> Nat]
    /\ call \in [Threads -> Call]
    /\ due \subseteq Ip
    /\ logged \in [Ip -> Int]

Init ==
    /\ now = Start
    /\ safe = Protected
    /\ active = {}
    /\ until = [ip \in Ip |-> 0]
    /\ kernel = {}
    /\ expiry = [ip \in Ip |-> 0]
    /\ call = [t \in Threads |-> Idle]
    /\ due = {}
    /\ logged = [ip \in Ip |-> 0]

-----------------------------------------------------------------------------
(* Mutants: plausible slips in the definitions below, used to show that     *)
(* each property can fail.                                                  *)

LockAlwaysFree == TRUE
NothingIsSafe(ip) == FALSE
LifetimeDropped(secs) == 0
NeverExpired(ip, time) == FALSE
KernelDelForgotten(ip) == UNCHANGED <<kernel, expiry>>

-----------------------------------------------------------------------------
(* Helpers.                                                                 *)

At(t, place) == call[t].at = place

(* self._lock is held across a step only between the ipset command and the  *)
(* record; every other critical section is a single step.                   *)
LockFree == \A t \in Threads : ~At(t, "record")

IsSafe(ip) == ip \in safe

(* `seconds > 0` gives the kernel entry a timeout, anything else none.      *)
KernelTimeout(secs) == IF secs > 0 THEN now + secs ELSE 0

(* `seconds` truthy gives the record a deadline, 0 none.                    *)
Deadline(secs) == IF secs # 0 THEN now + secs ELSE 0

Expired(ip, time) == ip \in active /\ until[ip] # 0 /\ time >= until[ip]

Goto(t, next) == call' = [call EXCEPT ![t] = next]

-----------------------------------------------------------------------------
(* block(ip, seconds)                                                       *)

(* is_safe() lets the request through; the lock is not held yet.  A safe    *)
(* address is refused and nothing changes, so there is no step for it.      *)
RequestBlock(t, ip, secs) ==
    /\ At(t, "idle")
    /\ ~IsSafe(ip)
    /\ Goto(t, [at |-> "lock", ip |-> ip, secs |-> secs])
    /\ UNCHANGED <<now, safe, active, until, kernel, expiry, due, logged>>

(* Already blocked: the deadline moves when both the request and the record *)
(* are timed and the request lasts longer; the kernel entry is not touched. *)
ExtendKnown(t) ==
    /\ At(t, "lock")
    /\ LockFree
    /\ LET ip == call[t].ip
           secs == call[t].secs
       IN  /\ ip \in active
           /\ until' = IF secs # 0 /\ until[ip] # 0 /\ now + secs > until[ip]
                       THEN [until EXCEPT ![ip] = now + secs]
                       ELSE until
    /\ Goto(t, Idle)
    /\ UNCHANGED <<now, safe, active, kernel, expiry, due, logged>>

(* `ipset add ... -exist` succeeds: the kernel drops from here on.          *)
KernelAdd(t) ==
    /\ At(t, "lock")
    /\ LockFree
    /\ LET ip == call[t].ip
       IN  /\ ip \notin active
           /\ kernel' = kernel \cup {ip}
           /\ expiry' = [expiry EXCEPT ![ip] = KernelTimeout(call[t].secs)]
    /\ Goto(t, [call[t] EXCEPT !.at = "record"])
    /\ UNCHANGED <<now, safe, active, until, due, logged>>

(* The command fails (no such set after stop(), no IPv6, a timeout ipset    *)
(* does not accept): block() returns False.                                 *)
KernelAddFails(t) ==
    /\ At(t, "lock")
    /\ LockFree
    /\ call[t].ip \notin active
    /\ Goto(t, Idle)
    /\ UNCHANGED <<now, safe, active, until, kernel, expiry, due, logged>>

(* The record is written and the lock released; the deadline is computed    *)
(* from the clock as it reads now, after the command.                       *)
Record(t) ==
    /\ At(t, "record")
    /\ LET ip == call[t].ip
       IN  /\ active' = active \cup {ip}
           /\ until' = [until EXCEPT ![ip] = Deadline(call[t].secs)]
    /\ Goto(t, [call[t] EXCEPT !.at = "logBlock"])
    /\ UNCHANGED <<now, safe, kernel, expiry, due, logged>>

(* on_change("block", ...) outside the lock.                                *)
LogBlock(t) ==
    /\ At(t, "logBlock")
    /\ logged' = [logged EXCEPT ![call[t].ip] = @ + 1]
    /\ Goto(t, Idle)
    /\ UNCHANGED <<now, safe, active, until, kernel, expiry, due>>

-----------------------------------------------------------------------------
(* unblock(ip)                                                              *)

Existed(ip) == ip \in active

(* `ipset del`: its result is ignored, so a failure leaves the entry.       *)
KernelDel(ip) ==
    \/ /\ kernel' = kernel \ {ip}
       /\ expiry' = [expiry EXCEPT ![ip] = 0]
    \/ /\ ip \in kernel \cap MayStick
       /\ UNCHANGED <<kernel, expiry>>

(* Kernel entry and record go in one critical section; only a record that   *)
(* existed is reported to history.                                          *)
Unblock(t, ip) ==
    /\ At(t, "idle")
    /\ LockFree
    /\ KernelDel(ip)
    /\ active' = active \ {ip}
    /\ until' = [until EXCEPT ![ip] = 0]
    /\ Goto(t, IF Existed(ip) THEN [at |-> "logUnblock", ip |-> ip] ELSE Idle)
    /\ UNCHANGED <<now, safe, logged>>

LogUnblock(t) ==
    /\ At(t, "logUnblock")
    /\ logged' = [logged EXCEPT ![call[t].ip] = @ - 1]
    /\ Goto(t, Idle)
    /\ UNCHANGED <<now, safe, active, until, kernel, expiry, due>>

ManualUnblock(t, ip) == Unblock(t, ip) /\ UNCHANGED due

-----------------------------------------------------------------------------
(* sweep()                                                                  *)

(* The clock is read before the lock is taken.                              *)
SweepWakes ==
    /\ At(Sweeper, "idle")
    /\ due = {}
    /\ Goto(Sweeper, [at |-> "scan", time |-> now])
    /\ UNCHANGED <<now, safe, active, until, kernel, expiry, due, logged>>

(* The addresses expired by that clock are collected under the lock ...     *)
SweepScan ==
    /\ At(Sweeper, "scan")
    /\ LockFree
    /\ due' = {ip \in Ip : Expired(ip, call[Sweeper].time)}
    /\ Goto(Sweeper, Idle)
    /\ UNCHANGED <<now, safe, active, until, kernel, expiry, logged>>

(* ... and unblocked one by one after it was released.                      *)
SweepLift(ip) ==
    /\ ip \in due
    /\ Unblock(Sweeper, ip)
    /\ due' = due \ {ip}

(* The ipset command cannot be started: the exception ends this sweep and   *)
(* _sweep_loop swallows it.                                                 *)
SweepAborts ==
    /\ At(Sweeper, "idle")
    /\ due # {}
    /\ LockFree
    /\ due' = {}
    /\ UNCHANGED <<now, safe, active, until, kernel, expiry, call, logged>>

-----------------------------------------------------------------------------
(* add_safe(ip), and the clock with the kernel's own entry timers.          *)

AddSafe(ip) ==
    /\ LockFree
    /\ safe' = safe \cup {ip}
    /\ UNCHANGED <<now, active, until, kernel, expiry, call, due, logged>>

Lapsed(ip, time) == expiry[ip] # 0 /\ time >= expiry[ip]

Tick ==
    /\ now < LastTick
    /\ now' = now + 1
    /\ kernel' = {ip \in kernel : ~Lapsed(ip, now + 1)}
    /\ expiry' = [ip \in Ip |-> IF Lapsed(ip, now + 1) THEN 0 ELSE expiry[ip]]
    /\ UNCHANGED <<safe, active, until, call, due, logged>>

-----------------------------------------------------------------------------
Finish(t) ==
    \/ ExtendKnown(t)
    \/ KernelAdd(t)
    \/ KernelAddFails(t)
    \/ Record(t)
    \/ LogBlock(t)
    \/ LogUnblock(t)

Sweep ==
    \/ SweepWakes
    \/ SweepScan
    \/ \E ip \in Ip : SweepLift(ip)
    \/ SweepAborts

Next ==
    \/ \E t \in Callers, ip \in Ip, secs \in Seconds : RequestBlock(t, ip, secs)
    \/ \E t \in Threads : Finish(t)
    \/ \E t \in Callers, ip \in Ip : ManualUnblock(t, ip)
    \/ Sweep
    \/ \E ip \in Ip : AddSafe(ip)
    \/ Tick

Spec == Init /\ [][Next]_vars

(* Fairness: time passes; a thread inside block() or unblock() runs on      *)
(* (its only wait is for the lock, held for the length of one command); the *)
(* sweeper wakes every two seconds and gets the lock, which others hold     *)
(* again and again but never keep; an ipset command it keeps retrying does  *)
(* not fail to start for ever.  Callers owe nothing.                        *)
Fairness ==
    /\ WF_vars(Tick)
    /\ \A t \in Threads : WF_vars(Finish(t))
    /\ WF_vars(SweepWakes)
    /\ SF_vars(SweepScan)
    /\ \A ip \in Ip : SF_vars(SweepLift(ip))

FairSpec == Spec /\ Fairness

-----------------------------------------------------------------------------
(* Properties.                                                              *)

Recording(ip) == \E t \in Threads : At(t, "record") /\ call[t].ip = ip

(* No address of the initial safelist is ever recorded as blocked or        *)
(* dropped by the kernel, whichever threads ask for it and whenever.        *)
NeverBlocksProtected == Protected \cap (active \cup kernel) = {}

(* Where `ipset del` works, every address the kernel drops has a record, or *)
(* is about to get one from the thread holding the lock, whatever happens   *)
(* to other addresses: no orphan entry is left behind that nobody can see   *)
(* in the dashboard or that the sweeper would never lift.                   *)
KernelHasRecord ==
    \A ip \in kernel \ MayStick : ip \in active \/ Recording(ip)

(* With lifetimes that are not negative, the kernel never keeps dropping an *)
(* address beyond the deadline its record shows.                            *)
NoKernelOverstay ==
    \A ip \in kernel \cap active :
        until[ip] # 0 => expiry[ip] # 0 /\ expiry[ip] <= until[ip]

(* The history and the blocklist agree: block rows minus unblock rows,      *)
(* counting the callbacks still to run, is 1 for a blocked address and 0    *)
(* for any other.  Every block and every lift is reported exactly once.     *)
Waiting(place, ip) == Cardinality({t \in Threads : At(t, place) /\ call[t].ip = ip})

LogBalanced ==
    \A ip \in Ip :
        logged[ip] + Waiting("logBlock", ip) - Waiting("logUnblock", ip)
            = IF ip \in active THEN 1 ELSE 0

(* A timed block lifts itself, whatever the callers do meanwhile and        *)
(* although single commands of the sweeper may fail; only a deadline moved  *)
(* past the end of the clock is exempt.                                     *)
TimedBlocksLift ==
    \A ip \in Ip :
        (ip \in active /\ until[ip] # 0)
            ~> (ip \notin active \/ until[ip] > LastTick)

(* The records and the kernel set are the BlockSet the pipeline is built    *)
(* on: under the lock the ipset command and the record are one step.        *)
Blocks == INSTANCE BlockSet
              WITH active <- active \cup {ip \in Ip : Recording(ip)}, Safe <- Protected

IsBlockSet == Blocks!Spec

-----------------------------------------------------------------------------
(* What the documents say and the code does not do.                         *)

(* README.md:163: the page shows "who's blocked": an address whose entry    *)
(* could not be removed is dropped by the kernel without a record.          *)
EveryEntryIsShown == \A ip \in kernel : ip \in active \/ Recording(ip)

(* blocklist.py:110: sweep() lifts "blocks whose lifetime has passed": an   *)
(* address it lifts is expired at that moment.                              *)
SweepLiftsOnlyExpired ==
    [][\A ip \in Ip : SweepLift(ip) /\ ip \in active => Expired(ip, now)]_vars

(* HOW_IT_WORKS.md:210: "once an address is blocked, its packets are        *)
(* discarded by the kernel": when a block's deadline moves, the kernel      *)
(* keeps the entry until the new one.                                       *)
ExtensionReachesKernel ==
    [][\A ip \in active \cap active' :
          until'[ip] > until[ip]
              => ip \in kernel' /\ (expiry'[ip] = 0 \/ expiry'[ip] >= until'[ip])]_vars

(* blocklist.py:78: "Extend the block if the new one lasts longer": a       *)
(* request without a time limit lasts longer than any timed block.          *)
LongerRequestWins ==
    [][\A t \in Callers :
          ExtendKnown(t) /\ call[t].secs = 0 => until'[call[t].ip] = 0]_vars
=============================================================================
