--------------------------- MODULE BlocklistProofs ---------------------------
(* Proofs about Blocklist: type correctness, the state invariants that tie  *)
(* the kernel set, the records, the safelist and the history together, and  *)
(* the refinement of BlockSet.                                              *)
EXTENDS Blocklist, FiniteSetTheorems, TLAPS

(* The clock never runs behind the start.                                   *)
ClockOK == now >= Start

(* The lock: at most one thread is between the ipset command and the record *)
(* and the address it is about to record is not recorded yet.               *)
LockOK ==
    /\ \A t, u \in Threads : At(t, "record") /\ At(u, "record") => t = u
    /\ \A t \in Threads : At(t, "record") => call[t].ip \notin active

(* An initially safe address stays safe, and no call carries one past       *)
(* is_safe().                                                               *)
SafeOK ==
    /\ Protected \subseteq safe
    /\ \A t \in Threads :
          At(t, "lock") \/ At(t, "record") => call[t].ip \notin Protected
    /\ NeverBlocksProtected

(* While the record is still to be written, the kernel entry ends no later  *)
(* than the deadline the record will get.                                   *)
OverstayOK ==
    /\ \A t \in Threads :
          At(t, "record") /\ call[t].ip \in kernel /\ call[t].secs # 0
              => /\ expiry[call[t].ip] # 0
                 /\ expiry[call[t].ip] <= now + call[t].secs
    /\ NoKernelOverstay

-----------------------------------------------------------------------------
(* What the position of a thread says about the call it carries.            *)
LEMMA CallTypes ==
    ASSUME TypeOK, NEW t \in Threads
    PROVE  /\ At(t, "lock") \/ At(t, "record") \/ At(t, "logBlock")
                => call[t] \in BlockCall /\ call[t].ip \in Ip /\ call[t].secs \in Seconds
           /\ At(t, "logUnblock") => call[t] \in UnblockCall /\ call[t].ip \in Ip
<1>1. call[t] \in {Idle} \cup BlockCall \cup UnblockCall \cup ScanCall
  BY DEF TypeOK, Call
<1>2. CASE call[t] = Idle
  BY <1>2 DEF At, Idle
<1>3. CASE call[t] \in BlockCall
  BY <1>3 DEF At, BlockCall
<1>4. CASE call[t] \in UnblockCall
  BY <1>4 DEF At, UnblockCall
<1>5. CASE call[t] \in ScanCall
  BY <1>5 DEF At, ScanCall
<1>q. QED
  BY <1>1, <1>2, <1>3, <1>4, <1>5

(* A deadline computed from the clock is a positive number.                 *)
LEMMA DeadlinePositive ==
    ASSUME TypeOK, ClockOK, NEW secs \in Seconds
    PROVE  now + secs \in Nat /\ now + secs > 0
  BY BlocklistAssumption DEF TypeOK, ClockOK

(* Moving a block() call on changes nothing but its position.               *)
LEMMA AdvanceFacts ==
    ASSUME NEW c \in BlockCall, NEW place \in {"record", "logBlock"}
    PROVE  LET next == [c EXCEPT !.at = place]
           IN  /\ next \in BlockCall
               /\ next.at = place
               /\ next.ip = c.ip
               /\ next.secs = c.secs
  BY DEF BlockCall

(* Moving a thread keeps the type of the call table and leaves the others.  *)
LEMMA GotoFacts ==
    ASSUME TypeOK, NEW t \in Threads, NEW next, Goto(t, next)
    PROVE  /\ next \in Call => call' \in [Threads -> Call]
           /\ call'[t] = next
           /\ \A u \in Threads \ {t} : call'[u] = call[u]
  BY DEF TypeOK, Goto

(* The sweeper reads the clock or makes its list: it moves between "idle"   *)
(* and "scan" and touches nothing another thread reads.                     *)
SweeperTurns(next) ==
    /\ At(Sweeper, "idle") \/ At(Sweeper, "scan")
    /\ next \in Call
    /\ next.at \in {"idle", "scan"}
    /\ Goto(Sweeper, next)
    /\ UNCHANGED <<now, safe, active, until, kernel, expiry, logged>>

LEMMA SweeperFacts ==
    ASSUME TypeOK, SweepWakes \/ SweepScan
    PROVE  Sweeper \in Threads /\ \E next : SweeperTurns(next)
<1>1. Sweeper \in Threads
  BY DEF Threads
<1>2. CASE SweepWakes
  <2>1. [at |-> "scan", time |-> now] \in Call
    BY DEF TypeOK, Call, ScanCall
  <2>2. SweeperTurns([at |-> "scan", time |-> now])
    BY <1>2, <2>1 DEF SweepWakes, SweeperTurns
  <2>q. QED
    BY <1>1, <2>2
<1>3. CASE SweepScan
  <2>1. SweeperTurns(Idle)
    BY <1>3 DEF SweepScan, SweeperTurns, Call, Idle
  <2>q. QED
    BY <1>1, <2>1
<1>q. QED
  BY <1>2, <1>3

(* A thread that moves on inside block() keeps the call's arguments.        *)
LEMMA AdvanceStep ==
    ASSUME TypeOK, NEW t \in Threads, call[t] \in BlockCall,
           NEW place \in {"record", "logBlock"},
           Goto(t, [call[t] EXCEPT !.at = place])
    PROVE  /\ call'[t].at = place
           /\ call'[t].ip = call[t].ip
           /\ call'[t].secs = call[t].secs
<1>1. call'[t] = [call[t] EXCEPT !.at = place]
  BY GotoFacts
<1>q. QED
  BY <1>1, AdvanceFacts

-----------------------------------------------------------------------------
(* Type correctness.                                                        *)

LEMMA TypeInit == Init => TypeOK /\ ClockOK
  BY BlocklistAssumption DEF Init, TypeOK, ClockOK, Idle, Call

LEMMA TypeStep == TypeOK /\ ClockOK /\ [Next]_vars => TypeOK' /\ ClockOK'
<1> SUFFICES ASSUME TypeOK, ClockOK, [Next]_vars
             PROVE  TypeOK' /\ ClockOK'
  OBVIOUS
<1> USE BlocklistAssumption
<1>1. ASSUME NEW t \in Callers, NEW ip \in Ip, NEW secs \in Seconds,
             RequestBlock(t, ip, secs)
      PROVE  TypeOK' /\ ClockOK'
  <2>1. t \in Threads
    BY DEF Threads
  <2>2. [at |-> "lock", ip |-> ip, secs |-> secs] \in BlockCall
    BY DEF BlockCall
  <2>q. QED
    BY <1>1, <2>1, <2>2, GotoFacts DEF RequestBlock, TypeOK, ClockOK, Call
<1>2. ASSUME NEW t \in Threads, ExtendKnown(t)
      PROVE  TypeOK' /\ ClockOK'
  <2>1. call[t].ip \in Ip /\ call[t].secs \in Seconds
    BY <1>2, CallTypes DEF ExtendKnown
  <2>2. now + call[t].secs \in Nat
    BY <2>1, DeadlinePositive
  <2>3. until' \in [Ip -> Nat]
    BY <1>2, <2>2 DEF ExtendKnown, TypeOK
  <2>q. QED
    BY <1>2, <2>3, GotoFacts DEF ExtendKnown, TypeOK, ClockOK, Call
<1>3. ASSUME NEW t \in Threads, KernelAdd(t)
      PROVE  TypeOK' /\ ClockOK'
  <2>1. call[t] \in BlockCall /\ call[t].ip \in Ip /\ call[t].secs \in Seconds
    BY <1>3, CallTypes DEF KernelAdd
  <2>2. KernelTimeout(call[t].secs) \in Nat
    BY <2>1, DeadlinePositive DEF KernelTimeout
  <2>3. kernel' \subseteq Ip /\ expiry' \in [Ip -> Nat]
    BY <1>3, <2>1, <2>2 DEF KernelAdd, TypeOK
  <2>4. [call[t] EXCEPT !.at = "record"] \in BlockCall
    BY <2>1 DEF BlockCall
  <2>q. QED
    BY <1>3, <2>3, <2>4, GotoFacts DEF KernelAdd, TypeOK, ClockOK, Call
<1>4. ASSUME NEW t \in Threads, KernelAddFails(t)
      PROVE  TypeOK' /\ ClockOK'
  BY <1>4, GotoFacts DEF KernelAddFails, TypeOK, ClockOK, Call
<1>5. ASSUME NEW t \in Threads, Record(t)
      PROVE  TypeOK' /\ ClockOK'
  <2>1. call[t] \in BlockCall /\ call[t].ip \in Ip /\ call[t].secs \in Seconds
    BY <1>5, CallTypes DEF Record
  <2>2. Deadline(call[t].secs) \in Nat
    BY <2>1, DeadlinePositive DEF Deadline
  <2>3. active' \subseteq Ip /\ until' \in [Ip -> Nat]
    BY <1>5, <2>1, <2>2 DEF Record, TypeOK
  <2>4. [call[t] EXCEPT !.at = "logBlock"] \in BlockCall
    BY <2>1 DEF BlockCall
  <2>q. QED
    BY <1>5, <2>3, <2>4, GotoFacts DEF Record, TypeOK, ClockOK, Call
<1>6. ASSUME NEW t \in Threads, LogBlock(t) \/ LogUnblock(t)
      PROVE  TypeOK' /\ ClockOK'
  <2>1. call[t].ip \in Ip
    BY <1>6, CallTypes DEF LogBlock, LogUnblock
  <2>2. logged' \in [Ip -> Int]
    BY <1>6, <2>1 DEF LogBlock, LogUnblock, TypeOK
  <2>q. QED
    BY <1>6, <2>2, GotoFacts DEF LogBlock, LogUnblock, TypeOK, ClockOK, Call
<1>7. ASSUME NEW t \in Threads, NEW ip \in Ip, Unblock(t, ip), due' \subseteq Ip
      PROVE  TypeOK' /\ ClockOK'
  <2>1. kernel' \subseteq Ip /\ expiry' \in [Ip -> Nat]
    BY <1>7 DEF Unblock, KernelDel, TypeOK
  <2>2. active' \subseteq Ip /\ until' \in [Ip -> Nat]
    BY <1>7 DEF Unblock, TypeOK
  <2>3. [at |-> "logUnblock", ip |-> ip] \in UnblockCall
    BY DEF UnblockCall
  <2>4. call' \in [Threads -> Call]
    BY <1>7, <2>3, GotoFacts DEF Unblock, Call
  <2>q. QED
    BY <1>7, <2>1, <2>2, <2>4 DEF Unblock, TypeOK, ClockOK
<1>8. CASE SweepAborts
  BY <1>8 DEF SweepAborts, TypeOK, ClockOK
<1>14. CASE SweepWakes \/ SweepScan
  <2>1. PICK next : SweeperTurns(next)
    BY <1>14, SweeperFacts
  <2>2. due' \subseteq Ip
    BY <1>14 DEF SweepWakes, SweepScan, TypeOK
  <2>q. QED
    BY <1>14, <2>1, <2>2, SweeperFacts, GotoFacts DEF SweeperTurns, TypeOK, ClockOK
<1>9. ASSUME NEW ip \in Ip, AddSafe(ip)
      PROVE  TypeOK' /\ ClockOK'
  BY <1>9 DEF AddSafe, TypeOK, ClockOK
<1>10. CASE Tick
  BY <1>10 DEF Tick, TypeOK, ClockOK
<1>11. CASE UNCHANGED vars
  BY <1>11 DEF vars, TypeOK, ClockOK
<1>12. ASSUME NEW t \in Callers, NEW ip \in Ip, ManualUnblock(t, ip)
       PROVE  TypeOK' /\ ClockOK'
  BY <1>7, <1>12 DEF ManualUnblock, Threads, TypeOK
<1>13. ASSUME NEW ip \in Ip, SweepLift(ip)
       PROVE  TypeOK' /\ ClockOK'
  BY <1>7, <1>13 DEF SweepLift, Threads, TypeOK
<1>q. QED
  BY <1>1, <1>2, <1>3, <1>4, <1>5, <1>6, <1>8, <1>9, <1>10, <1>11, <1>12, <1>13,
     <1>14 DEF Next, Finish, Sweep

(* Every variable keeps its type, for any addresses, lifetimes and threads, *)
(* and the clock does not run behind the start.                             *)
THEOREM TypeCorrect == Spec => [](TypeOK /\ ClockOK)
  BY TypeInit, TypeStep, PTL DEF Spec

-----------------------------------------------------------------------------
(* No deadline lies further ahead than the longest lifetime asked for.      *)

Within(longest) ==
    \A ip \in Ip : until[ip] <= now + longest /\ expiry[ip] <= now + longest

LEMMA WithinStep ==
    ASSUME NEW longest \in Nat, \A secs \in Seconds : secs <= longest,
           TypeOK, ClockOK, Within(longest), [Next]_vars
    PROVE  Within(longest)'
<1>1. ASSUME UNCHANGED <<now, until, expiry>>
      PROVE  Within(longest)'
  BY <1>1 DEF Within
<1>2. ASSUME NEW secs \in Seconds
      PROVE  /\ now + secs \in Nat /\ now + secs <= now + longest
             /\ Deadline(secs) \in Nat /\ Deadline(secs) <= now + longest
             /\ KernelTimeout(secs) \in Nat /\ KernelTimeout(secs) <= now + longest
  BY DeadlinePositive, BlocklistAssumption DEF TypeOK, Deadline, KernelTimeout
<1>3. ASSUME NEW t \in Threads, ExtendKnown(t)
      PROVE  Within(longest)'
  <2>1. call[t].ip \in Ip /\ call[t].secs \in Seconds
    BY <1>3, CallTypes DEF ExtendKnown
  <2>2. now + call[t].secs <= now + longest
    BY <1>2, <2>1
  <2>q. QED
    BY <1>3, <2>1, <2>2 DEF ExtendKnown, Within, TypeOK
<1>4. ASSUME NEW t \in Threads, KernelAdd(t)
      PROVE  Within(longest)'
  <2>1. call[t].ip \in Ip /\ call[t].secs \in Seconds
    BY <1>4, CallTypes DEF KernelAdd
  <2>2. KernelTimeout(call[t].secs) <= now + longest
    BY <1>2, <2>1
  <2>q. QED
    BY <1>4, <2>1, <2>2 DEF KernelAdd, Within, TypeOK
<1>5. ASSUME NEW t \in Threads, Record(t)
      PROVE  Within(longest)'
  <2>1. call[t].ip \in Ip /\ call[t].secs \in Seconds
    BY <1>5, CallTypes DEF Record
  <2>2. Deadline(call[t].secs) <= now + longest
    BY <1>2, <2>1
  <2>q. QED
    BY <1>5, <2>1, <2>2 DEF Record, Within, TypeOK
<1>6. ASSUME NEW t \in Threads, NEW ip \in Ip, Unblock(t, ip)
      PROVE  Within(longest)'
  BY <1>6 DEF Unblock, KernelDel, Within, TypeOK
<1>7. CASE Tick
  BY <1>7 DEF Tick, Within, TypeOK
<1>q. QED
  BY <1>1, <1>3, <1>4, <1>5, <1>6, <1>7
     DEF Next, Finish, Sweep, RequestBlock, KernelAddFails, LogBlock, LogUnblock,
         ManualUnblock, SweepLift, SweepWakes, SweepScan, SweepAborts, AddSafe,
         Threads, vars

(* However often a block is extended or repeated and by whichever threads,  *)
(* neither a record's deadline nor a kernel timeout ever lies further ahead *)
(* of the clock than the longest lifetime anybody asks for: lifetimes do    *)
(* not add up.                                                              *)
THEOREM LifetimesDoNotAddUp ==
    ASSUME NEW longest \in Nat, \A secs \in Seconds : secs <= longest
    PROVE  Spec => []Within(longest)
<1>1. Init => Within(longest)
  BY BlocklistAssumption DEF Init, Within
<1>2. TypeOK /\ ClockOK /\ Within(longest) /\ [Next]_vars => Within(longest)'
  BY WithinStep
<1>q. QED
  BY <1>1, <1>2, TypeInit, TypeStep, PTL DEF Spec

-----------------------------------------------------------------------------
(* The safelist.                                                            *)

LEMMA SafeInit == Init => SafeOK
  BY BlocklistAssumption DEF Init, SafeOK, NeverBlocksProtected, At, Idle

LEMMA SafeStep == TypeOK /\ SafeOK /\ [Next]_vars => SafeOK'
<1> SUFFICES ASSUME TypeOK, SafeOK, [Next]_vars
             PROVE  SafeOK'
  OBVIOUS
<1> DEFINE Carried(t) ==
             At(t, "lock") \/ At(t, "record") => call[t].ip \notin Protected
<1>1. ASSUME NEW t \in Callers, NEW ip \in Ip, NEW secs \in Seconds,
             RequestBlock(t, ip, secs)
      PROVE  SafeOK'
  <2>1. t \in Threads
    BY DEF Threads
  <2>2. ip \notin Protected
    BY <1>1 DEF RequestBlock, IsSafe, SafeOK
  <2>3. ASSUME NEW u \in Threads
        PROVE  Carried(u)'
    BY <1>1, <2>1, <2>2, <2>3, GotoFacts DEF RequestBlock, SafeOK, At
  <2>q. QED
    BY <1>1, <2>3 DEF RequestBlock, SafeOK, NeverBlocksProtected
<1>2. ASSUME NEW t \in Threads, ExtendKnown(t) \/ KernelAddFails(t)
      PROVE  SafeOK'
  <2>1. ASSUME NEW u \in Threads
        PROVE  Carried(u)'
    BY <1>2, <2>1, GotoFacts DEF ExtendKnown, KernelAddFails, SafeOK, At, Idle
  <2>q. QED
    BY <1>2, <2>1 DEF ExtendKnown, KernelAddFails, SafeOK, NeverBlocksProtected
<1>3. ASSUME NEW t \in Threads, KernelAdd(t) \/ Record(t)
      PROVE  SafeOK'
  <2>1. call[t] \in BlockCall /\ call[t].ip \notin Protected
    BY <1>3, CallTypes DEF KernelAdd, Record, SafeOK
  <2>2. PICK place \in {"record", "logBlock"} :
          Goto(t, [call[t] EXCEPT !.at = place])
    BY <1>3 DEF KernelAdd, Record
  <2>5. [call[t] EXCEPT !.at = place].ip = call[t].ip
    BY <2>1, AdvanceFacts
  <2>6. call'[t].ip = call[t].ip
    BY <2>2, <2>5, GotoFacts
  <2>3. \A u \in Threads \ {t} : call'[u] = call[u]
    BY <1>3, GotoFacts DEF KernelAdd, Record
  <2>4. ASSUME NEW u \in Threads
        PROVE  Carried(u)'
    <3>1. CASE u = t
      BY <2>1, <2>6, <3>1
    <3>2. CASE u # t
      BY <2>3, <3>2 DEF SafeOK, At
    <3>q. QED
      BY <3>1, <3>2
  <2>q. QED
    BY <1>3, <2>1, <2>4 DEF KernelAdd, Record, SafeOK, NeverBlocksProtected
<1>4. ASSUME NEW t \in Threads, LogBlock(t) \/ LogUnblock(t)
      PROVE  SafeOK'
  <2>1. ASSUME NEW u \in Threads
        PROVE  Carried(u)'
    BY <1>4, <2>1, GotoFacts DEF LogBlock, LogUnblock, SafeOK, At, Idle
  <2>q. QED
    BY <1>4, <2>1 DEF LogBlock, LogUnblock, SafeOK, NeverBlocksProtected
<1>5. ASSUME NEW t \in Threads, NEW ip \in Ip, Unblock(t, ip)
      PROVE  SafeOK'
  <2>1. ASSUME NEW u \in Threads
        PROVE  Carried(u)'
    BY <1>5, <2>1, GotoFacts DEF Unblock, SafeOK, At, Idle
  <2>q. QED
    BY <1>5, <2>1 DEF Unblock, KernelDel, SafeOK, NeverBlocksProtected
<1>6. CASE SweepAborts \/ UNCHANGED vars
  BY <1>6 DEF SweepAborts, vars, SafeOK, NeverBlocksProtected, At
<1>9. CASE SweepWakes \/ SweepScan
  <2>1. PICK next : SweeperTurns(next)
    BY <1>9, SweeperFacts
  <2>2. ASSUME NEW u \in Threads
        PROVE  Carried(u)'
    BY <1>9, <2>1, <2>2, SweeperFacts, GotoFacts DEF SweeperTurns, SafeOK, At
  <2>q. QED
    BY <2>1, <2>2 DEF SweeperTurns, SafeOK, NeverBlocksProtected
<1>7. ASSUME NEW ip \in Ip, AddSafe(ip)
      PROVE  SafeOK'
  BY <1>7 DEF AddSafe, SafeOK, NeverBlocksProtected, At
<1>8. CASE Tick
  BY <1>8 DEF Tick, SafeOK, NeverBlocksProtected, At
<1>q. QED
  BY <1>1, <1>2, <1>3, <1>4, <1>5, <1>6, <1>7, <1>8, <1>9
     DEF Next, Finish, Sweep, ManualUnblock, SweepLift, Threads

(* No interleaving of detectors, AI, web requests and sweeper ever blocks   *)
(* an address the safelist held at the start.                               *)
THEOREM SafelistHolds == Spec => []NeverBlocksProtected
<1>1. SafeOK => NeverBlocksProtected
  BY DEF SafeOK
<1>q. QED
  BY <1>1, SafeInit, SafeStep, TypeInit, TypeStep, PTL DEF Spec

-----------------------------------------------------------------------------
(* The lock and the records.                                                *)

LEMMA LockInit == Init => LockOK /\ KernelHasRecord
  BY DEF Init, LockOK, KernelHasRecord, At, Idle

(* A thread that leaves "record", or does not come to it, cannot break      *)
(* LockOK as long as no address is recorded.                                *)
LEMMA LockKept ==
    ASSUME TypeOK, LockOK, NEW t \in Threads, NEW next, Goto(t, next),
           next.at # "record", active' \subseteq active
    PROVE  LockOK'
  BY GotoFacts DEF LockOK, At

LEMMA LockStep == TypeOK /\ LockOK /\ [Next]_vars => LockOK'
<1> SUFFICES ASSUME TypeOK, LockOK, [Next]_vars
             PROVE  LockOK'
  OBVIOUS
<1>1. ASSUME NEW t \in Callers, NEW ip \in Ip, NEW secs \in Seconds,
             RequestBlock(t, ip, secs)
      PROVE  LockOK'
  <2>1. t \in Threads
    BY DEF Threads
  <2>q. QED
    BY <1>1, <2>1, LockKept DEF RequestBlock
<1>2. ASSUME NEW t \in Threads,
             ExtendKnown(t) \/ KernelAddFails(t) \/ LogBlock(t) \/ LogUnblock(t)
      PROVE  LockOK'
  <2>1. Idle.at # "record"
    BY DEF Idle
  <2>q. QED
    BY <1>2, <2>1, LockKept
       DEF ExtendKnown, KernelAddFails, LogBlock, LogUnblock
<1>3. ASSUME NEW t \in Threads, KernelAdd(t)
      PROVE  LockOK'
  <2>1. call[t] \in BlockCall /\ call[t].ip \notin active
    BY <1>3, CallTypes DEF KernelAdd
  <2>2. [call[t] EXCEPT !.at = "record"].ip = call[t].ip
    BY <2>1, AdvanceFacts
  <2>3. \A u \in Threads : ~At(u, "record")
    BY <1>3 DEF KernelAdd, LockFree
  <2>4. \A u \in Threads \ {t} : ~At(u, "record")'
    BY <1>3, <2>3, GotoFacts DEF KernelAdd, At
  <2>5. call'[t].ip \notin active'
    BY <1>3, <2>1, <2>2, GotoFacts DEF KernelAdd
  <2>q. QED
    BY <2>4, <2>5 DEF LockOK
<1>4. ASSUME NEW t \in Threads, Record(t)
      PROVE  LockOK'
  <2>1. call[t] \in BlockCall
    BY <1>4, CallTypes DEF Record
  <2>2. [call[t] EXCEPT !.at = "logBlock"].at = "logBlock"
    BY <2>1, AdvanceFacts
  <2>3. \A u \in Threads : ~At(u, "record")'
    BY <1>4, <2>2, GotoFacts DEF Record, LockOK, At
  <2>q. QED
    BY <2>3 DEF LockOK
<1>5. ASSUME NEW t \in Threads, NEW ip \in Ip, Unblock(t, ip)
      PROVE  LockOK'
  <2>1. ASSUME NEW next, next = IF Existed(ip) THEN [at |-> "logUnblock", ip |-> ip] ELSE Idle
        PROVE  next.at # "record"
    BY <2>1 DEF Idle
  <2>q. QED
    BY <1>5, <2>1, LockKept DEF Unblock
<1>6. CASE UNCHANGED <<call, active>>
  BY <1>6 DEF LockOK, At
<1>7. CASE SweepWakes \/ SweepScan
  <2>1. PICK next : SweeperTurns(next)
    BY <1>7, SweeperFacts
  <2>q. QED
    BY <1>7, <2>1, SweeperFacts, LockKept DEF SweeperTurns
<1>q. QED
  BY <1>1, <1>2, <1>3, <1>4, <1>5, <1>6, <1>7
     DEF Next, Finish, Sweep, ManualUnblock, SweepLift, Threads,
         SweepAborts, AddSafe, Tick, vars

(* Only the thread at "record" can end a Recording.                         *)
LEMMA RecordingKept ==
    ASSUME TypeOK, NEW t \in Threads, ~At(t, "record"),
           NEW next, Goto(t, next), NEW ip, Recording(ip)
    PROVE  Recording(ip)'
<1>1. PICK u \in Threads : At(u, "record") /\ call[u].ip = ip
  BY DEF Recording
<1>2. u # t
  BY <1>1
<1>3. call'[u] = call[u]
  BY <1>2, GotoFacts
<1>q. QED
  BY <1>1, <1>3 DEF Recording, At

LEMMA RecordStep ==
    ASSUME TypeOK, KernelHasRecord, [Next]_vars
    PROVE  KernelHasRecord'
<1>1. ASSUME NEW t \in Callers, NEW ip \in Ip, NEW secs \in Seconds,
             RequestBlock(t, ip, secs)
      PROVE  KernelHasRecord'
  <2>1. t \in Threads /\ ~At(t, "record")
    BY <1>1 DEF Threads, RequestBlock, At
  <2>q. QED
    BY <1>1, <2>1, RecordingKept DEF RequestBlock, KernelHasRecord
<1>2. ASSUME NEW t \in Threads,
             ExtendKnown(t) \/ KernelAddFails(t) \/ LogBlock(t) \/ LogUnblock(t)
      PROVE  KernelHasRecord'
  <2>1. ~At(t, "record")
    BY <1>2 DEF ExtendKnown, KernelAddFails, LogBlock, LogUnblock, At
  <2>2. PICK next : Goto(t, next)
    BY <1>2 DEF ExtendKnown, KernelAddFails, LogBlock, LogUnblock
  <2>3. kernel' = kernel /\ active' = active
    BY <1>2 DEF ExtendKnown, KernelAddFails, LogBlock, LogUnblock
  <2>q. QED
    BY <2>1, <2>2, <2>3, RecordingKept DEF KernelHasRecord
<1>3. ASSUME NEW t \in Threads, KernelAdd(t)
      PROVE  KernelHasRecord'
  <2>1. call[t] \in BlockCall /\ ~At(t, "record")
    BY <1>3, CallTypes DEF KernelAdd, At
  <2>2. At(t, "record")' /\ call'[t].ip = call[t].ip
    <3>1. Goto(t, [call[t] EXCEPT !.at = "record"])
      BY <1>3 DEF KernelAdd
    <3>q. QED
      BY <2>1, <3>1, AdvanceStep DEF At
  <2>3. ASSUME NEW ip, Recording(ip)
        PROVE  Recording(ip)'
    BY <1>3, <2>1, <2>3, RecordingKept DEF KernelAdd
  <2>4. kernel' = kernel \cup {call[t].ip} /\ active' = active
    BY <1>3 DEF KernelAdd
  <2>5. ASSUME NEW ip \in kernel' \ MayStick
        PROVE  ip \in active' \/ Recording(ip)'
    <3>1. CASE ip \in kernel
      BY <2>3, <2>4, <3>1 DEF KernelHasRecord
    <3>2. CASE ip = call[t].ip
      BY <2>2, <3>2 DEF Recording
    <3>q. QED
      BY <2>4, <3>1, <3>2
  <2>q. QED
    BY <2>5 DEF KernelHasRecord
<1>4. ASSUME NEW t \in Threads, Record(t)
      PROVE  KernelHasRecord'
  <2>1. \A u \in Threads \ {t} : call'[u] = call[u]
    BY <1>4, GotoFacts DEF Record
  <2>2. ASSUME NEW ip, Recording(ip), ip # call[t].ip
        PROVE  Recording(ip)'
    BY <2>1, <2>2 DEF Recording, At
  <2>q. QED
    BY <1>4, <2>2 DEF Record, KernelHasRecord
<1>5. ASSUME NEW t \in Threads, NEW ip \in Ip, Unblock(t, ip)
      PROVE  KernelHasRecord'
  <2>1. ~At(t, "record")
    BY <1>5 DEF Unblock, At
  <2>2. /\ kernel' \ MayStick \subseteq kernel \ (MayStick \cup {ip})
        /\ active' = active \ {ip}
    BY <1>5 DEF Unblock, KernelDel
  <2>3. PICK next : Goto(t, next)
    BY <1>5 DEF Unblock
  <2>q. QED
    BY <2>1, <2>2, <2>3, RecordingKept DEF KernelHasRecord
<1>6. CASE kernel' \subseteq kernel /\ UNCHANGED <<active, call>>
  BY <1>6 DEF KernelHasRecord, Recording, At
<1>7. Tick => kernel' \subseteq kernel
  BY DEF Tick
<1>8. CASE SweepWakes \/ SweepScan
  <2>1. PICK next : SweeperTurns(next)
    BY <1>8, SweeperFacts
  <2>2. ~At(Sweeper, "record")
    BY <2>1 DEF SweeperTurns, At
  <2>3. kernel' = kernel /\ active' = active
    BY <2>1 DEF SweeperTurns
  <2>4. ASSUME NEW ip, Recording(ip)
        PROVE  Recording(ip)'
    BY <1>8, <2>1, <2>2, <2>4, SweeperFacts, RecordingKept DEF SweeperTurns
  <2>q. QED
    BY <2>3, <2>4 DEF KernelHasRecord
<1>q. QED
  BY <1>1, <1>2, <1>3, <1>4, <1>5, <1>6, <1>7, <1>8
     DEF Next, Finish, Sweep, ManualUnblock, SweepLift, Threads,
         SweepAborts, AddSafe, Tick, vars

(* Where `ipset del` works, no kernel entry is ever left without a record   *)
(* (or the thread about to write it), whatever the threads do.              *)
THEOREM NoOrphanEntry == Spec => []KernelHasRecord
<1>1. TypeOK /\ KernelHasRecord /\ [Next]_vars => KernelHasRecord'
  BY RecordStep
<1>q. QED
  BY <1>1, LockInit, TypeInit, TypeStep, PTL DEF Spec

-----------------------------------------------------------------------------
(* The kernel never outlasts the record.                                    *)

LEMMA OverstayInit == Init => OverstayOK
  BY DEF Init, OverstayOK, NoKernelOverstay, At, Idle

(* The part of OverstayOK about one thread, and about one address.          *)
Pending(t) ==
    At(t, "record") /\ call[t].ip \in kernel /\ call[t].secs # 0
        => expiry[call[t].ip] # 0 /\ expiry[call[t].ip] <= now + call[t].secs

Bounded(ip) ==
    ip \in kernel \cap active /\ until[ip] # 0
        => expiry[ip] # 0 /\ expiry[ip] <= until[ip]

LEMMA OverstayParts ==
    OverstayOK <=> (\A t \in Threads : Pending(t)) /\ (\A ip : Bounded(ip))
  BY DEF OverstayOK, NoKernelOverstay, Pending, Bounded

(* A step that leaves kernel, expiry and the clock alone, records nothing   *)
(* and lets no thread come to "record".                                     *)
LEMMA OverstayKept ==
    ASSUME TypeOK, OverstayOK, UNCHANGED <<kernel, expiry, now>>,
           NEW t \in Threads, NEW next, Goto(t, next), next.at # "record",
           \A ip \in kernel \cap active' :
               /\ ip \in active
               /\ until'[ip] # 0 => until[ip] # 0 /\ until[ip] <= until'[ip],
           until \in [Ip -> Nat], until' \in [Ip -> Nat]
    PROVE  OverstayOK'
<1>1. ASSUME NEW u \in Threads
      PROVE  Pending(u)'
  <2>1. CASE u = t
    BY <2>1, GotoFacts DEF Pending, At
  <2>2. CASE u # t
    BY <2>2, GotoFacts, OverstayParts DEF Pending, At
  <2>q. QED
    BY <2>1, <2>2
<1>2. ASSUME NEW ip
      PROVE  Bounded(ip)'
  <2>1. ip \in kernel => ip \in Ip /\ until[ip] \in Nat /\ until'[ip] \in Nat
                         /\ expiry[ip] \in Nat
    BY DEF TypeOK
  <2>q. QED
    BY <2>1, OverstayParts DEF Bounded
<1>q. QED
  BY <1>1, <1>2 DEF OverstayOK, NoKernelOverstay, Pending, Bounded

LEMMA OverstayStep ==
    ASSUME Seconds \subseteq Nat, TypeOK, TypeOK', ClockOK, LockOK, OverstayOK, [Next]_vars
    PROVE  OverstayOK'
<1> DEFINE AllParts == (\A t \in Threads : Pending(t)) /\ (\A ip : Bounded(ip))
<1>a. AllParts' => OverstayOK'
  BY DEF OverstayOK, NoKernelOverstay, Pending, Bounded
<1>1. ASSUME NEW t \in Callers, NEW ip \in Ip, NEW secs \in Seconds,
             RequestBlock(t, ip, secs)
      PROVE  OverstayOK'
  <2>1. t \in Threads
    BY DEF Threads
  <2>q. QED
    BY <1>1, <2>1, OverstayKept DEF RequestBlock, TypeOK
<1>2. ASSUME NEW t \in Threads, KernelAddFails(t) \/ LogBlock(t) \/ LogUnblock(t)
      PROVE  OverstayOK'
  BY <1>2, OverstayKept DEF KernelAddFails, LogBlock, LogUnblock, TypeOK, Idle
<1>3. ASSUME NEW t \in Threads, ExtendKnown(t)
      PROVE  OverstayOK'
  <2>1. call[t].ip \in Ip /\ call[t].secs \in Seconds
    BY <1>3, CallTypes DEF ExtendKnown
  <2>2. now + call[t].secs \in Nat
    BY <2>1, DeadlinePositive
  <2>3. \A ip \in Ip : until'[ip] # 0 => until[ip] # 0 /\ until[ip] <= until'[ip]
    BY <1>3, <2>1, <2>2 DEF ExtendKnown, TypeOK
  <2>4. \A ip \in kernel : ip \in Ip
    BY DEF TypeOK
  <2>5. active' = active /\ UNCHANGED <<kernel, expiry, now>> /\ Goto(t, Idle)
    BY <1>3 DEF ExtendKnown
  <2>6. Idle.at # "record"
    BY DEF Idle
  <2>7. until \in [Ip -> Nat] /\ until' \in [Ip -> Nat]
    BY DEF TypeOK
  <2>q. QED
    BY <2>3, <2>4, <2>5, <2>6, <2>7, OverstayKept
<1>4. ASSUME NEW t \in Threads, KernelAdd(t)
      PROVE  OverstayOK'
  <2>0. call[t] \in BlockCall /\ call[t].ip \in Ip /\ call[t].secs \in Seconds
    BY <1>4, CallTypes DEF KernelAdd
  <2>1. PICK x \in Ip, secs \in Seconds : x = call[t].ip /\ secs = call[t].secs
    BY <2>0
  <2>2. /\ x \notin active
        /\ kernel' = kernel \cup {x}
        /\ expiry' = [expiry EXCEPT ![x] = KernelTimeout(secs)]
        /\ UNCHANGED <<now, active, until>>
        /\ Goto(t, [call[t] EXCEPT !.at = "record"])
    BY <1>4, <2>1 DEF KernelAdd
  <2>3. call'[t].ip = x /\ call'[t].secs = secs
    BY <2>0, <2>1, <2>2, AdvanceStep
  <2>4. expiry'[x] = KernelTimeout(secs)
    BY <2>1, <2>2 DEF TypeOK
  <2>5. secs # 0 => KernelTimeout(secs) = now + secs /\ now + secs # 0
    BY <2>1, DeadlinePositive DEF KernelTimeout, TypeOK
  <2>6. Pending(t)'
    BY <2>2, <2>3, <2>4, <2>5 DEF Pending, TypeOK
  <2>7. \A u \in Threads \ {t} : ~At(u, "record")'
    BY <1>4, <2>2, GotoFacts DEF KernelAdd, LockFree, At
  <2>8. ASSUME NEW ip
        PROVE  Bounded(ip)'
    <3>1. CASE ip = x
      BY <2>2, <3>1 DEF Bounded
    <3>2. CASE ip # x /\ ip \in kernel
      <4>1. expiry'[ip] = expiry[ip]
        BY <2>2, <3>2 DEF TypeOK
      <4>q. QED
        BY <2>2, <3>2, <4>1, OverstayParts DEF Bounded
    <3>3. CASE ip # x /\ ip \notin kernel
      BY <2>2, <3>3 DEF Bounded
    <3>q. QED
      BY <3>1, <3>2, <3>3
  <2>q. QED
    BY <1>a, <2>6, <2>7, <2>8 DEF Pending
<1>5. ASSUME NEW t \in Threads, Record(t)
      PROVE  OverstayOK'
  <2>0. call[t] \in BlockCall /\ call[t].ip \in Ip /\ call[t].secs \in Seconds
    BY <1>5, CallTypes DEF Record
  <2>1. PICK x \in Ip, secs \in Seconds : x = call[t].ip /\ secs = call[t].secs
    BY <2>0
  <2>2. /\ active' = active \cup {x}
        /\ until' = [until EXCEPT ![x] = Deadline(secs)]
        /\ UNCHANGED <<now, kernel, expiry>>
        /\ Goto(t, [call[t] EXCEPT !.at = "logBlock"])
        /\ At(t, "record")
    BY <1>5, <2>1 DEF Record
  <2>3. \A u \in Threads : ~At(u, "record")'
    <3>1. call'[t].at = "logBlock"
      BY <2>0, <2>2, AdvanceStep
    <3>2. \A u \in Threads \ {t} : call'[u] = call[u] /\ ~At(u, "record")
      BY <2>2, GotoFacts DEF LockOK
    <3>q. QED
      BY <3>1, <3>2 DEF At
  <2>4. until'[x] = Deadline(secs)
    BY <2>1, <2>2 DEF TypeOK
  <2>5. x \in kernel /\ secs # 0 => expiry[x] # 0 /\ expiry[x] <= now + secs
    BY <2>1, <2>2, OverstayParts DEF Pending
  <2>6. Bounded(x)'
    BY <2>2, <2>4, <2>5 DEF Bounded, Deadline
  <2>7. ASSUME NEW ip, ip # x
        PROVE  Bounded(ip)'
    <3>1. CASE ip \in kernel
      <4>1. until'[ip] = until[ip]
        BY <2>2, <2>7, <3>1 DEF TypeOK
      <4>q. QED
        BY <2>2, <2>7, <4>1, OverstayParts DEF Bounded
    <3>2. CASE ip \notin kernel
      BY <2>2, <3>2 DEF Bounded
    <3>q. QED
      BY <3>1, <3>2
  <2>q. QED
    BY <1>a, <2>3, <2>6, <2>7 DEF Pending
<1>6. ASSUME NEW t \in Threads, NEW ip \in Ip, Unblock(t, ip)
      PROVE  OverstayOK'
  <2>1. /\ active' = active \ {ip}
        /\ until' = [until EXCEPT ![ip] = 0]
        /\ now' = now
        /\ kernel' \subseteq kernel
        /\ \A i \in kernel' : expiry'[i] = expiry[i]
    BY <1>6 DEF Unblock, KernelDel, TypeOK
  <2>2. PICK next : Goto(t, next) /\ next.at # "record"
    BY <1>6 DEF Unblock, Idle
  <2>3. ASSUME NEW u \in Threads
        PROVE  Pending(u)'
    <3>1. CASE u = t
      BY <2>2, <3>1, GotoFacts DEF Pending, At
    <3>2. CASE u # t
      BY <2>1, <2>2, <3>2, GotoFacts, OverstayParts DEF Pending, At
    <3>q. QED
      BY <3>1, <3>2
  <2>4. ASSUME NEW i
        PROVE  Bounded(i)'
    <3>1. CASE i \in kernel' \cap active'
      <4>1. until'[i] = until[i] /\ expiry'[i] = expiry[i]
        BY <2>1, <3>1 DEF TypeOK
      <4>q. QED
        BY <2>1, <3>1, <4>1, OverstayParts DEF Bounded
    <3>2. CASE i \notin kernel' \cap active'
      BY <3>2 DEF Bounded
    <3>q. QED
      BY <3>1, <3>2
  <2>q. QED
    BY <1>a, <2>3, <2>4
<1>7. CASE Tick
  <2>1. now' = now + 1 /\ UNCHANGED <<call, active, until>>
    BY <1>7 DEF Tick
  <2>2. \A ip \in kernel' : ip \in kernel /\ expiry'[ip] = expiry[ip]
    BY <1>7 DEF Tick, TypeOK
  <2>3. ASSUME NEW t \in Threads
        PROVE  Pending(t)'
    <3>1. CASE At(t, "record") /\ call[t].ip \in kernel'
      <4>1. call[t].secs \in Nat /\ expiry[call[t].ip] \in Nat /\ now \in Nat
        BY <3>1, CallTypes DEF TypeOK
      <4>q. QED
        BY <2>1, <2>2, <3>1, <4>1, OverstayParts DEF Pending, At
    <3>2. CASE ~(At(t, "record") /\ call[t].ip \in kernel')
      BY <2>1, <3>2 DEF Pending, At
    <3>q. QED
      BY <3>1, <3>2
  <2>4. ASSUME NEW ip
        PROVE  Bounded(ip)'
    BY <2>1, <2>2, OverstayParts DEF Bounded
  <2>q. QED
    BY <1>a, <2>3, <2>4
<1>8. CASE UNCHANGED <<call, active, until, kernel, expiry, now>>
  BY <1>8 DEF OverstayOK, NoKernelOverstay, At
<1>9. CASE SweepWakes \/ SweepScan
  <2>1. PICK next : SweeperTurns(next)
    BY <1>9, SweeperFacts
  <2>2. /\ UNCHANGED <<active, until, kernel, expiry, now>>
        /\ Goto(Sweeper, next)
        /\ next.at # "record"
    BY <2>1 DEF SweeperTurns
  <2>3. \A ip \in kernel : ip \in Ip /\ until[ip] \in Nat
    BY DEF TypeOK
  <2>q. QED
    BY <1>9, <2>2, <2>3, SweeperFacts, OverstayKept DEF TypeOK
<1>q. QED
  BY <1>1, <1>2, <1>3, <1>4, <1>5, <1>6, <1>7, <1>8, <1>9
     DEF Next, Finish, Sweep, ManualUnblock, SweepLift, Threads,
         SweepAborts, AddSafe, vars

(* Where no lifetime asked for is negative (the dashboard does accept       *)
(* negative ones), a timed block never outlives in the kernel the deadline  *)
(* its record shows, however slow the ipset command.                        *)
THEOREM KernelLetsGo == Seconds \subseteq Nat => (Spec => []NoKernelOverstay)
<1> SUFFICES ASSUME Seconds \subseteq Nat
             PROVE  Spec => []NoKernelOverstay
  OBVIOUS
<1>1. TypeOK /\ TypeOK' /\ ClockOK /\ LockOK /\ OverstayOK /\ [Next]_vars => OverstayOK'
  BY OverstayStep
<1>2. OverstayOK => NoKernelOverstay
  BY DEF OverstayOK
<1>q. QED
  BY <1>1, <1>2, OverstayInit, LockInit, LockStep, TypeInit, TypeStep, PTL DEF Spec
-----------------------------------------------------------------------------
(* Records and kernel set are a BlockSet: the lock makes one step of the    *)
(* ipset command and the record that follows it.                            *)
Recorded == active \cup {ip \in Ip : Recording(ip)}

(* Nobody comes to "record" or leaves it.                                   *)
LEMMA RecordedSame ==
    ASSUME TypeOK, NEW t \in Threads, ~At(t, "record"), NEW next, Goto(t, next),
           next.at # "record", UNCHANGED active
    PROVE  UNCHANGED Recorded
<1>1. ASSUME NEW u \in Threads
      PROVE  At(u, "record")' <=> At(u, "record")
  BY GotoFacts DEF At
<1>2. ASSUME NEW u \in Threads, At(u, "record")
      PROVE  call'[u] = call[u]
  BY <1>2, GotoFacts
<1>3. \A ip \in Ip : Recording(ip)' <=> Recording(ip)
  BY <1>1, <1>2 DEF Recording
<1>q. QED
  BY <1>3 DEF Recorded

(* While the lock is free the records are complete.                         *)
LEMMA RecordedWhenFree == LockFree => Recorded = active
  BY DEF LockFree, Recorded, Recording

LEMMA KernelAddBlocks ==
    ASSUME TypeOK, SafeOK, NEW t \in Threads, KernelAdd(t)
    PROVE  \E ip \in Ip : Blocks!Block(ip)
<1>1. call[t] \in BlockCall /\ call[t].ip \in Ip /\ Goto(t, [call[t] EXCEPT !.at = "record"])
  BY CallTypes DEF KernelAdd
<1>2. PICK ip \in Ip : ip = call[t].ip
  BY <1>1
<1>3. ip \notin Protected /\ ip \notin active /\ kernel' = kernel \cup {ip} /\ active' = active
  BY <1>2 DEF KernelAdd, SafeOK
<1>4. call'[t].at = "record" /\ call'[t].ip = ip
  BY <1>1, <1>2, AdvanceStep
<1>5. \A u \in Threads \ {t} : call'[u] = call[u] /\ ~At(u, "record")
  BY <1>1, GotoFacts DEF KernelAdd, LockFree
<1>6. \A j \in Ip : Recording(j)' <=> j = ip
  BY <1>4, <1>5 DEF Recording, At
<1>7. Recorded = active /\ Recorded' = active \cup {ip}
  BY <1>3, <1>6, RecordedWhenFree DEF KernelAdd, Recorded
<1>q. QED
  BY <1>3, <1>7 DEF Blocks!Block, Blocks!Blockable, Recorded

LEMMA RecordStutters ==
    ASSUME TypeOK, LockOK, NEW t \in Threads, Record(t)
    PROVE  UNCHANGED <<Recorded, kernel>>
<1>1. call[t] \in BlockCall /\ call[t].ip \in Ip /\ Goto(t, [call[t] EXCEPT !.at = "logBlock"])
  BY CallTypes DEF Record
<1>2. PICK ip \in Ip : ip = call[t].ip
  BY <1>1
<1>3. active' = active \cup {ip} /\ kernel' = kernel
  BY <1>2 DEF Record
<1>4. call'[t].at = "logBlock"
  BY <1>1, AdvanceStep
<1>5. \A u \in Threads \ {t} : call'[u] = call[u] /\ ~At(u, "record")
  BY <1>1, GotoFacts DEF Record, LockOK
<1>6. \A j \in Ip : ~Recording(j)' /\ (Recording(j) <=> j = ip)
  BY <1>2, <1>4, <1>5 DEF Recording, At, Record
<1>q. QED
  BY <1>3, <1>6 DEF Recorded

LEMMA UnblockLifts ==
    ASSUME TypeOK, NEW t \in Threads, NEW ip \in Ip, Unblock(t, ip)
    PROVE  Blocks!Lift(ip)
<1>1. PICK next : Goto(t, next) /\ next.at # "record"
  BY DEF Unblock, Idle
<1>2. \A u \in Threads : call'[u].at # "record"
  BY <1>1, GotoFacts DEF Unblock, LockFree, At
<1>3. Recorded = active /\ Recorded' = active'
  BY <1>2, RecordedWhenFree DEF Unblock, Recorded, Recording, At
<1>4. active' = active \ {ip} /\ (kernel' = kernel \ {ip} \/ (ip \in MayStick /\ kernel' = kernel))
  BY DEF Unblock, KernelDel
<1>q. QED
  BY <1>3, <1>4 DEF Blocks!Lift, Recorded

LEMMA BlockSetStep ==
    ASSUME TypeOK, LockOK, SafeOK, [Next]_vars
    PROVE  [Blocks!Next]_<<Recorded, kernel>>
<1>1. ASSUME NEW t \in Callers, NEW ip \in Ip, NEW secs \in Seconds,
             RequestBlock(t, ip, secs)
      PROVE  UNCHANGED <<Recorded, kernel>>
  <2>1. t \in Threads /\ ~At(t, "record")
    BY <1>1 DEF Threads, RequestBlock, At
  <2>q. QED
    BY <1>1, <2>1, RecordedSame DEF RequestBlock
<1>2. ASSUME NEW t \in Threads,
             ExtendKnown(t) \/ KernelAddFails(t) \/ LogBlock(t) \/ LogUnblock(t)
      PROVE  UNCHANGED <<Recorded, kernel>>
  <2>1. ~At(t, "record") /\ Goto(t, Idle) /\ UNCHANGED <<active, kernel>>
    BY <1>2 DEF ExtendKnown, KernelAddFails, LogBlock, LogUnblock, At
  <2>q. QED
    BY <2>1, RecordedSame DEF Idle
<1>3. ASSUME NEW t \in Threads, KernelAdd(t)
      PROVE  Blocks!Next
  BY <1>3, KernelAddBlocks DEF Blocks!Next
<1>4. ASSUME NEW t \in Threads, Record(t)
      PROVE  UNCHANGED <<Recorded, kernel>>
  BY <1>4, RecordStutters
<1>5. ASSUME NEW t \in Threads, NEW ip \in Ip, Unblock(t, ip)
      PROVE  Blocks!Next
  BY <1>5, UnblockLifts DEF Blocks!Next
<1>6. CASE UNCHANGED <<active, call, kernel>>
  BY <1>6 DEF Recorded, Recording, At
<1>7. CASE Tick
  <2>1. kernel' \subseteq kernel /\ UNCHANGED <<active, call>>
    BY <1>7 DEF Tick
  <2>2. UNCHANGED Recorded
    BY <2>1 DEF Recorded, Recording, At
  <2>3. Blocks!Lapse(kernel \ kernel')
    BY <2>1, <2>2 DEF Blocks!Lapse, Recorded
  <2>q. QED
    BY <2>3 DEF Blocks!Next
<1>8. CASE SweepWakes \/ SweepScan
  <2>1. PICK next : SweeperTurns(next)
    BY <1>8, SweeperFacts
  <2>2. /\ ~At(Sweeper, "record")
        /\ Goto(Sweeper, next)
        /\ next.at # "record"
        /\ UNCHANGED <<active, kernel>>
    BY <2>1 DEF SweeperTurns, At
  <2>3. Sweeper \in Threads
    BY DEF Threads
  <2>q. QED
    BY <2>2, <2>3, RecordedSame
<1>q. QED
  BY <1>1, <1>2, <1>3, <1>4, <1>5, <1>6, <1>7, <1>8
     DEF Next, Finish, Sweep, ManualUnblock, SweepLift, Threads,
         SweepAborts, AddSafe, vars

(* Blocklist implements the BlockSet the pipeline is built on, for any      *)
(* threads, addresses and lifetimes (IsBlockSet, block(), unblock(), sweep()). *)
THEOREM BlockSetRefinement == Spec => IsBlockSet
<1>1. Init => Blocks!Init
  BY DEF Init, Blocks!Init, Recording, At, Idle
<1>2. ASSUME TypeOK, LockOK, SafeOK, [Next]_vars
      PROVE  [Blocks!Next]_<<active \cup {ip \in Ip : Recording(ip)}, kernel>>
  BY <1>2, BlockSetStep DEF Recorded
<1>q. QED
  BY <1>1, <1>2, SafeInit, SafeStep, LockInit, LockStep, TypeInit, TypeStep, PTL
     DEF Spec, IsBlockSet, Blocks!Spec
-----------------------------------------------------------------------------
(* What is reported: the threads that wait to report are counted.            *)
Bit(b) == IF b THEN 1 ELSE 0
Carries(c, place, ip) == c.at = place /\ c.ip = ip

(* A thread that moves on changes the count of its old and its new place.    *)
LEMMA WaitingMoves ==
    ASSUME IsFiniteSet(Threads), TypeOK, NEW t \in Threads, NEW next, Goto(t, next),
           NEW place, NEW ip
    PROVE  /\ Waiting(place, ip) \in Nat
           /\ Waiting(place, ip)' =
                Waiting(place, ip) - Bit(Carries(call[t], place, ip))
                                   + Bit(Carries(next, place, ip))
<1> DEFINE There == {u \in Threads : At(u, place) /\ call[u].ip = ip}
           Others == There \ {t}
<1>1. IsFiniteSet(There) /\ Cardinality(There) \in Nat
  BY FS_Subset, FS_CardinalityType
<1>2. /\ IsFiniteSet(Others)
      /\ Cardinality(Others) = Cardinality(There) - Bit(Carries(call[t], place, ip))
      /\ Cardinality(Others) \in Nat
  <2>1. IsFiniteSet(Others) /\ Cardinality(Others) \in Nat
    BY <1>1, FS_RemoveElement, FS_CardinalityType
  <2>2. Cardinality(Others) = IF t \in There THEN Cardinality(There) - 1
                              ELSE Cardinality(There)
    BY <1>1, FS_RemoveElement
  <2>3. t \in There <=> Carries(call[t], place, ip)
    BY DEF At, Carries
  <2>4. QED
    BY <1>1, <2>1, <2>2, <2>3 DEF Bit
<1>3. call'[t] = next /\ \A u \in Threads \ {t} : call'[u] = call[u]
  BY GotoFacts
<1>4. There' = IF Carries(next, place, ip) THEN Others \cup {t} ELSE Others
  BY <1>3 DEF At, Carries
<1>5. Cardinality(There') = Cardinality(Others) + Bit(Carries(next, place, ip))
  <2> HIDE DEF There, Others
  <2>1. CASE Carries(next, place, ip)
    <3>1. t \notin Others
      BY DEF Others
    <3>2. There' = Others \cup {t}
      BY <1>4, <2>1
    <3>3. Cardinality(Others \cup {t}) = Cardinality(Others) + 1
      BY <1>2, <3>1, FS_AddElement
    <3>4. QED
      BY <2>1, <3>2, <3>3 DEF Bit
  <2>2. CASE ~Carries(next, place, ip)
    <3>1. There' = Others
      BY <1>4, <2>2
    <3>2. QED
      BY <1>2, <2>2, <3>1 DEF Bit
  <2>3. QED
    BY <2>1, <2>2
<1>6. QED
  BY <1>1, <1>2, <1>5 DEF Waiting

(* The balance of one address.                                               *)
Balance(ip) == logged[ip] + Waiting("logBlock", ip) - Waiting("logUnblock", ip)

(* What each step of block() and unblock() does to the balance.              *)
LEMMA BalanceMoves ==
    ASSUME IsFiniteSet(Threads), TypeOK, NEW t \in Threads, NEW next, Goto(t, next),
           NEW ip \in Ip, logged'[ip] \in Int
    PROVE  Balance(ip)' = Balance(ip)
                + (logged'[ip] - logged[ip])
                + (Bit(Carries(next, "logBlock", ip))
                        - Bit(Carries(call[t], "logBlock", ip)))
                + (Bit(Carries(call[t], "logUnblock", ip))
                        - Bit(Carries(next, "logUnblock", ip)))
<1>1. logged[ip] \in Int
  BY DEF TypeOK
<1>2. /\ Waiting("logBlock", ip) \in Nat
      /\ Waiting("logBlock", ip)' =
            Waiting("logBlock", ip) - Bit(Carries(call[t], "logBlock", ip))
                                    + Bit(Carries(next, "logBlock", ip))
  BY WaitingMoves
<1>3. /\ Waiting("logUnblock", ip) \in Nat
      /\ Waiting("logUnblock", ip)' =
            Waiting("logUnblock", ip) - Bit(Carries(call[t], "logUnblock", ip))
                                      + Bit(Carries(next, "logUnblock", ip))
  BY WaitingMoves
<1>4. Bit(TRUE) = 1 /\ Bit(FALSE) = 0
  BY DEF Bit
<1>5. \A b \in BOOLEAN : Bit(b) \in {0, 1}
  BY <1>4
<1>6. \A c, place : Bit(Carries(c, place, ip)) \in Int
  BY DEF Bit
<1>7. QED
  BY <1>1, <1>2, <1>3, <1>6 DEF Balance

(* Nothing was reported and nobody waits to report.                          *)
LEMMA BalanceInit == IsFiniteSet(Threads) /\ Init => LogBalanced
<1> SUFFICES ASSUME Init, NEW ip \in Ip
             PROVE  Balance(ip) = 0 /\ ip \notin active
  BY DEF LogBalanced, Balance
<1>1. \A place \in {"logBlock", "logUnblock"} :
        {t \in Threads : At(t, place) /\ call[t].ip = ip} = {}
  BY DEF Init, At, Idle
<1>2. Waiting("logBlock", ip) = 0 /\ Waiting("logUnblock", ip) = 0
  BY <1>1, FS_EmptySet DEF Waiting
<1>3. QED
  BY <1>2 DEF Init, Balance

(* Each step moves the balance of an address as it moves its record.         *)
LEMMA BalanceStep ==
    IsFiniteSet(Threads) /\ TypeOK /\ TypeOK' /\ LockOK /\ LogBalanced /\ [Next]_vars
        => LogBalanced'
<1> SUFFICES ASSUME IsFiniteSet(Threads), TypeOK, TypeOK', LockOK, LogBalanced, [Next]_vars,
                    NEW ip \in Ip
             PROVE  Balance(ip)' = IF ip \in active' THEN 1 ELSE 0
  BY DEF LogBalanced, Balance
<1>1. /\ Balance(ip) = IF ip \in active THEN 1 ELSE 0
      /\ logged[ip] \in Int /\ logged'[ip] \in Int
  BY DEF LogBalanced, Balance, TypeOK
<1>2. ASSUME NEW t \in Threads, NEW next, Goto(t, next), UNCHANGED <<active, logged>>,
             ~At(t, "logBlock"), ~At(t, "logUnblock"),
             next.at # "logBlock", next.at # "logUnblock"
      PROVE  Balance(ip)' = IF ip \in active' THEN 1 ELSE 0
  BY <1>1, <1>2, BalanceMoves DEF Bit, Carries, At
<1>3. ASSUME NEW t \in Callers, NEW other \in Ip, NEW secs \in Seconds,
             RequestBlock(t, other, secs)
      PROVE  Balance(ip)' = IF ip \in active' THEN 1 ELSE 0
  BY <1>2, <1>3 DEF RequestBlock, At, Threads
<1>4. ASSUME NEW t \in Threads, ExtendKnown(t) \/ KernelAddFails(t)
      PROVE  Balance(ip)' = IF ip \in active' THEN 1 ELSE 0
  BY <1>2, <1>4 DEF ExtendKnown, KernelAddFails, At, Idle
<1>5. ASSUME NEW t \in Threads, KernelAdd(t)
      PROVE  Balance(ip)' = IF ip \in active' THEN 1 ELSE 0
  <2>1. [call[t] EXCEPT !.at = "record"].at = "record"
    BY <1>5, CallTypes, AdvanceFacts DEF KernelAdd
  <2>2. QED
    BY <1>2, <1>5, <2>1 DEF KernelAdd, At
<1>6. ASSUME NEW t \in Threads, Record(t)
      PROVE  Balance(ip)' = IF ip \in active' THEN 1 ELSE 0
  <2> DEFINE next == [call[t] EXCEPT !.at = "logBlock"]
  <2>1. next.at = "logBlock" /\ next.ip = call[t].ip
    BY <1>6, CallTypes, AdvanceFacts DEF Record
  <2>2. call[t].ip \notin active
    BY <1>6 DEF Record, LockOK
  <2>3. Goto(t, next) /\ logged' = logged /\ active' = active \cup {call[t].ip}
    BY <1>6 DEF Record
  <2>4. Balance(ip)' = Balance(ip) + Bit(call[t].ip = ip)
    <3> HIDE DEF next
    <3>1. QED
      BY <1>1, <1>6, <2>1, <2>3, BalanceMoves DEF Record, At, Bit, Carries
  <2>5. QED
    BY <1>1, <2>2, <2>3, <2>4 DEF Bit
<1>7. ASSUME NEW t \in Threads, LogBlock(t) \/ LogUnblock(t)
      PROVE  Balance(ip)' = IF ip \in active' THEN 1 ELSE 0
  <2>1. call[t].ip \in Ip /\ logged \in [Ip -> Int] /\ active' = active /\ Goto(t, Idle)
    BY <1>7, CallTypes DEF LogBlock, LogUnblock, TypeOK
  <2>2. CASE LogBlock(t)
    <3>1. logged'[ip] - logged[ip] = Bit(call[t].ip = ip)
      BY <1>1, <2>1, <2>2 DEF LogBlock, Bit
    <3>2. QED
      BY <1>1, <2>1, <2>2, <3>1, BalanceMoves DEF LogBlock, At, Idle, Bit, Carries
  <2>3. CASE LogUnblock(t)
    <3>1. logged[ip] - logged'[ip] = Bit(call[t].ip = ip)
      BY <1>1, <2>1, <2>3 DEF LogUnblock, Bit
    <3>2. QED
      BY <1>1, <2>1, <2>3, <3>1, BalanceMoves DEF LogUnblock, At, Idle, Bit, Carries
  <2>4. QED
    BY <1>7, <2>2, <2>3
<1>8. ASSUME NEW t \in Threads, NEW other \in Ip, Unblock(t, other)
      PROVE  Balance(ip)' = IF ip \in active' THEN 1 ELSE 0
  <2>1. At(t, "idle") /\ active' = active \ {other} /\ logged' = logged
    BY <1>8 DEF Unblock
  <2>2. CASE other \in active
    <3>1. Goto(t, [at |-> "logUnblock", ip |-> other])
      BY <1>8, <2>2 DEF Unblock, Existed
    <3>2. Balance(ip)' = Balance(ip) - Bit(other = ip)
      BY <1>1, <2>1, <3>1, BalanceMoves DEF At, Bit, Carries
    <3>3. QED
      BY <1>1, <2>1, <2>2, <3>2 DEF Bit
  <2>3. CASE other \notin active
    BY <1>2, <1>8, <2>1, <2>3 DEF Unblock, Existed, At, Idle
  <2>4. QED
    BY <2>2, <2>3
<1>9. ASSUME UNCHANGED <<active, logged, call>>
      PROVE  Balance(ip)' = IF ip \in active' THEN 1 ELSE 0
  BY <1>1, <1>9 DEF Balance, Waiting, At
<1>11. CASE SweepWakes \/ SweepScan
  <2>1. PICK next : SweeperTurns(next)
    BY <1>11, SweeperFacts
  <2>2. QED
    BY <1>2, <1>11, <2>1, SweeperFacts DEF SweeperTurns, At
<1>10. QED
  BY <1>3, <1>4, <1>5, <1>6, <1>7, <1>8, <1>9, <1>11
  DEF Next, Finish, Sweep, ManualUnblock, SweepLift, SweepAborts, AddSafe, Tick,
      vars, Threads

(* LogBalanced, for any finite number of threads: an address is recorded     *)
(* only when it was not (LockOK), so each block and each lift is one row.    *)
THEOREM EveryChangeReported == IsFiniteSet(Callers) => (Spec => []LogBalanced)
<1> SUFFICES ASSUME IsFiniteSet(Callers) PROVE Spec => []LogBalanced
  OBVIOUS
<1>1. IsFiniteSet(Threads)
  BY FS_AddElement DEF Threads
<1>2. Init => LogBalanced
  BY <1>1, BalanceInit
<1>3. TypeOK /\ TypeOK' /\ LockOK /\ LogBalanced /\ [Next]_vars => LogBalanced'
  BY <1>1, BalanceStep
<1>4. QED
  BY <1>2, <1>3, LockInit, LockStep, TypeInit, TypeStep, PTL DEF Spec
===============================================================================
