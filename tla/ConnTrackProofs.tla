--------------------------- MODULE ConnTrackProofs ---------------------------
(* Proofs about ConnTrack, for any flows, timeouts and interval.            *)
EXTENDS ConnTrack, TLAPS

(* The clocks: a reader's is at most MaxDelay old while it waits for the    *)
(* lock, and the last sweep is never in the future nor, once a packet has   *)
(* been handled, more than the interval behind that packet.                 *)
ClockOK ==
    /\ lastSweep <= now
    /\ newest <= now
    /\ newest - lastSweep <= SweepEvery
    /\ \A s \in Side :
          call[s].at = "update" => call[s].clock <= now /\ now <= call[s].clock + MaxDelay

(* No entry is younger than the latest clock an update() used, and neither  *)
(* that clock nor the last sweep is in the future.                          *)
NothingFromFuture ==
    /\ lastSweep <= now
    /\ newest <= now
    /\ \A f \in Flow : Known(f) => table[f].last <= newest

Inv == TypeOK /\ ClockOK /\ NothingFromFuture /\ SweepIsThorough /\ EstablishedIsMutual

-----------------------------------------------------------------------------
LEMMA EntryFacts ==
    /\ \A e \in Entry : e # Absent /\ e.last \in Nat /\ e.opener \in Side
                        /\ e.state \in {"new", "established"}
    /\ \A p \in Packet : p # Idle /\ p.at \in {"update", "judge"} /\ p.flow \in Flow
                         /\ p.clock \in Nat /\ p.closing \in BOOLEAN
    /\ Idle.at = "idle"
  BY DEF Entry, Absent, Packet, Idle

(* A reader at "update" or "judge" carries a packet.                        *)
LEMMA CallTypes ==
    ASSUME TypeOK, NEW s \in Side, call[s].at \in {"update", "judge"}
    PROVE  call[s] \in Packet /\ call[s].flow \in Flow /\ call[s].clock \in Nat
<1>1. call[s] \in Packet \cup {Idle}
  BY DEF TypeOK
<1>q. QED
  BY <1>1, EntryFacts

(* What update() leaves in the table for the packet's own flow, before the  *)
(* sweep: nothing, or an entry of the right type last seen at the clock.    *)
Stored(f, s, clock, closing) ==
    IF ~Known(f) THEN NewEntry(f, s, clock)
    ELSE IF closing THEN Absent
    ELSE Refreshed(f, s, clock)

LEMMA RefreshedFacts ==
    ASSUME TypeOK, NEW f \in Flow, NEW s \in Side, NEW clock \in Nat, Known(f)
    PROVE  /\ Refreshed(f, s, clock) \in Entry
           /\ Refreshed(f, s, clock).last = clock
           /\ Refreshed(f, s, clock).opener = table[f].opener
           /\ Refreshed(f, s, clock).state = "established"
                => table[f].state = "established" \/ s # table[f].opener
<1>1. table[f] \in Entry
  BY DEF TypeOK, Known
<1>q. QED
  BY <1>1 DEF Refreshed, Promotes, Entry

LEMMA NewFacts ==
    ASSUME NEW f \in Flow, NEW s \in Side, NEW clock \in Nat
    PROVE  /\ NewEntry(f, s, clock) \in Entry
           /\ NewEntry(f, s, clock).last = clock
           /\ NewEntry(f, s, clock).opener = s
           /\ NewEntry(f, s, clock).state = "new"
  BY DEF NewEntry, Entry

LEMMA StoredFacts ==
    ASSUME TypeOK, NEW f \in Flow, NEW s \in Side, NEW clock \in Nat, NEW closing,
           Stored(f, s, clock, closing) # Absent
    PROVE  /\ Stored(f, s, clock, closing) \in Entry
           /\ Stored(f, s, clock, closing).last = clock
           /\ ~Known(f) => /\ Stored(f, s, clock, closing).opener = s
                           /\ Stored(f, s, clock, closing).state = "new"
           /\ Known(f) => /\ Stored(f, s, clock, closing).opener = table[f].opener
                          /\ Stored(f, s, clock, closing).state = "established"
                               => table[f].state = "established" \/ s # table[f].opener
<1>1. CASE ~Known(f)
  BY <1>1, NewFacts DEF Stored
<1>2. CASE Known(f)
  BY <1>2, RefreshedFacts DEF Stored
<1>q. QED
  BY <1>1, <1>2

(* The table after a critical section: any entry left is the one stored for *)
(* the packet's flow or an old one, and is not stale if a sweep was due.    *)
LEMMA UpdateTable ==
    ASSUME TypeOK, NEW s \in Side, Update(s), NEW g \in Flow, table'[g] # Absent
    PROVE  LET f == call[s].flow
               clock == call[s].clock
           IN  /\ g = f => table'[g] = Stored(f, s, clock, call[s].closing)
               /\ g # f => table'[g] = table[g]
               /\ SweepDue(clock) => clock - table'[g].last <= Timeout[g]
<1> DEFINE f == call[s].flow
           clock == call[s].clock
           tab == [table EXCEPT ![f] = Stored(f, s, clock, call[s].closing)]
<1>1. table' = IF SweepDue(clock) THEN Swept(tab, clock) ELSE tab
  BY DEF Update, Stored
<1>2. f \in Flow /\ clock \in Nat /\ table \in [Flow -> Entry \cup {Absent}]
  BY CallTypes DEF Update, TypeOK
<1>3. tab[g] = IF g = f THEN Stored(f, s, clock, call[s].closing) ELSE table[g]
  BY <1>2
<1>4. table'[g] = tab[g]
  BY <1>1 DEF Swept
<1>5. SweepDue(clock) => ~Stale(g, tab[g], clock)
  BY <1>1 DEF Swept
<1>6. tab[g] \in Entry
  BY <1>2, <1>3, <1>4, StoredFacts
<1>7. SweepDue(clock) => clock - tab[g].last <= Timeout[g]
  BY <1>2, <1>4, <1>5, <1>6, EntryFacts, ConnTrackAssumption DEF Stale
<1>q. QED
  BY <1>3, <1>4, <1>7

LEMMA UpdateTableType ==
    ASSUME TypeOK, NEW s \in Side, Update(s)
    PROVE  table' \in [Flow -> Entry \cup {Absent}]
<1> DEFINE f == call[s].flow
           clock == call[s].clock
           tab == [table EXCEPT ![f] = Stored(f, s, clock, call[s].closing)]
<1>1. table' = IF SweepDue(clock) THEN Swept(tab, clock) ELSE tab
  BY DEF Update, Stored
<1>2. f \in Flow /\ clock \in Nat
  BY CallTypes DEF Update
<1>3. tab \in [Flow -> Entry \cup {Absent}]
  BY <1>2, StoredFacts DEF TypeOK
<1>4. Swept(tab, clock) \in [Flow -> Entry \cup {Absent}]
  BY <1>3 DEF Swept
<1>q. QED
  BY <1>1, <1>3, <1>4

(* The call an inbound packet goes on with.                                 *)
LEMMA JudgeCall ==
    ASSUME NEW p \in Packet, NEW o \in BOOLEAN, NEW d \in Int
    PROVE  LET next == [p EXCEPT !.at = "judge", !.ours = o, !.gap = d]
           IN  next \in Packet /\ next.at = "judge"
  BY DEF Packet

-----------------------------------------------------------------------------
LEMMA InvInit == Init => Inv
  BY ConnTrackAssumption
     DEF Init, Inv, TypeOK, ClockOK, SweepIsThorough, EstablishedIsMutual,
         NothingFromFuture, Known, Idle, Side

(* Steps that leave the table and its history alone keep what is said of it.*)
LEMMA TableUnchanged ==
    ASSUME Inv, UNCHANGED <<table, lastSweep, heard, newest>>, now' \in Nat, now' >= now
    PROVE  SweepIsThorough' /\ EstablishedIsMutual' /\ NothingFromFuture'
<1>1. SweepIsThorough' /\ EstablishedIsMutual'
  BY DEF Inv, SweepIsThorough, EstablishedIsMutual, Known
<1>2. NothingFromFuture'
  BY DEF Inv, NothingFromFuture, Known, TypeOK
<1>q. QED
  BY <1>1, <1>2

LEMMA UpdateStep ==
    ASSUME Inv, NEW s \in Side, Update(s)
    PROVE  Inv'
<1> DEFINE f == call[s].flow
           clock == call[s].clock
<1> USE ConnTrackAssumption
<1>1. call[s] \in Packet /\ f \in Flow /\ clock \in Nat /\ TypeOK /\ call[s].at = "update"
  BY CallTypes DEF Inv, Update
<1>2. clock <= now /\ now <= clock + MaxDelay
  BY <1>1 DEF Inv, ClockOK
<1>3. ASSUME NEW g \in Flow, table'[g] # Absent
      PROVE  /\ table'[g] \in Entry
             /\ g = f => table'[g] = Stored(f, s, clock, call[s].closing)
                         /\ table'[g].last = clock
             /\ g # f => table'[g] = table[g]
             /\ SweepDue(clock) => clock - table'[g].last <= Timeout[g]
  <2>1. CASE g = f
    BY <1>1, <1>3, <2>1, UpdateTable, StoredFacts
  <2>2. CASE g # f
    BY <1>1, <1>3, <2>2, UpdateTable DEF TypeOK
  <2>q. QED
    BY <2>1, <2>2
<1>4. /\ lastSweep' = IF SweepDue(clock) THEN clock ELSE lastSweep
      /\ heard' = [heard EXCEPT ![f] = IF Known(f) THEN @ \cup {s} ELSE {s}]
      /\ newest' = IF clock > newest THEN clock ELSE newest
      /\ now' = now
  BY DEF Update
<1>5. /\ call' \in [Side -> Packet \cup {Idle}]
      /\ call'[s].at # "update"
      /\ \A u \in Side \ {s} : call'[u] = call[u]
  <2>1. PICK next : /\ call' = [call EXCEPT ![s] = next]
                    /\ next = IF s = "us" THEN Idle
                              ELSE [call[s] EXCEPT !.at = "judge", !.ours = OpenedByUs(f),
                                      !.gap = IF Known(f) THEN clock - table[f].last ELSE 0]
    BY DEF Update
  <2>2. Known(f) => clock - table[f].last \in Int
    BY <1>1, EntryFacts DEF TypeOK, Known
  <2>3. OpenedByUs(f) \in BOOLEAN
    BY DEF OpenedByUs, Known
  <2>4. next \in Packet \cup {Idle} /\ next.at # "update"
    <3>1. CASE s = "us"
      BY <2>1, <3>1, EntryFacts
    <3>2. CASE s # "us"
      <4> DEFINE o == OpenedByUs(f)
                 d == IF Known(f) THEN clock - table[f].last ELSE 0
      <4>1. o \in BOOLEAN /\ d \in Int
        BY <2>2, <2>3
      <4>2. next = [call[s] EXCEPT !.at = "judge", !.ours = o, !.gap = d]
        BY <2>1, <3>2
      <4> HIDE DEF o, d
      <4>q. QED
        BY <1>1, <4>1, <4>2, JudgeCall
    <3>q. QED
      BY <3>1, <3>2
  <2>q. QED
    BY <1>1, <2>1, <2>4 DEF TypeOK
<1>6. TypeOK'
  <2>1. table' \in [Flow -> Entry \cup {Absent}]
    BY <1>1, UpdateTableType
  <2>q. QED
    BY <1>1, <1>4, <1>5, <2>1 DEF TypeOK, Side
<1>7. ClockOK'
  BY <1>1, <1>2, <1>4, <1>5 DEF Inv, ClockOK, TypeOK, SweepDue
<1>8. SweepIsThorough'
  <2>1. ASSUME NEW g \in Flow, table'[g] # Absent
        PROVE  lastSweep' - table'[g].last <= Timeout[g]
    <3>1. CASE SweepDue(clock)
      BY <1>3, <1>4, <2>1, <3>1
    <3>2. CASE ~SweepDue(clock) /\ g = f
      BY <1>1, <1>2, <1>3, <1>4, <2>1, <3>2 DEF Inv, ClockOK, TypeOK
    <3>3. CASE ~SweepDue(clock) /\ g # f
      BY <1>3, <1>4, <2>1, <3>3 DEF Inv, SweepIsThorough, Known
    <3>q. QED
      BY <3>1, <3>2, <3>3
  <2>q. QED
    BY <2>1 DEF SweepIsThorough, Known
<1>9. EstablishedIsMutual'
  <2>1. ASSUME NEW g \in Flow, table'[g] # Absent
        PROVE  /\ table'[g].opener \in heard'[g]
               /\ table'[g].state = "established" => heard'[g] = Side
    <3>1. CASE g # f
      BY <1>1, <1>3, <1>4, <2>1, <3>1 DEF Inv, EstablishedIsMutual, Known, TypeOK
    <3>2. CASE g = f /\ ~Known(f)
      BY <1>1, <1>3, <1>4, <2>1, <3>2, StoredFacts DEF TypeOK
    <3>3. CASE g = f /\ Known(f)
      <4>1. heard'[f] = heard[f] \cup {s} /\ heard[f] \subseteq Side
        BY <1>1, <1>4, <3>3 DEF TypeOK
      <4>2. table[f].opener \in heard[f] /\ table[f].opener \in Side
        BY <1>1, <3>3, EntryFacts DEF Inv, EstablishedIsMutual, TypeOK, Known
      <4>3. table[f].state = "established" => heard[f] = Side
        BY <1>1, <3>3 DEF Inv, EstablishedIsMutual
      <4>4. s # table[f].opener => heard'[f] = Side
        BY <4>1, <4>2 DEF Side
      <4>q. QED
        BY <1>1, <1>3, <2>1, <3>3, <4>1, <4>2, <4>3, <4>4, StoredFacts
    <3>q. QED
      BY <3>1, <3>2, <3>3
  <2>q. QED
    BY <2>1 DEF EstablishedIsMutual, Known
<1>10. NothingFromFuture'
  <2>1. ASSUME NEW g \in Flow, table'[g] # Absent
        PROVE  table'[g].last <= newest'
    <3>1. newest \in Nat
      BY <1>1 DEF TypeOK
    <3>2. CASE g # f
      <4>1. table[g].last \in Nat /\ table[g].last <= newest
        BY <1>1, <1>3, <2>1, <3>2, EntryFacts DEF Inv, NothingFromFuture, Known, TypeOK
      <4>2. table'[g].last = table[g].last
        BY <1>3, <2>1, <3>2
      <4>q. QED
        BY <1>1, <1>4, <3>1, <4>1, <4>2
    <3>3. CASE g = f
      BY <1>1, <1>3, <1>4, <2>1, <3>1, <3>3
    <3>q. QED
      BY <3>2, <3>3
  <2>2. lastSweep' <= now' /\ newest' <= now'
    BY <1>7 DEF ClockOK
  <2>q. QED
    BY <2>1, <2>2 DEF NothingFromFuture, Known
<1>q. QED
  BY <1>6, <1>7, <1>8, <1>9, <1>10 DEF Inv

LEMMA InvStep == Inv /\ [Next]_vars => Inv'
<1> SUFFICES ASSUME Inv, [Next]_vars
             PROVE  Inv'
  OBVIOUS
<1>1. ASSUME NEW s \in Side, NEW f \in Flow, NEW closing \in BOOLEAN,
             Arrive(s, f, closing)
      PROVE  Inv'
  <2> DEFINE packet == [at |-> "update", flow |-> f, closing |-> closing,
                        clock |-> now, ours |-> FALSE, gap |-> 0]
  <2>1. packet \in Packet
    BY DEF Packet, Inv, TypeOK
  <2>2. TypeOK'
    BY <1>1, <2>1 DEF Arrive, Inv, TypeOK
  <2>3. ClockOK'
    BY <1>1, ConnTrackAssumption DEF Arrive, Inv, ClockOK, TypeOK
  <2>q. QED
    BY <1>1, <2>2, <2>3, TableUnchanged DEF Arrive, Inv, TypeOK
<1>2. ASSUME NEW s \in Side, Update(s)
      PROVE  Inv'
  BY <1>2, UpdateStep
<1>3. ASSUME NEW answer \in BOOLEAN, Judge(answer)
      PROVE  Inv'
  <2>1. TypeOK' /\ ClockOK'
    BY <1>3, EntryFacts DEF Judge, Inv, TypeOK, ClockOK, Side
  <2>q. QED
    BY <1>3, <2>1, TableUnchanged DEF Judge, Inv, TypeOK
<1>4. CASE Tick
  <2>1. TypeOK'
    BY <1>4 DEF Tick, Inv, TypeOK
  <2>2. ClockOK'
    <3>1. ASSUME NEW s \in Side, call[s].at = "update"
          PROVE  call[s].clock \in Nat
      BY <3>1, CallTypes DEF Inv
    <3>q. QED
      BY <1>4, <3>1, ConnTrackAssumption DEF Tick, Inv, ClockOK, TypeOK
  <2>q. QED
    BY <1>4, <2>1, <2>2, TableUnchanged DEF Tick, Inv, TypeOK
<1>5. CASE UNCHANGED vars
  BY <1>5, TableUnchanged DEF vars, Inv, TypeOK, ClockOK
<1>q. QED
  BY <1>1, <1>2, <1>3, <1>4, <1>5 DEF Next

LEMMA Invariance == Spec => []Inv
  BY InvInit, InvStep, PTL DEF Spec

(* Every variable keeps its type, and no entry carries a time later than    *)
(* the clocks the readers used, which are not in the future themselves.     *)
THEOREM TypeCorrect == Spec => [](TypeOK /\ NothingFromFuture)
<1>1. Inv => TypeOK /\ NothingFromFuture
  BY DEF Inv
<1>q. QED
  BY <1>1, Invariance, PTL

(* The sweep is thorough for any timeouts and interval, provided a reader   *)
(* waits for the lock no longer than the shortest timeout.                  *)
THEOREM Thorough == Spec => []SweepIsThorough
<1>1. Inv => SweepIsThorough
  BY DEF Inv
<1>q. QED
  BY <1>1, Invariance, PTL

(* A flow is established only by both sides.                                *)
THEOREM Mutual == Spec => []EstablishedIsMutual
<1>1. Inv => EstablishedIsMutual
  BY DEF Inv
<1>q. QED
  BY <1>1, Invariance, PTL

(* What passes as a reply belongs to an entry this machine has sent on.     *)
THEOREM NoForgery == Spec => NoForgedReply
<1>1. Inv /\ [Next]_vars => [Judge(TRUE) => "us" \in heard[call["peer"].flow]]_vars
  <2> SUFFICES ASSUME Inv, Judge(TRUE)
               PROVE  "us" \in heard[call["peer"].flow]
    OBVIOUS
  <2>1. call["peer"].flow \in Flow
    BY CallTypes DEF Inv, Judge, Side
  <2>q. QED
    BY <2>1 DEF Judge, OpenedByUs, Inv, EstablishedIsMutual
<1>q. QED
  BY <1>1, Invariance, PTL DEF Spec, NoForgedReply

(* How long a silent flow can still be revived: its timeout and one sweep   *)
(* interval, and on top the time in which the readers handled no packet at  *)
(* all, since only a packet starts a sweep.                                 *)
THEOREM Revival == Spec => RevivalBound
<1>1. ASSUME Inv, NEW s \in Side, Update(s), Known(call[s].flow)
      PROVE  call[s].clock - table[call[s].flow].last
                 <= Timeout[call[s].flow] + SweepEvery
                    + (IF call[s].clock > newest THEN call[s].clock - newest ELSE 0)
  <2> DEFINE f == call[s].flow
             clock == call[s].clock
  <2>1. f \in Flow /\ clock \in Nat
    BY <1>1, CallTypes DEF Inv, Update
  <2>2. table[f].last \in Nat
    BY <1>1, <2>1, EntryFacts DEF Inv, TypeOK, Known
  <2>3. lastSweep - table[f].last <= Timeout[f] /\ newest - lastSweep <= SweepEvery
    BY <1>1, <2>1 DEF Inv, SweepIsThorough, ClockOK
  <2>4. newest \in Nat /\ lastSweep \in Nat /\ Timeout[f] \in Nat /\ SweepEvery \in Nat
    BY <1>1, <2>1, ConnTrackAssumption DEF Inv, TypeOK
  <2> HIDE DEF f, clock
  <2>q. QED
    BY <2>1, <2>2, <2>3, <2>4 DEF f, clock
<1>2. Inv => [RevivedInTime]_vars
  BY <1>1 DEF RevivedInTime
<1>q. QED
  BY <1>2, Invariance, PTL DEF Spec, RevivalBound
-----------------------------------------------------------------------------
(* The table is a FlowTable: update() is its step, everything else leaves   *)
(* the openers alone.                                                       *)
Openers == [f \in Flow |-> OpenerOf(f)]

Direct(s) == IF s = "us" THEN "out" ELSE "in"

(* What update() makes of the openers: those it sweeps away are forgotten.  *)
LEMMA UpdateOpeners ==
    ASSUME TypeOK, NEW s \in Side, Update(s), NEW f \in Flow, f = call[s].flow
    PROVE  LET forgotten == {g \in Flow \ {f} : OpenerOf(g)' # OpenerOf(g)}
           IN  Flows!Packet(Direct(s), f, call[s].closing, forgotten)
<1> DEFINE clock == call[s].clock
           stored == Stored(f, s, clock, call[s].closing)
           tab == [table EXCEPT ![f] = stored]
           forgotten == {g \in Flow \ {f} : OpenerOf(g)' # OpenerOf(g)}
           next == IF OpenerOf(f) = "none" THEN Direct(s)
                   ELSE IF call[s].closing THEN "none" ELSE OpenerOf(f)
<1>1. /\ clock \in Nat /\ call[s].closing \in BOOLEAN
      /\ table \in [Flow -> Entry \cup {Absent}]
  BY CallTypes, EntryFacts DEF Update, TypeOK
<1>2. table' = IF SweepDue(clock) THEN Swept(tab, clock) ELSE tab
  BY DEF Update, Stored
<1>3. ASSUME NEW g \in Flow \ {f}
      PROVE  table'[g] \in {table[g], Absent}
  BY <1>1, <1>2 DEF Swept
<1>4. table'[f] = stored
  <2>1. ~Stale(f, stored, clock)
    <3>1. CASE stored = Absent
      BY <3>1 DEF Stale
    <3>2. CASE stored # Absent
      <4>1. stored.last = clock
        BY <1>1, <3>2, StoredFacts
      <4>2. Timeout[f] \in Nat
        BY <1>1, ConnTrackAssumption
      <4>q. QED
        BY <1>1, <4>1, <4>2 DEF Stale
    <3>q. QED
      BY <3>1, <3>2
  <2>2. tab[f] = stored
    BY <1>1
  <2>q. QED
    BY <1>1, <1>2, <2>1, <2>2 DEF Swept
<1>5. ASSUME NEW g \in forgotten
      PROVE  OpenerOf(g)' = "none"
  BY <1>3, <1>5 DEF OpenerOf, Known
<1>6. OpenerOf(f)' = next
  <2>1. CASE ~Known(f)
    <3>1. stored.opener = s /\ stored # Absent
      BY <1>1, <2>1, NewFacts, EntryFacts DEF Stored
    <3>q. QED
      BY <1>4, <2>1, <3>1 DEF OpenerOf, Known, Direct
  <2>2. CASE Known(f) /\ call[s].closing
    BY <1>4, <2>2 DEF Stored, OpenerOf, Known
  <2>3. CASE Known(f) /\ ~call[s].closing
    <3>1. stored.opener = table[f].opener /\ stored # Absent
      BY <1>1, <2>3, RefreshedFacts, EntryFacts DEF Stored
    <3>q. QED
      BY <1>4, <2>3, <3>1 DEF OpenerOf, Known
  <2>q. QED
    BY <2>1, <2>2, <2>3
<1>7. Openers' = [g \in Flow |-> IF g = f THEN next
                                 ELSE IF g \in forgotten THEN "none" ELSE Openers[g]]
  <2>1. ASSUME NEW g \in Flow
        PROVE  OpenerOf(g)' = IF g = f THEN next
                              ELSE IF g \in forgotten THEN "none" ELSE Openers[g]
    BY <1>5, <1>6 DEF Openers
  <2> HIDE DEF forgotten, next
  <2>q. QED
    BY <2>1 DEF Openers
<1>q. QED
  BY <1>1, <1>7 DEF Flows!Packet, Openers

(* ConnTrack implements FlowTable, for any flows, timeouts and interval     *)
(* (IsFlowTable, update() as the pipeline relies on it).                    *)
THEOREM TableRefinement == Spec => IsFlowTable
<1>1. Init => Flows!Init
  BY DEF Init, Flows!Init, OpenerOf, Known
<1>2. ASSUME Inv, [Next]_vars
      PROVE  [Flows!Next]_Openers
  <2>1. TypeOK
    BY <1>2 DEF Inv
  <2>2. ASSUME NEW s \in Side, Update(s)
        PROVE  Flows!Next
    <3>1. call[s].flow \in Flow /\ call[s].closing \in BOOLEAN
      BY <2>1, <2>2, CallTypes, EntryFacts DEF Update
    <3>2. Direct(s) \in Flows!Direction
      BY DEF Direct, Flows!Direction
    <3>3. {g \in Flow \ {call[s].flow} : OpenerOf(g)' # OpenerOf(g)} \in SUBSET Flow
      OBVIOUS
    <3>q. QED
      BY <2>1, <2>2, <3>1, <3>2, <3>3, UpdateOpeners DEF Flows!Next
  <2>3. CASE UNCHANGED table
    BY <2>3 DEF Openers, OpenerOf, Known
  <2>q. QED
    BY <1>2, <2>2, <2>3 DEF Next, Arrive, Judge, Tick, vars
<1>q. QED
  BY <1>1, <1>2, Invariance, PTL DEF Spec, IsFlowTable, Flows!Spec, Openers
=============================================================================
