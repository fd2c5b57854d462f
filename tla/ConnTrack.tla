------------------------------ MODULE ConnTrack ------------------------------
(***************************************************************************)
(* The connection table of fwcore/conntrack.py as the two packet readers   *)
(* of fwcore/engine.py use it.                                             *)
(*                                                                         *)
(* A flow is one value of _flow_key(): a protocol and the two endpoints in *)
(* sorted order, so both directions name the same flow.  One endpoint is   *)
(* this machine; the reader of the outbound queue sees the packets "us"    *)
(* sends and the reader of the inbound queue those the "peer" sends.  With *)
(* one machine per flow the fields opener (a direction) and opener_src (an *)
(* address) say the same thing, and `opener` stands for both.              *)
(*                                                                         *)
(* update() reads the clock before it takes the lock, and an inbound       *)
(* packet asks is_reply_to_us() in a second critical section, so another   *)
(* reader's packet can come between any two of these.  Fields nothing      *)
(* decides on (created, packets) are left out.                             *)
(***************************************************************************)
EXTENDS Integers

CONSTANTS
    Flow,        \* flow keys
    Tcp,         \* the flows of protocol 6, which FIN and RST close
    Timeout,     \* _timeout_for: seconds a flow of each key is remembered
    SweepEvery,  \* a packet this much later than the last sweep starts one
    MaxDelay,    \* bound: longest wait between the clock and the lock
    LastTick     \* bound: the clock stops here

ASSUME ConnTrackAssumption ==
    /\ Tcp \subseteq Flow
    /\ Timeout \in [Flow -> Nat]
    /\ SweepEvery \in Nat
    /\ MaxDelay \in Nat
    /\ \A f \in Flow : MaxDelay <= Timeout[f]
    /\ LastTick \in Nat

VARIABLES
    now,        \* time.time()
    table,      \* self._flows
    lastSweep,  \* self._last_sweep
    call,       \* call[s]: where the reader of the packets s sends is
    heard,      \* history: who sent on a flow since its entry was made
    newest      \* history: the latest clock an update() used

vars == <<now, table, lastSweep, call, heard, newest>>

Side == {"us", "peer"}

Absent == [state |-> "absent"]
Entry == [state : {"new", "established"}, opener : Side, last : Nat]

Idle == [at |-> "idle"]
Packet == [at : {"update", "judge"}, flow : Flow, closing : BOOLEAN,
           clock : Nat, ours : BOOLEAN, gap : Int]

TypeOK ==
    /\ now \in Nat
    /\ table \in [Flow -> Entry \cup {Absent}]
    /\ lastSweep \in Nat
    /\ call \in [Side -> Packet \cup {Idle}]
    /\ heard \in [Flow -> SUBSET Side]
    /\ newest \in Nat

Init ==
    /\ now = 0
    /\ table = [f \in Flow |-> Absent]
    /\ lastSweep = 0
    /\ call = [s \in Side |-> Idle]
    /\ heard = [f \in Flow |-> {}]
    /\ newest = 0

-----------------------------------------------------------------------------
(* Mutants.                                                                 *)

AnyoneOpened(f) == table[f] # Absent
PromoteAnySecond(f, s) == table[f].state = "new"
LastSpeakerOpens(f, s, clock) ==
    [table[f] EXCEPT !.last = clock, !.opener = s]
SweepDueLate(clock) == clock - lastSweep > SweepEvery + 1

-----------------------------------------------------------------------------
(* Helpers.                                                                 *)

Known(f) == table[f] # Absent

(* The entry a first packet makes, whoever sends it and whatever its flags. *)
NewEntry(f, s, clock) == [state |-> "new", opener |-> s, last |-> clock]

(* Only a packet from the side that did not open the flow promotes it.      *)
Promotes(f, s) == table[f].state = "new" /\ s # table[f].opener

Refreshed(f, s, clock) ==
    [table[f] EXCEPT !.last = clock,
                     !.state = IF Promotes(f, s) THEN "established" ELSE @]

Stale(f, entry, clock) == entry # Absent /\ clock - entry.last > Timeout[f]

(* _sweep() runs on the table the packet has just updated.                  *)
Swept(tab, clock) ==
    [f \in Flow |-> IF Stale(f, tab[f], clock) THEN Absent ELSE tab[f]]

SweepDue(clock) == clock - lastSweep > SweepEvery

(* is_reply_to_us() for a packet of the peer.                               *)
OpenedByUs(f) == Known(f) /\ table[f].opener = "us"

-----------------------------------------------------------------------------
(* A reader hands its next packet to update(), which reads the clock.       *)
Arrive(s, f, closing) ==
    /\ call[s] = Idle
    /\ closing => f \in Tcp
    /\ call' = [call EXCEPT ![s] =
                    [at |-> "update", flow |-> f, closing |-> closing,
                     clock |-> now, ours |-> FALSE, gap |-> 0]]
    /\ UNCHANGED <<now, table, lastSweep, heard, newest>>

(* The critical section of update(): make or refresh the entry, close it on *)
(* FIN or RST (not when the packet has just made it), then sweep if it is   *)
(* time.  `ours` and `gap` remember, for the properties, whether the packet *)
(* met an entry of ours and how long that entry had been silent.            *)
Update(s) ==
    /\ call[s].at = "update"
    /\ LET f == call[s].flow
           clock == call[s].clock
           updated == IF ~Known(f) THEN NewEntry(f, s, clock)
                      ELSE IF call[s].closing THEN Absent
                      ELSE Refreshed(f, s, clock)
           tab == [table EXCEPT ![f] = updated]
       IN  /\ table' = IF SweepDue(clock) THEN Swept(tab, clock) ELSE tab
           /\ lastSweep' = IF SweepDue(clock) THEN clock ELSE lastSweep
           /\ heard' = [heard EXCEPT ![f] = IF Known(f) THEN @ \cup {s} ELSE {s}]
           /\ newest' = IF clock > newest THEN clock ELSE newest
           /\ call' = [call EXCEPT ![s] =
                  IF s = "us" THEN Idle
                  ELSE [call[s] EXCEPT !.at = "judge",
                            !.ours = OpenedByUs(f),
                            !.gap = IF Known(f) THEN clock - table[f].last ELSE 0]]
    /\ UNCHANGED now

(* is_reply_to_us() answers for an inbound packet from the table as it is   *)
(* by now.                                                                  *)
Judge(answer) ==
    /\ call["peer"].at = "judge"
    /\ answer = OpenedByUs(call["peer"].flow)
    /\ call' = [call EXCEPT !["peer"] = Idle]
    /\ UNCHANGED <<now, table, lastSweep, heard, newest>>

(* No reader waits longer than MaxDelay between the clock and the lock.     *)
Tick ==
    /\ now < LastTick
    /\ \A s \in Side : call[s].at = "update" => now < call[s].clock + MaxDelay
    /\ now' = now + 1
    /\ UNCHANGED <<table, lastSweep, call, heard, newest>>

Next ==
    \/ \E s \in Side, f \in Flow, closing \in BOOLEAN : Arrive(s, f, closing)
    \/ \E s \in Side : Update(s)
    \/ \E answer \in BOOLEAN : Judge(answer)
    \/ Tick

Spec == Init /\ [][Next]_vars

-----------------------------------------------------------------------------
(* Properties.                                                              *)

(* No inbound packet passes as a reply unless this machine has sent on the  *)
(* flow since its present entry was made: having sent on it before the      *)
(* entry was closed or forgotten is not enough, however packets, FINs,      *)
(* sweeps and reused flow keys interleave.                                  *)
NoForgedReply ==
    [][Judge(TRUE) => "us" \in heard[call["peer"].flow]]_vars

(* A flow is established only when both sides have spoken since its entry   *)
(* was made: what one side repeats never counts as a conversation.          *)
EstablishedIsMutual ==
    \A f \in Flow :
        Known(f) => /\ table[f].opener \in heard[f]
                    /\ table[f].state = "established" => heard[f] = Side

(* The sweep leaves nothing that was already stale when it ran, although    *)
(* a reader may store a clock it read before the sweep.                     *)
SweepIsThorough ==
    \A f \in Flow : Known(f) => lastSweep - table[f].last <= Timeout[f]

(* How late a packet can revive a flow: its timeout, the sweep interval,    *)
(* and the time since the readers last handled any packet at all.           *)
RevivedInTime ==
    \A s \in Side :
        Update(s) /\ Known(call[s].flow)
            => call[s].clock - table[call[s].flow].last
                   <= Timeout[call[s].flow] + SweepEvery
                      + (IF call[s].clock > newest THEN call[s].clock - newest ELSE 0)

RevivalBound == [][RevivedInTime]_vars

(* The table answers who opened a flow as FlowTable promises, through its   *)
(* clocks, timeouts and sweeps: the first packet opens it and no later one  *)
(* becomes its opener until it was closed or forgotten.                     *)
OpenerOf(f) ==
    IF ~Known(f) THEN "none" ELSE IF table[f].opener = "us" THEN "out" ELSE "in"

Flows == INSTANCE FlowTable WITH opener <- [f \in Flow |-> OpenerOf(f)]

IsFlowTable == Flows!Spec

-----------------------------------------------------------------------------
(* What the documents say and the code does not do.                         *)

(* conntrack.py:15: "entries expire after a timeout": a packet that comes   *)
(* after a longer silence is not a reply of the old conversation.           *)
ExpiredIsForgotten ==
    [][Judge(TRUE) => call["peer"].gap <= Timeout[call["peer"].flow] + SweepEvery]_vars

(* engine.py:130: "replies to connections we started are always allowed":   *)
(* a packet that met an entry of ours is judged a reply.                    *)
OwnRepliesRecognised ==
    [][Judge(FALSE) => ~call["peer"].ours]_vars

(* conntrack.py:61: update() returns "ESTABLISHED if it belongs to one we   *)
(* already know".                                                           *)
KnownMeansEstablished ==
    [][\A s \in Side :
          LET f == call[s].flow
          IN  Update(s) /\ Known(f) /\ ~call[s].closing /\ table'[f] # Absent
                  => table'[f].state = "established"]_vars
=============================================================================
