------------------------------ MODULE Detectors ------------------------------
(***************************************************************************)
(* The detector suite of fwcore/detectors.py: per kind of detector and per  *)
(* source (per source and port for bruteforce) a sliding window of events,  *)
(* a limit, and the time of the last alert, which silences the next ones    *)
(* for the length of the window.                                            *)
(*                                                                         *)
(* Only inbound packets reach a window, so one thread runs the suite.       *)
(* Time is the wall clock in whole units; it does not step back.            *)
(***************************************************************************)
EXTENDS Integers, Sequences, FiniteSets, FiniteSetsExt

CONSTANTS
    Source,
    Port,
    LoginPort,  \* the ports bruteforce looks at
    Kind,       \* the detectors of the suite
    Limit,      \* Limit[k]: ports= or count=
    Window,     \* Window[k]: window=
    Traffic,    \* bound: the packets that may arrive
    MaxTime,    \* bound: the clock
    MaxPackets  \* bound: how many arrive

(* is_syn_only is the kind "syn"; "tcp" is any other TCP packet.            *)
Packet == [src : Source, dport : Port, proto : {"syn", "tcp", "udp", "icmp"}]

ASSUME DetectorsAssumption ==
    /\ LoginPort \subseteq Port
    /\ Kind \subseteq {"portscan", "syn_flood", "udp_flood", "icmp_flood", "bruteforce"}
    /\ Limit \in [Kind -> Nat \ {0}]
    /\ Window \in [Kind -> Nat \ {0}]
    /\ Traffic \subseteq Packet
    /\ MaxTime \in Nat
    /\ MaxPackets \in Nat

Time == 0..MaxTime
Key == [src : Source, port : Port \cup {"any"}]
Event == [t : Time, value : Port]
Alert == [kind : Kind, key : Key, t : Time, n : 1..MaxPackets]
Never == -1

VARIABLES
    now,      \* time.time()
    events,   \* events[k][key]: the deque of _SlidingWindow
    fired,    \* fired[k][key]: self._fired, Never when there is no entry
    seen,     \* history: the packets that arrived, with their times
    alerts    \* history: the alerts returned, at the n-th packet

detectorVars == <<now, events, fired, seen, alerts>>

DetectorTypeOK ==
    /\ now \in Time
    /\ \A k \in Kind, key \in Key : events[k][key] \in Seq(Event)
    /\ fired \in [Kind -> [Key -> Time \cup {Never}]]
    /\ seen \in Seq([t : Time, pkt : Packet])
    /\ alerts \subseteq Alert

DetectorInit ==
    /\ now = 0
    /\ events = [k \in Kind |-> [key \in Key |-> <<>>]]
    /\ fired = [k \in Kind |-> [key \in Key |-> Never]]
    /\ seen = <<>>
    /\ alerts = {}

-----------------------------------------------------------------------------
(* Mutants.                                                                 *)

KeepAll(q, cutoff) == q
DropOnTime(q, cutoff) ==
    LET fresh == {i \in DOMAIN q : q[i].t > cutoff}
    IN SubSeq(q, Min(fresh), Len(q))

-----------------------------------------------------------------------------
(* What a detector looks at, and under which key.                           *)

Watches(k, pkt) ==
    CASE k = "portscan"   -> pkt.proto \in {"syn", "tcp", "udp"}
      [] k = "syn_flood"  -> pkt.proto = "syn"
      [] k = "udp_flood"  -> pkt.proto = "udp"
      [] k = "icmp_flood" -> pkt.proto = "icmp"
      [] k = "bruteforce" -> pkt.proto = "syn" /\ pkt.dport \in LoginPort

KeyOf(k, pkt) ==
    [src |-> pkt.src, port |-> IF k = "bruteforce" THEN pkt.dport ELSE "any"]

NewEvent(pkt) == [t |-> now, value |-> pkt.dport]

(* _SlidingWindow.add() drops old events from the left.                     *)
Dropped(q, cutoff) ==
    LET fresh == {i \in DOMAIN q : q[i].t >= cutoff}
    IN SubSeq(q, Min(fresh), Len(q))

Added(k, pkt) ==
    Dropped(Append(events[k][KeyOf(k, pkt)], NewEvent(pkt)), now - Window[k])

(* portscan counts different ports, the others count events.                *)
Measure(k, q) ==
    IF k = "portscan" THEN Cardinality({q[i].value : i \in DOMAIN q}) ELSE Len(q)

(* One alert per key and window.                                            *)
Silenced(k, key) == fired[k][key] # Never /\ now - fired[k][key] < Window[k]

Fires(k, pkt) ==
    /\ Watches(k, pkt)
    /\ Measure(k, Added(k, pkt)) >= Limit[k]
    /\ ~ Silenced(k, KeyOf(k, pkt))

-----------------------------------------------------------------------------
(* DetectorSuite.inspect(): every detector sees the packet.                 *)
Inspect(pkt) ==
    /\ Len(seen) < MaxPackets
    /\ seen' = Append(seen, [t |-> now, pkt |-> pkt])
    /\ events' = [k \in Kind |->
                    IF Watches(k, pkt)
                    THEN [events[k] EXCEPT ![KeyOf(k, pkt)] = Added(k, pkt)]
                    ELSE events[k]]
    /\ fired' = [k \in Kind |->
                    IF Fires(k, pkt)
                    THEN [fired[k] EXCEPT ![KeyOf(k, pkt)] = now]
                    ELSE fired[k]]
    /\ alerts' = alerts \cup
                    {[kind |-> k, key |-> KeyOf(k, pkt), t |-> now, n |-> Len(seen) + 1] :
                       k \in {d \in Kind : Fires(d, pkt)}}
    /\ UNCHANGED now

(* Every detector returns at once on an outbound packet.                    *)
Outbound == UNCHANGED detectorVars

Tick ==
    /\ now < MaxTime
    /\ now' = now + 1
    /\ UNCHANGED <<events, fired, seen, alerts>>

DetectorNext == Tick \/ Outbound \/ \E pkt \in Traffic : Inspect(pkt)

DetectorSpec == DetectorInit /\ [][DetectorNext]_detectorVars

-----------------------------------------------------------------------------
(* Properties, against the whole history of packets.                        *)

(* The packets a detector counts for a key in the window that ends at the   *)
(* n-th packet.                                                             *)
Burst(k, key, n) ==
    {i \in 1..n : /\ Watches(k, seen[i].pkt)
                  /\ KeyOf(k, seen[i].pkt) = key
                  /\ seen[i].t >= seen[n].t - Window[k]}

Reached(k, key, n) ==
    LET burst == Burst(k, key, n)
    IN Limit[k] <= IF k = "portscan"
                   THEN Cardinality({seen[i].pkt.dport : i \in burst})
                   ELSE Cardinality(burst)

(* No burst goes by unnoticed: when a packet reaches the limit, an alert    *)
(* for its key was raised then or less than a window before.                *)
BurstIsAlerted ==
    \A n \in DOMAIN seen, k \in Kind :
        LET key == KeyOf(k, seen[n].pkt)
        IN (Watches(k, seen[n].pkt) /\ Reached(k, key, n))
             => \E a \in alerts : /\ a.kind = k /\ a.key = key
                                  /\ a.t <= seen[n].t
                                  /\ seen[n].t - a.t < Window[k]

(* No alert without its burst: the packets of one key within one window,    *)
(* whatever was kept from earlier windows or from other sources.            *)
AlertIsJustified ==
    \A a \in alerts : Reached(a.kind, a.key, a.n)

-----------------------------------------------------------------------------
(* Claims of the documents the code does not keep.                          *)

(* detectors.py:80, "Fires when one source hits more than `ports` distinct  *)
(* dports in `window`".                                                     *)
ScanNeedsMoreThanLimit ==
    \A a \in alerts : a.kind = "portscan" =>
        Cardinality({seen[i].pkt.dport : i \in Burst("portscan", a.key, a.n)})
            > Limit["portscan"]

(* detectors.py:47, "Remembers events within the last `window` seconds":    *)
(* a source that falls silent is remembered for as long as the engine runs. *)
RemembersOnlyTheWindow ==
    \A k \in Kind, key \in Key : \A i \in DOMAIN events[k][key] :
        events[k][key][i].t >= now - Window[k]
===============================================================================
