-------------------------------- MODULE Engine --------------------------------
(***************************************************************************)
(* The decision pipeline of fwcore/engine.py: two queue readers take       *)
(* packets through _handle() and _decide() while the dashboard changes     *)
(* mode, rules, blocks and settings, and the kernel applies its own drop   *)
(* rule in front of the queues (fwcore/netfilter.py).                      *)
(*                                                                         *)
(* A packet is in one reader from the moment the kernel queues it; a step  *)
(* ends wherever the code releases a lock or reads a field another thread  *)
(* may write (mode, cfg).  The connection table and the blocklist take     *)
(* part through what they promise, FlowTable and BlockSet, which ConnTrack *)
(* and Blocklist are shown to implement.  The rule list, the detectors and *)
(* the anomaly model may give any of their answers for any packet.         *)
(***************************************************************************)
EXTENDS Naturals

CONSTANTS
    Peer,         \* remote addresses
    Self,         \* this machine's own address
    Safe,         \* what is_safe() refuses
    MayStick,     \* addresses whose kernel entry `ipset del` may leave
    Flow,         \* flow keys
    PeerOf,       \* the remote address of each flow
    RuleAction,   \* answers of the rule list or, without a match, of the policy
    MaxAlerts,    \* bound: alerts one packet raises in the detectors
    ReaderDies    \* whether a reader's socket may fail with an OSError

Address == Peer \cup {Self}
Mode == {"monitor", "enforce"}
Reader == {"in", "out"}

ASSUME EngineAssumption ==
    /\ Self \notin Peer
    /\ Safe \subseteq Address
    /\ MayStick \subseteq Address
    /\ PeerOf \in [Flow -> Peer]
    /\ RuleAction \subseteq {"allow", "deny", "reject"}
    /\ MaxAlerts \in Nat
    /\ ReaderDies \in BOOLEAN

VARIABLES
    mode,       \* self.mode
    autoBlock,  \* self.cfg["ai"]["auto_block"]
    opener,     \* see FlowTable
    sent,       \* history: the flows this machine has ever sent on
    active,     \* see BlockSet
    kernel,     \* see BlockSet
    call,       \* call[r]: the packet reader r is deciding
    verdict,    \* verdict[r]: what the kernel was told about that packet
    alive       \* the readers whose loop still runs

vars == <<mode, autoBlock, opener, sent, active, kernel, call, verdict, alive>>

Table == INSTANCE FlowTable
Blocks == INSTANCE BlockSet WITH Ip <- Address

(* `action` and `why` are the local variables of _decide; `met` (the modes  *)
(* in force since the packet was queued), `listed` (its source has been     *)
(* recorded all along) and `alerts` are histories the properties use.       *)
Idle == [at |-> "idle"]
Place == {"queued", "stateful", "listed?", "rules", "detect", "block",
          "ai", "aiMode", "aiBlock", "verdict", "drop", "accept", "record"}
Packet ==
    [at : Place, flow : Flow, loopback : BOOLEAN,
     action : {"allow", "deny", "reject"},
     why : {"", "loopback", "reply", "listed", "rule", "alert", "ai", "error"},
     met : SUBSET Mode, listed : BOOLEAN, alerts : 0..MaxAlerts]

TypeOK ==
    /\ mode \in Mode
    /\ autoBlock \in BOOLEAN
    /\ opener \in [Flow -> {"none", "in", "out"}]
    /\ sent \subseteq Flow
    /\ active \subseteq Address
    /\ kernel \subseteq Address
    /\ call \in [Reader -> Packet \cup {Idle}]
    /\ verdict \in [Reader -> {"none", "accept", "drop"}]
    /\ alive \subseteq Reader

Init ==
    /\ mode \in Mode
    /\ autoBlock \in BOOLEAN
    /\ Table!Init
    /\ sent = {}
    /\ Blocks!Init
    /\ call = [r \in Reader |-> Idle]
    /\ verdict = [r \in Reader |-> "none"]
    /\ alive = Reader

-----------------------------------------------------------------------------
(* Mutants.                                                                 *)

NeverBlocked(r) == FALSE
AlertIgnored(packet, why) == packet
AlwaysEnforcing == TRUE
AnyKnownFlow(r) == opener[call[r].flow] # "none"

-----------------------------------------------------------------------------
(* Helpers.                                                                 *)

At(r, place) == r \in alive /\ call[r].at = place

Source(r) == IF r = "in" THEN PeerOf[call[r].flow] ELSE Self

Continue(r, packet) == call' = [call EXCEPT ![r] = packet]

Goto(r, place) == Continue(r, [call[r] EXCEPT !.at = place])

(* _decide() returns: the verdict is to be given.                           *)
Return(r, action, why) ==
    Continue(r, [call[r] EXCEPT !.at = "verdict", !.action = action, !.why = why])

IsReply(r) == opener[call[r].flow] = "out"

IsBlocked(r) == Source(r) \in active

(* self.mode == "enforce" at one reading.                                   *)
Enforcing == mode = "enforce"

(* An alert turns an allow into a deny and leaves any other action alone.   *)
Denied(packet, why) ==
    IF packet.action = "allow"
    THEN [packet EXCEPT !.action = "deny", !.why = why]
    ELSE packet

(* _handle() drops on the verdict "drop" only; a "reject" is accepted.      *)
Drops(packet) == packet.action = "deny"

(* The kernel is told once; it keeps the first verdict.                     *)
Tell(r, fate) == verdict' = [verdict EXCEPT ![r] = fate]

-----------------------------------------------------------------------------
(* The kernel drops the packet of a blocked peer without asking, which      *)
(* changes nothing here, and queues any other.                              *)
Queue(r, f, loopback) ==
    /\ call[r] = Idle
    /\ r \in alive
    /\ loopback \/ PeerOf[f] \notin kernel
    /\ Continue(r, [at |-> "queued", flow |-> f, loopback |-> loopback,
                    action |-> "allow", why |-> "", met |-> {mode},
                    listed |-> r = "in" /\ ~loopback /\ PeerOf[f] \in active,
                    alerts |-> 0])
    /\ UNCHANGED <<mode, autoBlock, opener, sent, active, kernel, verdict, alive>>

-----------------------------------------------------------------------------
(* _decide(), step by step.                                                 *)

Loopback(r) ==
    /\ At(r, "queued")
    /\ call[r].loopback
    /\ Return(r, "allow", "loopback")
    /\ UNCHANGED <<opener, sent, active, kernel>>

(* conntrack.update(), before anything is decided about the packet.         *)
Track(r, closing, forgotten) ==
    /\ At(r, "queued")
    /\ ~call[r].loopback
    /\ Table!Packet(r, call[r].flow, closing, forgotten)
    /\ sent' = IF r = "out" THEN sent \cup {call[r].flow} ELSE sent
    /\ Goto(r, IF r = "in" THEN "stateful" ELSE "rules")
    /\ UNCHANGED <<active, kernel>>

Stateful(r) ==
    /\ At(r, "stateful")
    /\ IF IsReply(r) THEN Return(r, "allow", "reply") ELSE Goto(r, "listed?")
    /\ UNCHANGED <<opener, sent, active, kernel>>

CheckBlocklist(r) ==
    /\ At(r, "listed?")
    /\ IF IsBlocked(r) THEN Return(r, "deny", "listed") ELSE Goto(r, "rules")
    /\ UNCHANGED <<opener, sent, active, kernel>>

EvaluateRules(r, action) ==
    /\ At(r, "rules")
    /\ Continue(r, [call[r] EXCEPT !.action = action, !.why = "rule",
                        !.at = IF r = "in" THEN "detect" ELSE "ai"])
    /\ UNCHANGED <<opener, sent, active, kernel>>

(* One round of the loop over the alerts; only inbound packets raise any.   *)
DetectorAlert(r, timed) ==
    /\ At(r, "detect")
    /\ call[r].alerts < MaxAlerts
    /\ LET seen == [call[r] EXCEPT !.alerts = @ + 1]
       IN  Continue(r, IF timed /\ Enforcing THEN [seen EXCEPT !.at = "block"]
                       ELSE Denied(seen, "alert"))
    /\ UNCHANGED <<opener, sent, active, kernel>>

(* blocklist.block() for the source; where it returns False nothing is new. *)
DetectorBlock(r) ==
    /\ At(r, "block")
    /\ Blocks!Block(Source(r)) \/ UNCHANGED <<active, kernel>>
    /\ Continue(r, Denied([call[r] EXCEPT !.at = "detect"], "alert"))
    /\ UNCHANGED <<opener, sent>>

DetectorsDone(r) ==
    /\ At(r, "detect")
    /\ Goto(r, "ai")
    /\ UNCHANGED <<opener, sent, active, kernel>>

(* Disabled, learning, not ready or normal, or without auto-block: the      *)
(* decision stands.                                                         *)
AnomalyScore(r, flagged) ==
    /\ At(r, "ai")
    /\ Goto(r, IF flagged /\ autoBlock THEN "aiMode" ELSE "verdict")
    /\ UNCHANGED <<opener, sent, active, kernel>>

(* Flagged with auto-block on: in enforce mode the source is to be blocked. *)
AnomalyMode(r) ==
    /\ At(r, "aiMode")
    /\ Goto(r, IF Enforcing THEN "aiBlock" ELSE "verdict")
    /\ UNCHANGED <<opener, sent, active, kernel>>

AnomalyBlock(r) ==
    /\ At(r, "aiBlock")
    /\ \/ /\ Blocks!Block(Source(r))
          /\ Continue(r, Denied([call[r] EXCEPT !.at = "verdict"], "ai"))
       \/ /\ Goto(r, "verdict")
          /\ UNCHANGED <<active, kernel>>
    /\ UNCHANGED <<opener, sent>>

(* Back in _handle(): a packet to be dropped is stopped if the mode, read   *)
(* once more, is enforce.                                                   *)
ReadMode(r) ==
    /\ At(r, "verdict")
    /\ Goto(r, IF Drops(call[r]) /\ Enforcing THEN "drop" ELSE "accept")
    /\ UNCHANGED <<opener, sent, active, kernel>>

Decide(r) ==
    /\ \/ Loopback(r)
       \/ \E closing \in BOOLEAN, forgotten \in SUBSET Flow : Track(r, closing, forgotten)
       \/ Stateful(r)
       \/ CheckBlocklist(r)
       \/ \E action \in RuleAction : EvaluateRules(r, action)
       \/ \E timed \in BOOLEAN : DetectorAlert(r, timed)
       \/ DetectorBlock(r)
       \/ DetectorsDone(r)
       \/ \E flagged \in BOOLEAN : AnomalyScore(r, flagged)
       \/ AnomalyMode(r)
       \/ AnomalyBlock(r)
       \/ ReadMode(r)
    /\ UNCHANGED <<mode, autoBlock, verdict, alive>>

-----------------------------------------------------------------------------
(* The rest of _handle().                                                   *)

(* nfpacket.drop() or accept(), whatever the mode is by now.                *)
GiveVerdict(r) ==
    /\ At(r, "drop") \/ At(r, "accept")
    /\ Tell(r, call[r].at)
    /\ Goto(r, "record")
    /\ UNCHANGED <<mode, autoBlock, opener, sent, active, kernel, alive>>

(* The ipset command cannot be started, or features() meets a memory of the *)
(* source that the other reader is changing: the exception ends _decide()   *)
(* and the packet is accepted without being recorded.                       *)
Raise(r) ==
    /\ At(r, "block") \/ At(r, "ai") \/ At(r, "aiBlock")
    /\ Tell(r, "accept")
    /\ Continue(r, [call[r] EXCEPT !.at = "record", !.why = "error"])
    /\ UNCHANGED <<mode, autoBlock, opener, sent, active, kernel, alive>>

(* Statistics and history, then the reader is ready for the next packet.    *)
Record(r) ==
    /\ At(r, "record")
    /\ Continue(r, Idle)
    /\ verdict' = [verdict EXCEPT ![r] = "none"]
    /\ UNCHANGED <<mode, autoBlock, opener, sent, active, kernel, alive>>

(* An OSError from the socket ends _queue_loop; the queue stays bound.      *)
ReaderStops(r) ==
    /\ ReaderDies
    /\ r \in alive
    /\ call[r] = Idle \/ At(r, "queued")
    /\ alive' = alive \ {r}
    /\ UNCHANGED <<mode, autoBlock, opener, sent, active, kernel, call, verdict>>

-----------------------------------------------------------------------------
(* The dashboard, the sweeper and the kernel's timers.                      *)

SetMode(m) ==
    /\ mode' = m
    /\ call' = [r \in Reader |-> IF call[r] = Idle THEN Idle
                                 ELSE [call[r] EXCEPT !.met = @ \cup {m}]]
    /\ UNCHANGED <<autoBlock, opener, sent, active, kernel, verdict, alive>>

SetAutoBlock(on) ==
    /\ autoBlock' = on
    /\ UNCHANGED <<mode, opener, sent, active, kernel, call, verdict, alive>>

ManualBlock(ip) ==
    /\ Blocks!Block(ip)
    /\ UNCHANGED <<mode, autoBlock, opener, sent, call, verdict, alive>>

(* unblock(), asked for by hand or by the sweeper.                          *)
Lift(ip) ==
    /\ Blocks!Lift(ip)
    /\ call' = [r \in Reader |->
                   IF call[r] # Idle /\ PeerOf[call[r].flow] = ip
                   THEN [call[r] EXCEPT !.listed = FALSE] ELSE call[r]]
    /\ UNCHANGED <<mode, autoBlock, opener, sent, verdict, alive>>

KernelLapse(gone) ==
    /\ Blocks!Lapse(gone)
    /\ UNCHANGED <<mode, autoBlock, opener, sent, call, verdict, alive>>

-----------------------------------------------------------------------------
Work(r) == Decide(r) \/ GiveVerdict(r) \/ Raise(r) \/ Record(r)

Next ==
    \/ \E r \in Reader, f \in Flow, loopback \in BOOLEAN : Queue(r, f, loopback)
    \/ \E r \in Reader : Work(r) \/ ReaderStops(r)
    \/ \E m \in Mode : SetMode(m)
    \/ \E on \in BOOLEAN : SetAutoBlock(on)
    \/ \E ip \in Address : ManualBlock(ip) \/ Lift(ip)
    \/ \E gone \in SUBSET Address : KernelLapse(gone)

Spec == Init /\ [][Next]_vars

(* A reader that lives goes on with the packet it holds.                    *)
FairSpec == Spec /\ \A r \in Reader : WF_vars(Work(r))

-----------------------------------------------------------------------------
(* Properties.                                                              *)

(* In enforce mode a packet whose source was recorded as blocked from the   *)
(* moment it was queued is accepted only as a reply, as loopback, or after  *)
(* an error, whatever is unblocked, lapses or changes around it.            *)
BlockedSourceStopped ==
    \A r \in Reader :
        verdict[r] = "accept" /\ call[r].listed /\ call[r].met = {"enforce"}
            => call[r].why \in {"loopback", "reply", "error"}

(* In enforce mode a packet that raised an alert of a detector is stopped,  *)
(* even where its source could not be blocked, unless a rule rejected it or *)
(* the block failed with an exception.  (A packet the anomaly model flags   *)
(* is stopped only where its source could be blocked.)                      *)
AlertStopsPacket ==
    \A r \in Reader :
        verdict[r] = "accept" /\ call[r].met = {"enforce"} /\ call[r].alerts > 0
            => call[r].why = "error" \/ call[r].action = "reject"

(* A packet passes as a reply only on a flow this machine has sent on,      *)
(* although a connection is recorded before its packet is decided, flows    *)
(* are closed and forgotten between the recording and the question, and     *)
(* both readers work on one table.                                          *)
RepliesAnswerUs ==
    \A r \in Reader : call[r] # Idle /\ call[r].why = "reply" => call[r].flow \in sent

(* A packet that met no mode but monitor gets nobody blocked by the         *)
(* detectors or the model, however the mode is switched around it.          *)
MonitorBlocksNobody ==
    [][\A r \in Reader :
          (DetectorBlock(r) \/ AnomalyBlock(r)) /\ active' # active
              => "enforce" \in call[r].met]_vars

(* The engine is an inline filter: see Inline.                              *)
FateOf == [none |-> "waiting", accept |-> "passed", drop |-> "stopped"]
HeldBy(r) ==
    IF call[r] = Idle THEN "none"
    ELSE IF call[r].at = "drop" THEN "condemned"
    ELSE FateOf[verdict[r]]

Filter == INSTANCE Inline WITH held <- [r \in Reader |-> HeldBy(r)], serving <- alive

IsInlineFilter == Filter!Spec

-----------------------------------------------------------------------------
(* What the documents say and the code does not do.                         *)

(* engine.py:27: in enforce mode "deny/reject rules and blocks actually     *)
(* stop packets".                                                           *)
RejectStopsPacket ==
    \A r \in Reader :
        call[r] # Idle /\ call[r].met = {"enforce"} /\ call[r].action = "reject"
            => verdict[r] # "accept"

(* HOW_IT_WORKS.md:329: in monitor mode "nothing is ever dropped": the      *)
(* kernel drops whatever is in its set, so the set is empty then.           *)
MonitorDropsNothing == mode = "monitor" => kernel = {}

(* engine.py:99: "In monitor mode we never actually drop": no packet is     *)
(* dropped while the mode is monitor.                                       *)
DropsInEnforceOnly ==
    [][\A r \in Reader : verdict'[r] = "drop" /\ verdict[r] = "none"
          => mode = "enforce"]_vars

(* blocklist.py:11: "we will never block loopback, your own machine, ...".  *)
OwnMachineSafe == Self \notin active
===============================================================================
