----------------------------- MODULE EngineProofs -----------------------------
(* Proofs about Engine, for any peers, flows, rules and number of alerts.   *)
EXTENDS Engine, TLAPS

(* What holds of the packet c reader r is deciding, given the mode m, the   *)
(* recorded addresses a and the verdict v so far.                           *)

(* The mode in force is one it has met; it goes to a block, or to be        *)
(* dropped, only if it met enforce mode.                                    *)
MetOK(c, m) ==
    /\ m \in c.met
    /\ c.at \in {"block", "aiBlock", "drop"} => "enforce" \in c.met

(* The kernel has its verdict once the packet is at "record", not before.   *)
VerdictOK(c, v) == v # "none" <=> c.at = "record"

(* An alert denies the packet, as soon as its block has been tried; none is *)
(* raised before the rules have been evaluated.                             *)
AlertOK(c) ==
    c.alerts # 0 =>
        /\ c.at \notin {"queued", "stateful", "listed?", "rules"}
        /\ c.at = "block" \/ c.action # "allow" \/ c.why = "error"

(* A denied packet is not accepted, or about to be, in enforce mode.        *)
DenyOK(c, v) ==
    (v = "accept" \/ c.at = "accept") /\ "monitor" \notin c.met => c.action # "deny" \/ c.why = "error"

(* A packet whose source is recorded never gets past the blocklist check,   *)
(* where it is denied unless it is a reply.                                 *)
Settled == {"verdict", "drop", "accept", "record"}
ListedOK(r, c, a) ==
    c.listed =>
        /\ r = "in" /\ ~c.loopback /\ PeerOf[c.flow] \in a
        /\ \/ c.at \in {"queued", "stateful", "listed?"}
           \/ c.at \in Settled /\ c.why = "reply"
           \/ c.at \in Settled /\ c.why = "listed" /\ c.action = "deny"

PacketOK(r, c, m, a, v) ==
    /\ MetOK(c, m)
    /\ VerdictOK(c, v)
    /\ AlertOK(c)
    /\ DenyOK(c, v)
    /\ ListedOK(r, c, a)

ReaderOK(r, c, m, a, v) ==
    IF c = Idle THEN v = "none" ELSE PacketOK(r, c, m, a, v)

Inv ==
    /\ TypeOK
    /\ \A r \in Reader : ReaderOK(r, call[r], mode, active, verdict[r])

-----------------------------------------------------------------------------
LEMMA PacketFacts ==
    /\ \A c \in Packet :
          /\ c # Idle /\ c.at \in Place /\ c.flow \in Flow /\ c.loopback \in BOOLEAN
          /\ c.action \in {"allow", "deny", "reject"} /\ c.met \in SUBSET Mode
          /\ c.listed \in BOOLEAN /\ c.alerts \in 0..MaxAlerts
          /\ c.why \in {"", "loopback", "reply", "listed", "rule", "alert", "ai", "error"}
    /\ Idle.at = "idle"
    /\ "idle" \notin Place
<1>1. Idle.at = "idle" /\ "idle" \notin Place
  BY DEF Idle, Place
<1>2. ASSUME NEW c \in Packet PROVE c.at \in Place
  BY DEF Packet
<1>3. ASSUME NEW c \in Packet PROVE c # Idle
  BY <1>1, <1>2
<1>4. ASSUME NEW c \in Packet
      PROVE  /\ c.flow \in Flow /\ c.loopback \in BOOLEAN
             /\ c.action \in {"allow", "deny", "reject"} /\ c.met \in SUBSET Mode
             /\ c.listed \in BOOLEAN /\ c.alerts \in 0..MaxAlerts
             /\ c.why \in {"", "loopback", "reply", "listed", "rule", "alert", "ai", "error"}
  BY DEF Packet
<1>q. QED
  BY <1>1, <1>2, <1>3, <1>4

(* A reader at a place of the pipeline holds a packet.                      *)
LEMMA CallTypes ==
    ASSUME TypeOK, NEW r \in Reader, NEW p \in Place, call[r].at = p
    PROVE  call[r] \in Packet
<1>1. call[r] \in Packet \cup {Idle}
  BY DEF TypeOK
<1>q. QED
  BY <1>1, PacketFacts

LEMMA MoveFacts ==
    ASSUME NEW c \in Packet, NEW p \in Place
    PROVE  LET n == [c EXCEPT !.at = p]
           IN  /\ n \in Packet /\ n.at = p /\ n.flow = c.flow /\ n.loopback = c.loopback
               /\ n.action = c.action /\ n.why = c.why /\ n.met = c.met
               /\ n.listed = c.listed /\ n.alerts = c.alerts
  BY DEF Packet

LEMMA ReturnFacts ==
    ASSUME NEW c \in Packet, NEW p \in Place, NEW x \in {"allow", "deny", "reject"},
           NEW w \in {"", "loopback", "reply", "listed", "rule", "alert", "ai", "error"}
    PROVE  LET n == [c EXCEPT !.at = p, !.action = x, !.why = w]
           IN  /\ n \in Packet /\ n.at = p /\ n.flow = c.flow /\ n.loopback = c.loopback
               /\ n.action = x /\ n.why = w /\ n.met = c.met
               /\ n.listed = c.listed /\ n.alerts = c.alerts
  BY DEF Packet

LEMMA RuleFacts ==
    ASSUME NEW c \in Packet, NEW p \in Place, NEW x \in {"allow", "deny", "reject"}
    PROVE  LET n == [c EXCEPT !.action = x, !.why = "rule", !.at = p]
           IN  /\ n \in Packet /\ n.at = p /\ n.flow = c.flow /\ n.loopback = c.loopback
               /\ n.action = x /\ n.why = "rule" /\ n.met = c.met
               /\ n.listed = c.listed /\ n.alerts = c.alerts
  BY DEF Packet

LEMMA SeenFacts ==
    ASSUME NEW c \in Packet, c.alerts < MaxAlerts
    PROVE  LET n == [c EXCEPT !.alerts = @ + 1]
           IN  /\ n \in Packet /\ n.at = c.at /\ n.flow = c.flow /\ n.loopback = c.loopback
               /\ n.action = c.action /\ n.why = c.why /\ n.met = c.met
               /\ n.listed = c.listed /\ n.alerts = c.alerts + 1
<1>1. c.alerts + 1 \in 0..MaxAlerts
  <2>1. c.alerts \in 0..MaxAlerts
    BY PacketFacts
  <2>2. MaxAlerts \in Nat
    BY EngineAssumption
  <2>q. QED
    BY <2>1, <2>2
<1>q. QED
  BY <1>1 DEF Packet

LEMMA DeniedFacts ==
    ASSUME NEW c \in Packet, NEW w \in {"alert", "ai"}
    PROVE  LET n == Denied(c, w)
           IN  /\ n \in Packet /\ n.at = c.at /\ n.flow = c.flow /\ n.loopback = c.loopback
               /\ n.action # "allow" /\ n.met = c.met
               /\ c.action # "allow" => n.action = c.action /\ n.why = c.why
               /\ n.listed = c.listed /\ n.alerts = c.alerts
  BY DEF Packet, Denied

LEMMA MetFacts ==
    ASSUME NEW c \in Packet, NEW m \in Mode
    PROVE  LET n == [c EXCEPT !.met = @ \cup {m}]
           IN  /\ n \in Packet /\ n.at = c.at /\ n.flow = c.flow /\ n.loopback = c.loopback
               /\ n.action = c.action /\ n.why = c.why /\ n.met = c.met \cup {m}
               /\ n.listed = c.listed /\ n.alerts = c.alerts
  BY DEF Packet

LEMMA UnlistedFacts ==
    ASSUME NEW c \in Packet
    PROVE  LET n == [c EXCEPT !.listed = FALSE]
           IN  /\ n \in Packet /\ n.at = c.at /\ n.flow = c.flow /\ n.loopback = c.loopback
               /\ n.action = c.action /\ n.why = c.why /\ n.met = c.met
               /\ ~n.listed /\ n.alerts = c.alerts
  BY DEF Packet

-----------------------------------------------------------------------------
(* One step of _decide() for reader r, whose packet it takes from c to n.   *)
Acted(r, n) ==
    /\ n \in Packet
    /\ call' = [call EXCEPT ![r] = n]
    /\ PacketOK(r, n, mode, active', verdict[r])
    /\ active \subseteq active' /\ active' \subseteq Address
    /\ kernel' \subseteq Address
    /\ opener' \in [Flow -> {"none", "in", "out"}]
    /\ sent \subseteq sent' /\ sent' \subseteq Flow
    /\ \A f \in Flow : opener'[f] = "out" => opener[f] = "out" \/ f \in sent'
    /\ n.flow = call[r].flow
    /\ n.at = "drop" => mode = "enforce"
    /\ n.why = "reply" => call[r].why = "reply" \/ IsReply(r)

(* What is known of the packet before a step.                               *)
LEMMA Before ==
    ASSUME Inv, NEW r \in Reader, NEW p \in Place, At(r, p)
    PROVE  /\ call[r] \in Packet /\ call[r].at = p
           /\ PacketOK(r, call[r], mode, active, verdict[r])
<1>1. call[r] \in Packet /\ call[r].at = p
  BY CallTypes DEF Inv, At
<1>2. call[r] # Idle
  BY <1>1, PacketFacts
<1>q. QED
  BY <1>1, <1>2 DEF Inv, ReaderOK

LEMMA LoopbackOK ==
    ASSUME Inv, NEW r \in Reader, Loopback(r)
    PROVE  \E n : Acted(r, n)
<1> DEFINE n == [call[r] EXCEPT !.at = "verdict", !.action = "allow", !.why = "loopback"]
<1>1. call[r] \in Packet /\ call[r].at = "queued" /\ PacketOK(r, call[r], mode, active, verdict[r])
  BY Before DEF Loopback, Place
<1>2. call' = [call EXCEPT ![r] = n] /\ call[r].loopback /\ UNCHANGED <<opener, sent, active, kernel>>
  BY <1>1 DEF Loopback, Return, Continue
<1>3. /\ n \in Packet /\ n.flow = call[r].flow /\ n.loopback = call[r].loopback
      /\ n.met = call[r].met /\ n.listed = call[r].listed
      /\ n.alerts = call[r].alerts /\ n.at = "verdict" /\ n.action = "allow" /\ n.why = "loopback"
  BY <1>1 DEF Packet, Place
<1> HIDE DEF n
<1>4. PacketOK(r, n, mode, active', verdict[r])
  BY <1>1, <1>2, <1>3
     DEF PacketOK, MetOK, VerdictOK, AlertOK, DenyOK, ListedOK, Settled
<1>q. QED
  BY <1>2, <1>3, <1>4 DEF Acted, Inv, TypeOK

LEMMA StatefulOK ==
    ASSUME Inv, NEW r \in Reader, Stateful(r)
    PROVE  \E n : Acted(r, n)
<1> DEFINE n == IF IsReply(r)
                THEN [call[r] EXCEPT !.at = "verdict", !.action = "allow", !.why = "reply"]
                ELSE [call[r] EXCEPT !.at = "listed?"]
<1>1. call[r] \in Packet /\ call[r].at = "stateful" /\ PacketOK(r, call[r], mode, active, verdict[r])
  BY Before DEF Stateful, Place
<1>2. call' = [call EXCEPT ![r] = n] /\ UNCHANGED <<opener, sent, active, kernel>>
  BY <1>1 DEF Stateful, Return, Goto, Continue
<1>3. /\ n \in Packet /\ n.flow = call[r].flow /\ n.loopback = call[r].loopback
      /\ n.met = call[r].met /\ n.listed = call[r].listed /\ n.alerts = call[r].alerts
      /\ \/ n.at = "verdict" /\ n.action = "allow" /\ n.why = "reply" /\ IsReply(r)
         \/ n.at = "listed?" /\ n.why = call[r].why
  BY <1>1 DEF Packet, Place
<1> HIDE DEF n
<1>4. PacketOK(r, n, mode, active', verdict[r])
  BY <1>1, <1>2, <1>3
     DEF PacketOK, MetOK, VerdictOK, AlertOK, DenyOK, ListedOK, Settled
<1>q. QED
  BY <1>2, <1>3, <1>4 DEF Acted, Inv, TypeOK

LEMMA CheckBlocklistOK ==
    ASSUME Inv, NEW r \in Reader, CheckBlocklist(r)
    PROVE  \E n : Acted(r, n)
<1> DEFINE n == IF IsBlocked(r)
                THEN [call[r] EXCEPT !.at = "verdict", !.action = "deny", !.why = "listed"]
                ELSE [call[r] EXCEPT !.at = "rules"]
<1>1. call[r] \in Packet /\ call[r].at = "listed?" /\ PacketOK(r, call[r], mode, active, verdict[r])
  BY Before DEF CheckBlocklist, Place
<1>2. call' = [call EXCEPT ![r] = n] /\ UNCHANGED <<opener, sent, active, kernel>>
  BY <1>1 DEF CheckBlocklist, Return, Goto, Continue
<1>3. /\ n \in Packet /\ n.flow = call[r].flow /\ n.loopback = call[r].loopback
      /\ n.met = call[r].met /\ n.listed = call[r].listed /\ n.alerts = call[r].alerts
      /\ \/ n.at = "verdict" /\ n.action = "deny" /\ n.why = "listed"
         \/ n.at = "rules" /\ n.why = call[r].why /\ ~IsBlocked(r)
  BY <1>1 DEF Packet, Place
<1>4. call[r].listed => IsBlocked(r)
  BY <1>1 DEF PacketOK, ListedOK, IsBlocked, Source
<1> HIDE DEF n
<1>5. PacketOK(r, n, mode, active', verdict[r])
  BY <1>1, <1>2, <1>3, <1>4
     DEF PacketOK, MetOK, VerdictOK, AlertOK, DenyOK, ListedOK, Settled
<1>q. QED
  BY <1>2, <1>3, <1>5 DEF Acted, Inv, TypeOK

LEMMA TrackOK ==
    ASSUME Inv, NEW r \in Reader, NEW closing \in BOOLEAN, NEW forgotten \in SUBSET Flow,
           Track(r, closing, forgotten)
    PROVE  \E n : Acted(r, n)
<1> DEFINE n == [call[r] EXCEPT !.at = IF r = "in" THEN "stateful" ELSE "rules"]
<1>1. call[r] \in Packet /\ call[r].at = "queued" /\ PacketOK(r, call[r], mode, active, verdict[r])
  BY Before DEF Track, Place
<1>2. call' = [call EXCEPT ![r] = n] /\ UNCHANGED <<active, kernel>>
  BY <1>1 DEF Track, Goto, Continue
<1>3. /\ n \in Packet /\ n.flow = call[r].flow /\ n.loopback = call[r].loopback
      /\ n.met = call[r].met /\ n.listed = call[r].listed /\ n.alerts = call[r].alerts
      /\ n.why = call[r].why /\ n.at = IF r = "in" THEN "stateful" ELSE "rules"
  BY <1>1 DEF Packet, Place
<1> HIDE DEF n
<1>4. PacketOK(r, n, mode, active', verdict[r])
  BY <1>1, <1>2, <1>3
     DEF PacketOK, MetOK, VerdictOK, AlertOK, DenyOK, ListedOK, Settled
<1>5. opener' \in [Flow -> {"none", "in", "out"}]
  BY <1>1 DEF Track, Table!Packet, Reader, Inv, TypeOK
<1>6. sent \subseteq sent' /\ sent' \subseteq Flow
  BY <1>1, PacketFacts DEF Track, Inv, TypeOK
<1>7. ASSUME NEW f \in Flow, opener'[f] = "out"
      PROVE  opener[f] = "out" \/ f \in sent'
  BY <1>1, <1>7 DEF Track, Table!Packet
<1>q. QED
  BY <1>2, <1>3, <1>4, <1>5, <1>6, <1>7 DEF Acted, Inv, TypeOK

LEMMA EvaluateRulesOK ==
    ASSUME Inv, NEW r \in Reader, NEW action \in RuleAction, EvaluateRules(r, action)
    PROVE  \E n : Acted(r, n)
<1> DEFINE n == [call[r] EXCEPT !.action = action, !.why = "rule",
                     !.at = IF r = "in" THEN "detect" ELSE "ai"]
<1>1. call[r] \in Packet /\ call[r].at = "rules" /\ PacketOK(r, call[r], mode, active, verdict[r])
  BY Before DEF EvaluateRules, Place
<1>2. call' = [call EXCEPT ![r] = n] /\ UNCHANGED <<opener, sent, active, kernel>>
  BY <1>1 DEF EvaluateRules, Continue
<1>3. action \in {"allow", "deny", "reject"}
  BY EngineAssumption
<1>4. /\ n \in Packet /\ n.flow = call[r].flow /\ n.loopback = call[r].loopback
      /\ n.met = call[r].met /\ n.listed = call[r].listed /\ n.alerts = call[r].alerts
      /\ n.at \in {"detect", "ai"} /\ n.why = "rule"
  BY <1>1, <1>3 DEF Packet, Place
<1> HIDE DEF n
<1>5. PacketOK(r, n, mode, active', verdict[r])
  BY <1>1, <1>2, <1>4
     DEF PacketOK, MetOK, VerdictOK, AlertOK, DenyOK, ListedOK, Settled
<1>q. QED
  BY <1>2, <1>4, <1>5 DEF Acted, Inv, TypeOK

LEMMA DetectorAlertOK ==
    ASSUME Inv, NEW r \in Reader, NEW timed \in BOOLEAN, DetectorAlert(r, timed)
    PROVE  \E n : Acted(r, n)
<1> DEFINE seen == [call[r] EXCEPT !.alerts = @ + 1]
           n == IF timed /\ Enforcing THEN [seen EXCEPT !.at = "block"]
                ELSE Denied(seen, "alert")
<1>1. call[r] \in Packet /\ call[r].at = "detect" /\ PacketOK(r, call[r], mode, active, verdict[r])
  BY Before DEF DetectorAlert, Place
<1>2. call' = [call EXCEPT ![r] = n] /\ UNCHANGED <<opener, sent, active, kernel>>
  BY <1>1 DEF DetectorAlert, Continue
<1>3. /\ seen \in Packet /\ seen.flow = call[r].flow /\ seen.loopback = call[r].loopback
      /\ seen.met = call[r].met /\ seen.listed = call[r].listed /\ seen.at = "detect"
      /\ seen.why = call[r].why
  BY <1>1, SeenFacts DEF DetectorAlert
<1> HIDE DEF seen
<1>4. /\ n \in Packet /\ n.flow = call[r].flow /\ n.loopback = call[r].loopback
      /\ n.met = call[r].met /\ n.listed = call[r].listed
      /\ n.why \in {call[r].why, "alert"}
      /\ \/ n.at = "block" /\ mode = "enforce"
         \/ n.at = "detect" /\ n.action # "allow"
  BY <1>3 DEF Packet, Place, Denied, Enforcing
<1> HIDE DEF n
<1>5. PacketOK(r, n, mode, active', verdict[r])
  BY <1>1, <1>2, <1>4
     DEF PacketOK, MetOK, VerdictOK, AlertOK, DenyOK, ListedOK, Settled
<1>q. QED
  BY <1>2, <1>4, <1>5 DEF Acted, Inv, TypeOK

(* What a block inside the pipeline may do to the blocklist.                *)
LEMMA BlockGrows ==
    ASSUME Inv, NEW r \in Reader, DetectorBlock(r) \/ AnomalyBlock(r)
    PROVE  active \subseteq active' /\ active' \subseteq Address /\ kernel' \subseteq Address
  BY DEF DetectorBlock, AnomalyBlock, Blocks!Block, Blocks!Blockable, Inv, TypeOK

LEMMA DetectorBlockOK ==
    ASSUME Inv, NEW r \in Reader, DetectorBlock(r)
    PROVE  \E n : Acted(r, n)
<1> DEFINE n == Denied([call[r] EXCEPT !.at = "detect"], "alert")
<1>1. call[r] \in Packet /\ call[r].at = "block" /\ PacketOK(r, call[r], mode, active, verdict[r])
  BY Before DEF DetectorBlock, Place
<1>2. call' = [call EXCEPT ![r] = n] /\ UNCHANGED <<opener, sent>>
  BY <1>1 DEF DetectorBlock, Continue
<1>3. /\ n \in Packet /\ n.flow = call[r].flow /\ n.loopback = call[r].loopback
      /\ n.met = call[r].met /\ n.listed = call[r].listed
      /\ n.at = "detect" /\ n.action # "allow" /\ n.why \in {call[r].why, "alert"}
  BY <1>1 DEF Packet, Place, Denied
<1> HIDE DEF n
<1>4. PacketOK(r, n, mode, active', verdict[r])
  BY <1>1, <1>2, <1>3, BlockGrows
     DEF PacketOK, MetOK, VerdictOK, AlertOK, DenyOK, ListedOK, Settled
<1>q. QED
  BY <1>2, <1>3, <1>4, BlockGrows DEF Acted, Inv, TypeOK

LEMMA DetectorsDoneOK ==
    ASSUME Inv, NEW r \in Reader, DetectorsDone(r)
    PROVE  \E n : Acted(r, n)
<1> DEFINE n == [call[r] EXCEPT !.at = "ai"]
<1>1. call[r] \in Packet /\ call[r].at = "detect" /\ PacketOK(r, call[r], mode, active, verdict[r])
  BY Before DEF DetectorsDone, Place
<1>2. call' = [call EXCEPT ![r] = n] /\ UNCHANGED <<opener, sent, active, kernel>>
  BY <1>1 DEF DetectorsDone, Goto, Continue
<1>3. n \in Packet /\ n = [call[r] EXCEPT !.at = "ai"] /\ n.at = "ai"
      /\ n.flow = call[r].flow /\ n.why = call[r].why
  BY <1>1 DEF Packet, Place
<1>4. PacketOK(r, n, mode, active', verdict[r])
  BY <1>1, <1>2, <1>3
     DEF PacketOK, MetOK, VerdictOK, AlertOK, DenyOK, ListedOK, Settled, Packet
<1>q. QED
  BY <1>2, <1>3, <1>4 DEF Acted, Inv, TypeOK

LEMMA AnomalyScoreOK ==
    ASSUME Inv, NEW r \in Reader, NEW flagged \in BOOLEAN, AnomalyScore(r, flagged)
    PROVE  \E n : Acted(r, n)
<1> DEFINE n == [call[r] EXCEPT !.at = IF flagged /\ autoBlock THEN "aiMode" ELSE "verdict"]
<1>1. call[r] \in Packet /\ call[r].at = "ai" /\ PacketOK(r, call[r], mode, active, verdict[r])
  BY Before DEF AnomalyScore, Place
<1>2. call' = [call EXCEPT ![r] = n] /\ UNCHANGED <<opener, sent, active, kernel>>
  BY <1>1 DEF AnomalyScore, Goto, Continue
<1>3. /\ n \in Packet /\ n.flow = call[r].flow /\ n.loopback = call[r].loopback
      /\ n.met = call[r].met /\ n.listed = call[r].listed /\ n.alerts = call[r].alerts
      /\ n.action = call[r].action /\ n.why = call[r].why
      /\ n.at \in {"aiMode", "verdict"}
  BY <1>1 DEF Packet, Place
<1> HIDE DEF n
<1>4. PacketOK(r, n, mode, active', verdict[r])
  BY <1>1, <1>2, <1>3
     DEF PacketOK, MetOK, VerdictOK, AlertOK, DenyOK, ListedOK, Settled
<1>q. QED
  BY <1>2, <1>3, <1>4 DEF Acted, Inv, TypeOK

LEMMA AnomalyModeOK ==
    ASSUME Inv, NEW r \in Reader, AnomalyMode(r)
    PROVE  \E n : Acted(r, n)
<1> DEFINE n == [call[r] EXCEPT !.at = IF Enforcing THEN "aiBlock" ELSE "verdict"]
<1>1. call[r] \in Packet /\ call[r].at = "aiMode" /\ PacketOK(r, call[r], mode, active, verdict[r])
  BY Before DEF AnomalyMode, Place
<1>2. call' = [call EXCEPT ![r] = n] /\ UNCHANGED <<opener, sent, active, kernel>>
  BY <1>1 DEF AnomalyMode, Goto, Continue
<1>3. /\ n \in Packet /\ n.flow = call[r].flow /\ n.loopback = call[r].loopback
      /\ n.met = call[r].met /\ n.listed = call[r].listed /\ n.alerts = call[r].alerts
      /\ n.action = call[r].action /\ n.why = call[r].why
      /\ n.at = "verdict" \/ (n.at = "aiBlock" /\ mode = "enforce")
  BY <1>1 DEF Packet, Place, Enforcing
<1> HIDE DEF n
<1>4. PacketOK(r, n, mode, active', verdict[r])
  BY <1>1, <1>2, <1>3
     DEF PacketOK, MetOK, VerdictOK, AlertOK, DenyOK, ListedOK, Settled
<1>q. QED
  BY <1>2, <1>3, <1>4 DEF Acted, Inv, TypeOK

(* The mode is read last: with enforce mode a denied packet is not sent on. *)
LEMMA ReadModeOK ==
    ASSUME Inv, NEW r \in Reader, ReadMode(r)
    PROVE  \E n : Acted(r, n)
<1> DEFINE n == [call[r] EXCEPT !.at = IF Drops(call[r]) /\ Enforcing THEN "drop" ELSE "accept"]
<1>1. call[r] \in Packet /\ call[r].at = "verdict" /\ PacketOK(r, call[r], mode, active, verdict[r])
  BY Before DEF ReadMode, Place
<1>2. call' = [call EXCEPT ![r] = n] /\ UNCHANGED <<opener, sent, active, kernel>>
  BY <1>1 DEF ReadMode, Goto, Continue
<1>3. /\ n \in Packet /\ n.flow = call[r].flow /\ n.loopback = call[r].loopback
      /\ n.met = call[r].met /\ n.listed = call[r].listed /\ n.alerts = call[r].alerts
      /\ n.action = call[r].action /\ n.why = call[r].why
      /\ \/ n.at = "drop" /\ mode = "enforce"
         \/ n.at = "accept" /\ (n.action # "deny" \/ mode # "enforce")
  BY <1>1 DEF Packet, Place, Drops, Enforcing
<1>4. mode \in {"monitor", "enforce"}
  BY DEF Inv, TypeOK, Mode
<1> HIDE DEF n
<1>5. PacketOK(r, n, mode, active', verdict[r])
  BY <1>1, <1>2, <1>3, <1>4
     DEF PacketOK, MetOK, VerdictOK, AlertOK, DenyOK, ListedOK, Settled
<1>q. QED
  BY <1>2, <1>3, <1>5 DEF Acted, Inv, TypeOK

LEMMA AnomalyBlockOK ==
    ASSUME Inv, NEW r \in Reader, AnomalyBlock(r)
    PROVE  \E n : Acted(r, n)
<1> DEFINE moved == [call[r] EXCEPT !.at = "verdict"]
<1>1. call[r] \in Packet /\ call[r].at = "aiBlock" /\ PacketOK(r, call[r], mode, active, verdict[r])
  BY Before DEF AnomalyBlock, Place
<1>2. PICK n \in {moved, Denied(moved, "ai")} :
          call' = [call EXCEPT ![r] = n] /\ UNCHANGED <<opener, sent>>
  BY <1>1 DEF AnomalyBlock, Goto, Continue
<1>3. /\ n \in Packet /\ n.flow = call[r].flow /\ n.loopback = call[r].loopback
      /\ n.met = call[r].met /\ n.listed = call[r].listed /\ n.alerts = call[r].alerts
      /\ n.at = "verdict" /\ n.why \in {call[r].why, "ai"}
      /\ n.action # "allow" \/ (n.action = call[r].action /\ n.why = call[r].why)
  BY <1>1, <1>2 DEF Packet, Place, Denied
<1>4. PacketOK(r, n, mode, active', verdict[r])
  BY <1>1, <1>2, <1>3, BlockGrows
     DEF PacketOK, MetOK, VerdictOK, AlertOK, DenyOK, ListedOK, Settled
<1>q. QED
  BY <1>2, <1>3, <1>4, BlockGrows DEF Acted, Inv, TypeOK

-----------------------------------------------------------------------------
(* More addresses in the blocklist disturb no packet.                       *)
LEMMA Grows ==
    ASSUME NEW q \in Reader, NEW c, NEW m, NEW a, NEW b, NEW v,
           a \subseteq b, ReaderOK(q, c, m, a, v)
    PROVE  ReaderOK(q, c, m, b, v)
  BY DEF ReaderOK, PacketOK, ListedOK

LEMMA DecideInv ==
    ASSUME Inv, NEW r \in Reader, Decide(r)
    PROVE  Inv'
<1>1. UNCHANGED <<mode, autoBlock, verdict, alive>>
  BY DEF Decide
<1>2. PICK n : Acted(r, n)
  BY LoopbackOK, TrackOK, StatefulOK, CheckBlocklistOK, EvaluateRulesOK, DetectorAlertOK,
     DetectorBlockOK, DetectorsDoneOK, AnomalyScoreOK, AnomalyModeOK,
     AnomalyBlockOK, ReadModeOK DEF Decide
<1>3. /\ n \in Packet /\ n # Idle /\ call' = [call EXCEPT ![r] = n]
      /\ PacketOK(r, n, mode, active', verdict[r]) /\ active \subseteq active'
  BY <1>2, PacketFacts DEF Acted
<1>4. call \in [Reader -> Packet \cup {Idle}]
  BY DEF Inv, TypeOK
<1>5. TypeOK'
  BY <1>1, <1>2, <1>3, <1>4 DEF Acted, Inv, TypeOK
<1>6. ASSUME NEW q \in Reader
      PROVE  ReaderOK(q, call'[q], mode', active', verdict'[q])
  <2>1. CASE q = r
    BY <1>1, <1>3, <1>4, <2>1 DEF ReaderOK
  <2>2. CASE q # r
    <3>1. call'[q] = call[q]
      BY <1>3, <1>4, <2>2
    <3>q. QED
      BY <1>1, <1>3, <3>1, Grows DEF Inv
  <2>q. QED
    BY <2>1, <2>2
<1>q. QED
  BY <1>5, <1>6 DEF Inv

LEMMA QueueInv ==
    ASSUME Inv, NEW r \in Reader, NEW f \in Flow, NEW loopback \in BOOLEAN,
           Queue(r, f, loopback)
    PROVE  Inv'
<1> DEFINE n == [at |-> "queued", flow |-> f, loopback |-> loopback,
                 action |-> "allow", why |-> "", met |-> {mode},
                 listed |-> r = "in" /\ ~loopback /\ PeerOf[f] \in active,
                 alerts |-> 0]
<1>1. /\ call[r] = Idle /\ call' = [call EXCEPT ![r] = n]
      /\ UNCHANGED <<mode, autoBlock, opener, sent, active, kernel, verdict, alive>>
  BY DEF Queue, Continue
<1>2. n \in Packet
  <2>1. mode \in Mode /\ 0 \in 0..MaxAlerts
    BY EngineAssumption DEF Inv, TypeOK
  <2>2. (r = "in" /\ ~loopback /\ PeerOf[f] \in active) \in BOOLEAN
    OBVIOUS
  <2>3. ASSUME NEW l \in BOOLEAN
        PROVE  [at |-> "queued", flow |-> f, loopback |-> loopback,
                action |-> "allow", why |-> "", met |-> {mode},
                listed |-> l, alerts |-> 0] \in Packet
    BY <2>1 DEF Packet, Place
  <2>q. QED
    BY <2>2, <2>3
<1>3. call \in [Reader -> Packet \cup {Idle}]
  BY DEF Inv, TypeOK
<1>4. TypeOK'
  BY <1>1, <1>2, <1>3 DEF Inv, TypeOK
<1>5. verdict[r] = "none"
  BY <1>1 DEF Inv, ReaderOK
<1>6. PacketOK(r, n, mode, active, verdict[r])
  BY <1>5 DEF PacketOK, MetOK, VerdictOK, AlertOK, DenyOK, ListedOK, Settled
<1>7. n # Idle
  BY <1>2, PacketFacts
<1> HIDE DEF n
<1>8. ASSUME NEW q \in Reader
      PROVE  ReaderOK(q, call'[q], mode', active', verdict'[q])
  <2>1. CASE q = r
    BY <1>1, <1>3, <1>6, <1>7, <2>1 DEF ReaderOK
  <2>2. CASE q # r
    BY <1>1, <1>3, <2>2 DEF Inv
  <2>q. QED
    BY <2>1, <2>2
<1>q. QED
  BY <1>4, <1>8 DEF Inv

(* _handle() telling the kernel, and being done with the packet.            *)
LEMMA TellInv ==
    ASSUME Inv, NEW r \in Reader, NEW fate \in {"accept", "drop"}, NEW n \in Packet,
           call[r] \in Packet, Tell(r, fate), call' = [call EXCEPT ![r] = n],
           PacketOK(r, n, mode, active, fate),
           UNCHANGED <<mode, autoBlock, opener, sent, active, kernel, alive>>
    PROVE  Inv'
<1>1. n # Idle /\ call[r].flow \in Flow
  BY PacketFacts
<1>2. call \in [Reader -> Packet \cup {Idle}] /\ verdict \in [Reader -> {"none", "accept", "drop"}]
  BY DEF Inv, TypeOK
<1>3. verdict' = [verdict EXCEPT ![r] = fate]
  BY DEF Tell
<1>4. TypeOK'
  BY <1>1, <1>2, <1>3 DEF Inv, TypeOK, Tell
<1>5. ASSUME NEW q \in Reader
      PROVE  ReaderOK(q, call'[q], mode', active', verdict'[q])
  <2>1. CASE q = r
    BY <1>1, <1>2, <1>3, <2>1 DEF ReaderOK
  <2>2. CASE q # r
    BY <1>2, <1>3, <2>2 DEF Inv
  <2>q. QED
    BY <2>1, <2>2
<1>q. QED
  BY <1>4, <1>5 DEF Inv

LEMMA GiveVerdictInv ==
    ASSUME Inv, NEW r \in Reader, GiveVerdict(r)
    PROVE  Inv'
<1> DEFINE fate == call[r].at
           n == [call[r] EXCEPT !.at = "record"]
<1>1. call[r] \in Packet /\ call[r].at \in {"drop", "accept"}
      /\ PacketOK(r, call[r], mode, active, verdict[r])
  BY Before DEF GiveVerdict, Place
<1>2. /\ Tell(r, fate) /\ call' = [call EXCEPT ![r] = n]
      /\ UNCHANGED <<mode, autoBlock, opener, sent, active, kernel, alive>>
  BY DEF GiveVerdict, Goto, Continue
<1>3. /\ n \in Packet /\ n.flow = call[r].flow /\ n.loopback = call[r].loopback
      /\ n.met = call[r].met /\ n.listed = call[r].listed /\ n.alerts = call[r].alerts
      /\ n.action = call[r].action /\ n.why = call[r].why /\ n.at = "record"
  BY <1>1 DEF Packet, Place
<1> HIDE DEF n
<1>4. PacketOK(r, n, mode, active, fate)
  BY <1>1, <1>3
     DEF PacketOK, MetOK, VerdictOK, AlertOK, DenyOK, ListedOK, Settled
<1>5. fate \in {"accept", "drop"}
  BY <1>1
<1> HIDE DEF fate
<1>q. QED
  BY <1>1, <1>2, <1>3, <1>4, <1>5, TellInv

LEMMA RaiseInv ==
    ASSUME Inv, NEW r \in Reader, Raise(r)
    PROVE  Inv'
<1> DEFINE n == [call[r] EXCEPT !.at = "record", !.why = "error"]
<1>1. PICK p \in Place : At(r, p)
  BY DEF Raise, Place
<1>2. call[r] \in Packet /\ call[r].at \in {"block", "ai", "aiBlock"}
      /\ PacketOK(r, call[r], mode, active, verdict[r])
  BY <1>1, Before DEF Raise, At
<1>3. /\ Tell(r, "accept") /\ call' = [call EXCEPT ![r] = n]
      /\ UNCHANGED <<mode, autoBlock, opener, sent, active, kernel, alive>>
  BY DEF Raise, Continue
<1>4. /\ n \in Packet /\ n.flow = call[r].flow /\ n.loopback = call[r].loopback
      /\ n.met = call[r].met /\ n.listed = call[r].listed /\ n.alerts = call[r].alerts
      /\ n.why = "error" /\ n.at = "record"
  BY <1>2 DEF Packet, Place
<1> HIDE DEF n
<1>5. PacketOK(r, n, mode, active, "accept")
  BY <1>2, <1>4
     DEF PacketOK, MetOK, VerdictOK, AlertOK, DenyOK, ListedOK, Settled
<1>q. QED
  BY <1>2, <1>3, <1>4, <1>5, TellInv

LEMMA RecordInv ==
    ASSUME Inv, NEW r \in Reader, Record(r)
    PROVE  Inv'
<1>1. /\ call' = [call EXCEPT ![r] = Idle] /\ verdict' = [verdict EXCEPT ![r] = "none"]
      /\ UNCHANGED <<mode, autoBlock, opener, sent, active, kernel, alive>>
  BY DEF Record, Continue
<1>2. call \in [Reader -> Packet \cup {Idle}] /\ verdict \in [Reader -> {"none", "accept", "drop"}]
  BY DEF Inv, TypeOK
<1>3. TypeOK'
  BY <1>1, <1>2 DEF Inv, TypeOK
<1>4. ASSUME NEW q \in Reader
      PROVE  ReaderOK(q, call'[q], mode', active', verdict'[q])
  BY <1>1, <1>2 DEF Inv, ReaderOK
<1>q. QED
  BY <1>3, <1>4 DEF Inv

(* The same for every packet in flight: the mode changes, or an address is  *)
(* unblocked.                                                               *)
LEMMA SetModeInv ==
    ASSUME Inv, NEW m \in Mode, SetMode(m)
    PROVE  Inv'
<1> DEFINE n(q) == [call[q] EXCEPT !.met = @ \cup {m}]
<1>1. /\ mode' = m /\ UNCHANGED <<autoBlock, opener, sent, active, kernel, verdict, alive>>
      /\ call' = [q \in Reader |-> IF call[q] = Idle THEN Idle ELSE n(q)]
  BY DEF SetMode
<1>2. call \in [Reader -> Packet \cup {Idle}]
  BY DEF Inv, TypeOK
<1>3. ASSUME NEW q \in Reader, call[q] # Idle
      PROVE  /\ n(q) \in Packet /\ n(q) # Idle
             /\ PacketOK(q, n(q), m, active, verdict[q])
  <2>1. call[q] \in Packet /\ PacketOK(q, call[q], mode, active, verdict[q])
    BY <1>2, <1>3 DEF Inv, ReaderOK
  <2>2. LET c == call[q]
        IN  /\ n(q) \in Packet /\ n(q).flow = c.flow /\ n(q).loopback = c.loopback
            /\ n(q).met = c.met \cup {m} /\ n(q).listed = c.listed /\ n(q).at = c.at
            /\ n(q).alerts = c.alerts /\ n(q).why = c.why /\ n(q).action = c.action
    BY <2>1, MetFacts
  <2> HIDE DEF n
  <2>3. PacketOK(q, n(q), m, active, verdict[q])
    BY <2>1, <2>2
       DEF PacketOK, MetOK, VerdictOK, AlertOK, DenyOK, ListedOK, Settled
  <2>q. QED
    BY <2>2, <2>3, PacketFacts
<1> HIDE DEF n
<1>4. TypeOK'
  BY <1>1, <1>2, <1>3 DEF Inv, TypeOK
<1>5. ASSUME NEW q \in Reader
      PROVE  ReaderOK(q, call'[q], mode', active', verdict'[q])
  BY <1>1, <1>3 DEF Inv, ReaderOK
<1>q. QED
  BY <1>4, <1>5 DEF Inv

LEMMA LiftInv ==
    ASSUME Inv, NEW ip \in Address, Lift(ip)
    PROVE  Inv'
<1> DEFINE n(q) == [call[q] EXCEPT !.listed = FALSE]
           hit(q) == call[q] # Idle /\ PeerOf[call[q].flow] = ip
<1>1. /\ active' = active \ {ip} /\ kernel' \subseteq kernel
      /\ UNCHANGED <<mode, autoBlock, opener, sent, verdict, alive>>
      /\ call' = [q \in Reader |-> IF hit(q) THEN n(q) ELSE call[q]]
  BY DEF Lift, Blocks!Lift
<1>2. call \in [Reader -> Packet \cup {Idle}]
  BY DEF Inv, TypeOK
<1>3. ASSUME NEW q \in Reader, hit(q)
      PROVE  /\ n(q) \in Packet /\ n(q) # Idle
             /\ PacketOK(q, n(q), mode, active', verdict[q])
  <2>1. call[q] \in Packet /\ PacketOK(q, call[q], mode, active, verdict[q])
    BY <1>2, <1>3 DEF Inv, ReaderOK
  <2>2. LET c == call[q]
        IN  /\ n(q) \in Packet /\ n(q).flow = c.flow /\ n(q).loopback = c.loopback
            /\ n(q).met = c.met /\ ~n(q).listed /\ n(q).at = c.at
            /\ n(q).alerts = c.alerts /\ n(q).why = c.why /\ n(q).action = c.action
    BY <2>1, UnlistedFacts
  <2> HIDE DEF n
  <2>3. PacketOK(q, n(q), mode, active', verdict[q])
    BY <2>1, <2>2
       DEF PacketOK, MetOK, VerdictOK, AlertOK, DenyOK, ListedOK, Settled
  <2>q. QED
    BY <2>2, <2>3, PacketFacts
<1>4. ASSUME NEW q \in Reader, ~hit(q)
      PROVE  ReaderOK(q, call[q], mode, active', verdict[q])
  BY <1>1, <1>4 DEF Inv, ReaderOK, PacketOK, ListedOK
<1> HIDE DEF n, hit
<1>5. TypeOK'
  BY <1>1, <1>2, <1>3 DEF Inv, TypeOK
<1>6. ASSUME NEW q \in Reader
      PROVE  ReaderOK(q, call'[q], mode', active', verdict'[q])
  BY <1>1, <1>3, <1>4 DEF ReaderOK
<1>q. QED
  BY <1>5, <1>6 DEF Inv

-----------------------------------------------------------------------------
LEMMA InvInit == Init => Inv
  BY DEF Init, Table!Init, Blocks!Init, Inv, TypeOK, ReaderOK, Mode

LEMMA InvNext == Inv /\ [Next]_vars => Inv'
<1> SUFFICES ASSUME Inv, [Next]_vars PROVE Inv'
  OBVIOUS
<1>1. CASE \E r \in Reader, f \in Flow, loopback \in BOOLEAN : Queue(r, f, loopback)
  BY <1>1, QueueInv
<1>2. CASE \E r \in Reader : Work(r)
  BY <1>2, DecideInv, GiveVerdictInv, RaiseInv, RecordInv DEF Work
<1>3. CASE \E r \in Reader : ReaderStops(r)
  BY <1>3 DEF ReaderStops, Inv, TypeOK
<1>4. CASE \E m \in Mode : SetMode(m)
  BY <1>4, SetModeInv
<1>5. CASE \E on \in BOOLEAN : SetAutoBlock(on)
  BY <1>5 DEF SetAutoBlock, Inv, TypeOK
<1>6. ASSUME NEW ip \in Address, ManualBlock(ip)
      PROVE  Inv'
  <2>1. active \subseteq active' /\ UNCHANGED <<mode, call, verdict>>
    BY <1>6 DEF ManualBlock, Blocks!Block
  <2>2. TypeOK'
    BY <1>6 DEF ManualBlock, Blocks!Block, Blocks!Blockable, Inv, TypeOK
  <2>q. QED
    BY <2>1, <2>2, Grows DEF Inv
<1>7. CASE \E ip \in Address : Lift(ip)
  BY <1>7, LiftInv
<1>8. CASE \E gone \in SUBSET Address : KernelLapse(gone)
  BY <1>8 DEF KernelLapse, Blocks!Lapse, Inv, TypeOK
<1>9. CASE UNCHANGED vars
  BY <1>9 DEF vars, Inv, TypeOK
<1>q. QED
  BY <1>1, <1>2, <1>3, <1>4, <1>5, <1>6, <1>7, <1>8, <1>9 DEF Next

LEMMA Invariance == Spec => []Inv
  BY InvInit, InvNext, PTL DEF Spec

-----------------------------------------------------------------------------
(* Every state of the pipeline has its type.                                *)
THEOREM TypeCorrect == Spec => []TypeOK
<1>1. Inv => TypeOK
  BY DEF Inv
<1>q. QED
  BY <1>1, Invariance, PTL

(* In enforce mode a packet whose source was recorded as blocked from the   *)
(* moment it was queued gets through only as a reply, as loopback or after  *)
(* an error: the blocklist check of _decide() is never overtaken.           *)
THEOREM BlockedIsStopped == Spec => []BlockedSourceStopped
<1>1. Inv => BlockedSourceStopped
  <2> SUFFICES ASSUME Inv, NEW r \in Reader, verdict[r] = "accept", call[r].listed,
                      call[r].met = {"enforce"}
               PROVE  call[r].why \in {"loopback", "reply", "error"}
    BY DEF BlockedSourceStopped
  <2>1. PacketOK(r, call[r], mode, active, verdict[r])
    BY DEF Inv, ReaderOK
  <2>q. QED
    BY <2>1 DEF PacketOK, VerdictOK, DenyOK, ListedOK, Settled
<1>q. QED
  BY <1>1, Invariance, PTL

(* In enforce mode a packet that raised an alert of a detector is stopped,  *)
(* even where its source could not be blocked (AlertStopsPacket, engine.py  *)
(* _decide).                                                                *)
THEOREM AlertsStop == Spec => []AlertStopsPacket
<1>1. Inv => AlertStopsPacket
  <2> SUFFICES ASSUME Inv, NEW r \in Reader, verdict[r] = "accept", call[r].alerts > 0,
                      call[r].met = {"enforce"}
               PROVE  call[r].why = "error" \/ call[r].action = "reject"
    BY DEF AlertStopsPacket
  <2>1. call[r] # Idle /\ PacketOK(r, call[r], mode, active, verdict[r])
    BY DEF Inv, ReaderOK
  <2>2. call[r] \in Packet
    BY <2>1 DEF Inv, TypeOK
  <2>3. call[r].action \in {"allow", "deny", "reject"}
    BY <2>2, PacketFacts
  <2>4. call[r].alerts # 0
    <3>1. call[r].alerts \in 0..MaxAlerts
      BY <2>2, PacketFacts
    <3>q. QED
      BY <3>1
  <2>q. QED
    BY <2>1, <2>3, <2>4 DEF PacketOK, VerdictOK, DenyOK, AlertOK
<1>q. QED
  BY <1>1, Invariance, PTL

(* No packet that met monitor mode alone gets anybody blocked.              *)
THEOREM MonitorHarmless == Spec => MonitorBlocksNobody
<1> DEFINE Harmless == \A r \in Reader :
                           (DetectorBlock(r) \/ AnomalyBlock(r)) /\ active' # active
                               => "enforce" \in call[r].met
<1>1. Inv => Harmless
  <2> SUFFICES ASSUME Inv, NEW r \in Reader, DetectorBlock(r) \/ AnomalyBlock(r)
               PROVE  "enforce" \in call[r].met
    OBVIOUS
  <2>1. PICK p \in {"block", "aiBlock"} : At(r, p)
    BY DEF DetectorBlock, AnomalyBlock
  <2>2. call[r].at = p /\ PacketOK(r, call[r], mode, active, verdict[r])
    BY <2>1, Before DEF Place
  <2>q. QED
    BY <2>2 DEF PacketOK, MetOK
<1>2. Inv => [Harmless]_vars
  BY <1>1
<1> HIDE DEF Harmless
<1>3. Spec => [][Harmless]_vars
  BY <1>2, Invariance, PTL DEF Spec
<1>q. QED
  BY <1>3 DEF Harmless, MonitorBlocksNobody

-----------------------------------------------------------------------------
(* Whoever is said to have been answered has spoken before: a flow is       *)
(* opened "out", and a packet judged a reply, only on flows in sent.        *)
ReplyInv ==
    /\ \A f \in Flow : opener[f] = "out" => f \in sent
    /\ RepliesAnswerUs

(* A step that gives one reader a packet of that kind keeps it.             *)
LEMMA OneReply ==
    ASSUME Inv, ReplyInv, NEW r \in Reader, NEW n, call' = [call EXCEPT ![r] = n],
           n # Idle => (n.why = "reply" => n.flow \in sent),
           sent \subseteq sent', \A f \in Flow : opener'[f] = "out" => f \in sent'
    PROVE  ReplyInv'
<1>1. ASSUME NEW q \in Reader, call'[q] # Idle, call'[q].why = "reply"
      PROVE  call'[q].flow \in sent'
  <2>1. CASE q = r
    BY <1>1, <2>1 DEF Inv, TypeOK
  <2>2. CASE q # r
    BY <1>1, <2>2 DEF Inv, TypeOK, ReplyInv, RepliesAnswerUs
  <2>q. QED
    BY <2>1, <2>2
<1>q. QED
  BY <1>1 DEF ReplyInv, RepliesAnswerUs

LEMMA DecideReply ==
    ASSUME Inv, ReplyInv, NEW r \in Reader, Decide(r)
    PROVE  ReplyInv'
<1>1. PICK n : Acted(r, n)
  BY LoopbackOK, TrackOK, StatefulOK, CheckBlocklistOK, EvaluateRulesOK, DetectorAlertOK,
     DetectorBlockOK, DetectorsDoneOK, AnomalyScoreOK, AnomalyModeOK,
     AnomalyBlockOK, ReadModeOK DEF Decide
<1>2. PICK p \in Place : At(r, p)
  BY DEF Decide, Loopback, Track, Stateful, CheckBlocklist, EvaluateRules, DetectorAlert,
         DetectorBlock, DetectorsDone, AnomalyScore, AnomalyMode, AnomalyBlock, ReadMode, Place
<1>3. call[r] # Idle /\ call[r].flow \in Flow
  BY <1>2, Before, PacketFacts
<1>4. n.why = "reply" => n.flow \in sent
  BY <1>1, <1>3 DEF Acted, ReplyInv, RepliesAnswerUs, IsReply
<1>5. \A f \in Flow : opener'[f] = "out" => f \in sent'
  BY <1>1 DEF Acted, ReplyInv
<1>q. QED
  BY <1>1, <1>4, <1>5, OneReply DEF Acted

LEMMA QueueReply ==
    ASSUME Inv, ReplyInv, NEW r \in Reader, NEW f \in Flow, NEW loopback \in BOOLEAN,
           Queue(r, f, loopback)
    PROVE  ReplyInv'
<1> DEFINE n == [at |-> "queued", flow |-> f, loopback |-> loopback,
                 action |-> "allow", why |-> "", met |-> {mode},
                 listed |-> r = "in" /\ ~loopback /\ PeerOf[f] \in active,
                 alerts |-> 0]
<1>1. call' = [call EXCEPT ![r] = n] /\ UNCHANGED <<opener, sent>>
  BY DEF Queue, Continue
<1>2. n.why = ""
  OBVIOUS
<1> HIDE DEF n
<1>q. QED
  BY <1>1, <1>2, OneReply DEF ReplyInv

LEMMA HandleReply ==
    ASSUME Inv, ReplyInv, NEW r \in Reader, GiveVerdict(r) \/ Raise(r) \/ Record(r)
    PROVE  ReplyInv'
<1>1. UNCHANGED <<opener, sent>>
  BY DEF GiveVerdict, Raise, Record
<1>2. CASE GiveVerdict(r)
  <2> DEFINE n == [call[r] EXCEPT !.at = "record"]
  <2>0. PICK p \in Place : At(r, p)
    BY <1>2 DEF GiveVerdict, Place
  <2>1. call[r] \in Packet /\ call' = [call EXCEPT ![r] = n]
    BY <1>2, <2>0, Before DEF GiveVerdict, Goto, Continue
  <2>2. n.why = call[r].why /\ n.flow = call[r].flow
    BY <2>1 DEF Packet
  <2>q. QED
    BY <1>1, <2>1, <2>2, OneReply, PacketFacts DEF ReplyInv, RepliesAnswerUs
<1>3. CASE Raise(r)
  <2> DEFINE n == [call[r] EXCEPT !.at = "record", !.why = "error"]
  <2>1. PICK p \in Place : At(r, p)
    BY <1>3 DEF Raise, Place
  <2>2. call[r] \in Packet /\ call' = [call EXCEPT ![r] = n]
    BY <1>3, <2>1, Before DEF Raise, Continue
  <2>3. n.why = "error"
    BY <2>2 DEF Packet
  <2>q. QED
    BY <1>1, <2>2, <2>3, OneReply DEF ReplyInv
<1>4. CASE Record(r)
  <2>1. call' = [call EXCEPT ![r] = Idle]
    BY <1>4 DEF Record, Continue
  <2>q. QED
    BY <1>1, <2>1, OneReply DEF ReplyInv
<1>q. QED
  BY <1>2, <1>3, <1>4

LEMMA SetModeReply ==
    ASSUME Inv, ReplyInv, NEW m \in Mode, SetMode(m)
    PROVE  ReplyInv'
<1>1. ASSUME NEW q \in Reader, call'[q] # Idle
      PROVE  call[q] # Idle /\ call'[q].why = call[q].why /\ call'[q].flow = call[q].flow
  <2>1. call[q] # Idle /\ call'[q] = [call[q] EXCEPT !.met = @ \cup {m}]
    BY <1>1 DEF SetMode
  <2>2. call[q] \in Packet
    BY <2>1 DEF Inv, TypeOK
  <2>q. QED
    BY <2>1, <2>2, MetFacts
<1>q. QED
  BY <1>1 DEF SetMode, ReplyInv, RepliesAnswerUs

LEMMA LiftReply ==
    ASSUME Inv, ReplyInv, NEW ip \in Address, Lift(ip)
    PROVE  ReplyInv'
<1>1. ASSUME NEW q \in Reader, call'[q] # Idle
      PROVE  call[q] # Idle /\ call'[q].why = call[q].why /\ call'[q].flow = call[q].flow
  <2>1. call'[q] \in {call[q], [call[q] EXCEPT !.listed = FALSE]} /\ call[q] # Idle
    BY <1>1 DEF Lift
  <2>2. call[q] \in Packet
    BY <2>1 DEF Inv, TypeOK
  <2>q. QED
    BY <2>1, <2>2, UnlistedFacts
<1>q. QED
  BY <1>1 DEF Lift, ReplyInv, RepliesAnswerUs

LEMMA ReplyInvariance == Spec => []ReplyInv
<1>1. Init => ReplyInv
  BY DEF Init, Table!Init, ReplyInv, RepliesAnswerUs
<1>2. Inv /\ ReplyInv /\ [Next]_vars => ReplyInv'
  <2> SUFFICES ASSUME Inv, ReplyInv, [Next]_vars PROVE ReplyInv'
    OBVIOUS
  <2>1. CASE \E r \in Reader, f \in Flow, loopback \in BOOLEAN : Queue(r, f, loopback)
    BY <2>1, QueueReply
  <2>2. CASE \E r \in Reader : Work(r)
    BY <2>2, DecideReply, HandleReply DEF Work
  <2>3. CASE \E m \in Mode : SetMode(m)
    BY <2>3, SetModeReply
  <2>4. CASE \E ip \in Address : Lift(ip)
    BY <2>4, LiftReply
  <2>5. CASE UNCHANGED <<opener, sent, call>>
    BY <2>5 DEF ReplyInv, RepliesAnswerUs
  <2>q. QED
    BY <2>1, <2>2, <2>3, <2>4, <2>5
       DEF Next, ReaderStops, SetAutoBlock, ManualBlock, KernelLapse, vars
<1>q. QED
  BY <1>1, <1>2, Invariance, PTL DEF Spec

(* A packet is let through as a reply only on a flow this machine has sent  *)
(* on, for any flows and peers (RepliesAnswerUs, conntrack and _decide()).  *)
THEOREM RepliesAreAnswers == Spec => []RepliesAnswerUs
<1>1. ReplyInv => RepliesAnswerUs
  BY DEF ReplyInv
<1>q. QED
  BY <1>1, ReplyInvariance, PTL

-----------------------------------------------------------------------------
(* The pipeline is an inline filter as far as safety goes: every step of    *)
(* Engine is a step of Inline or leaves it alone, under the mapping of      *)
(* Engine!Filter.  (That no packet waits for ever needs fairness and is     *)
(* left to TLC.)                                                            *)
Held == [r \in Reader |-> HeldBy(r)]

LEMMA HeldSame ==
    ASSUME \A q \in Reader : HeldBy(q)' = HeldBy(q)
    PROVE  Held' = Held
  BY DEF Held

LEMMA FateFacts ==
    FateOf["none"] = "waiting" /\ FateOf["accept"] = "passed" /\ FateOf["drop"] = "stopped"
  BY DEF FateOf

(* The steps of Inline's readers, under the mapping.                        *)
Moved(r, from, to) == Held[r] = from /\ Held' = [Held EXCEPT ![r] = to]

(* What a reader with packet n and verdict v holds.                         *)
Fate(n, v) ==
    IF n = Idle THEN "none" ELSE IF n.at = "drop" THEN "condemned" ELSE FateOf[v]

(* A step that gives reader r the packet n and the verdict v moves what it  *)
(* holds and leaves what the other holds.                                   *)
LEMMA ReaderMoves ==
    ASSUME Inv, NEW r \in Reader, NEW n, NEW v,
           call' = [call EXCEPT ![r] = n], verdict' = [verdict EXCEPT ![r] = v]
    PROVE  Moved(r, HeldBy(r), Fate(n, v))
<1>1. call'[r] = n /\ verdict'[r] = v
  BY DEF Inv, TypeOK
<1>2. HeldBy(r)' = Fate(n, v)
  BY <1>1 DEF HeldBy, Fate
<1>3. \A q \in Reader \ {r} : HeldBy(q)' = HeldBy(q)
  BY DEF Inv, TypeOK, HeldBy
<1>4. Held' = [Held EXCEPT ![r] = HeldBy(r)']
  BY <1>3 DEF Held
<1>q. QED
  BY <1>2, <1>4 DEF Moved, Held

(* The alternatives of Inline!Next.                                         *)
InlineStep(r) ==
    /\ r \in alive /\ UNCHANGED alive
    /\ \/ Moved(r, "none", "waiting")
       \/ Moved(r, "waiting", "passed")
       \/ mode = "enforce" /\ Moved(r, "waiting", "condemned")
       \/ Moved(r, "condemned", "stopped")
       \/ \E fate \in {"passed", "stopped"} : Moved(r, fate, "none")

LEMMA QueueHeld ==
    ASSUME Inv, NEW r \in Reader, NEW f \in Flow, NEW loopback \in BOOLEAN,
           Queue(r, f, loopback)
    PROVE  UNCHANGED mode /\ InlineStep(r)
<1>1. PICK n : n # Idle /\ call[r] = Idle /\ call' = [call EXCEPT ![r] = n]
               /\ n.at = "queued" /\ UNCHANGED <<mode, verdict, alive>> /\ r \in alive
  <2>1. [at |-> "queued", flow |-> f, loopback |-> loopback,
         action |-> "allow", why |-> "", met |-> {mode},
         listed |-> r = "in" /\ ~loopback /\ PeerOf[f] \in active,
         alerts |-> 0].at # Idle.at
    BY DEF Idle
  <2>q. QED
    BY <2>1 DEF Queue, Continue
<1>2. verdict' = [verdict EXCEPT ![r] = "none"]
  BY <1>1 DEF Inv, ReaderOK, TypeOK
<1>3. Moved(r, HeldBy(r), "waiting")
  <2>1. Moved(r, HeldBy(r), Fate(n, "none"))
    BY <1>1, <1>2, ReaderMoves
  <2>2. Fate(n, "none") = "waiting"
    BY <1>1, FateFacts DEF Fate
  <2>q. QED
    BY <2>1, <2>2
<1>4. HeldBy(r) = "none"
  BY <1>1 DEF HeldBy
<1>q. QED
  BY <1>1, <1>3, <1>4 DEF InlineStep

(* What reader r holds at a place of the pipeline.                          *)
LEMMA HeldAt ==
    ASSUME Inv, NEW r \in Reader, NEW p \in Place, At(r, p)
    PROVE  HeldBy(r) \in IF p = "record" THEN {"passed", "stopped"}
                        ELSE IF p = "drop" THEN {"condemned"} ELSE {"waiting"}
<1>1. call[r] # Idle /\ call[r].at = p /\ (verdict[r] # "none" <=> p = "record")
  BY Before, PacketFacts DEF PacketOK, VerdictOK
<1>2. verdict[r] \in {"none", "accept", "drop"}
  BY DEF Inv, TypeOK
<1>q. QED
  BY <1>1, <1>2, FateFacts DEF HeldBy

LEMMA DecideHeld ==
    ASSUME Inv, NEW r \in Reader, Decide(r)
    PROVE  UNCHANGED <<mode, alive>> /\ (UNCHANGED Held \/ InlineStep(r))
<1>1. UNCHANGED <<mode, verdict, alive>>
  BY DEF Decide
<1>2. PICK n : Acted(r, n)
  BY LoopbackOK, TrackOK, StatefulOK, CheckBlocklistOK, EvaluateRulesOK, DetectorAlertOK,
     DetectorBlockOK, DetectorsDoneOK, AnomalyScoreOK, AnomalyModeOK,
     AnomalyBlockOK, ReadModeOK DEF Decide
<1>3. call[r] # Idle /\ r \in alive /\ HeldBy(r) = "waiting"
  <2>1. PICK p \in Place \ {"drop", "record"} : At(r, p)
    BY DEF Decide, Loopback, Track, Stateful, CheckBlocklist, EvaluateRules, DetectorAlert,
           DetectorBlock, DetectorsDone, AnomalyScore, AnomalyMode, AnomalyBlock, ReadMode, Place
  <2>q. QED
    BY <2>1, Before, PacketFacts, HeldAt DEF At
<1>4. n # Idle /\ verdict' = [verdict EXCEPT ![r] = verdict[r]]
  BY <1>1, <1>2, PacketFacts DEF Acted, Inv, TypeOK
<1>5. Moved(r, "waiting", Fate(n, verdict[r]))
  BY <1>2, <1>3, <1>4, ReaderMoves DEF Acted
<1>6. FateOf[verdict[r]] = "waiting"
  BY <1>2, <1>3 DEF HeldBy
<1>7. CASE n.at = "drop"
  BY <1>1, <1>2, <1>3, <1>4, <1>5, <1>7 DEF Fate, InlineStep, Acted
<1>8. CASE n.at # "drop"
  <2>1. Moved(r, "waiting", "waiting")
    BY <1>4, <1>5, <1>6, <1>8 DEF Fate
  <2>q. QED
    BY <1>1, <2>1 DEF Moved, Held
<1>q. QED
  BY <1>7, <1>8

(* Telling the kernel: a drop where the packet was condemned, else an accept. *)
LEMMA TellHeld ==
    ASSUME Inv, NEW r \in Reader, NEW p \in Place \ {"record"}, At(r, p), NEW n \in Packet,
           n.at # "drop", NEW fate \in {"accept", "drop"}, fate = "drop" <=> p = "drop",
           Tell(r, fate), call' = [call EXCEPT ![r] = n], UNCHANGED alive
    PROVE  InlineStep(r)
<1>1. HeldBy(r) = IF p = "drop" THEN "condemned" ELSE "waiting"
  BY HeldAt
<1>2. n # Idle /\ verdict' = [verdict EXCEPT ![r] = fate]
  BY PacketFacts DEF Tell
<1>3. Moved(r, HeldBy(r), FateOf[fate])
  BY <1>2, ReaderMoves DEF Fate
<1>q. QED
  BY <1>1, <1>3, FateFacts DEF InlineStep, At

LEMMA GiveVerdictHeld ==
    ASSUME Inv, NEW r \in Reader, GiveVerdict(r)
    PROVE  UNCHANGED mode /\ InlineStep(r)
<1> DEFINE n == [call[r] EXCEPT !.at = "record"]
<1>1. PICK p \in {"drop", "accept"} : At(r, p)
  BY DEF GiveVerdict
<1>2. p \in Place \ {"record"} /\ "record" \in Place
  BY DEF Place
<1>3. Tell(r, p) /\ call' = [call EXCEPT ![r] = n] /\ UNCHANGED <<mode, alive>>
  BY <1>1 DEF GiveVerdict, Goto, Continue, At
<1>4. n \in Packet /\ n.at = "record"
  BY <1>1, <1>2, Before, MoveFacts
<1> HIDE DEF n
<1>q. QED
  BY <1>1, <1>2, <1>3, <1>4, TellHeld

LEMMA RaiseHeld ==
    ASSUME Inv, NEW r \in Reader, Raise(r)
    PROVE  UNCHANGED mode /\ InlineStep(r)
<1> DEFINE n == [call[r] EXCEPT !.at = "record", !.why = "error"]
<1>1. PICK p \in Place \ {"drop", "record"} : At(r, p)
  BY DEF Raise, Place
<1>2. Tell(r, "accept") /\ call' = [call EXCEPT ![r] = n] /\ UNCHANGED <<mode, alive>>
  BY DEF Raise, Continue
<1>3. n \in Packet /\ n.at = "record"
  BY <1>1, Before DEF Packet, Place
<1> HIDE DEF n
<1>q. QED
  BY <1>1, <1>2, <1>3, TellHeld

LEMMA RecordHeld ==
    ASSUME Inv, NEW r \in Reader, Record(r)
    PROVE  UNCHANGED mode /\ InlineStep(r)
<1>1. call' = [call EXCEPT ![r] = Idle] /\ verdict' = [verdict EXCEPT ![r] = "none"]
      /\ UNCHANGED <<mode, alive>> /\ At(r, "record")
  BY DEF Record, Continue
<1>2. "record" \in Place
  BY DEF Place
<1>3. HeldBy(r) \in {"passed", "stopped"}
  BY <1>1, <1>2, HeldAt
<1>4. Moved(r, HeldBy(r), "none")
  BY <1>1, ReaderMoves DEF Fate
<1>q. QED
  BY <1>1, <1>3, <1>4 DEF InlineStep, At

(* Only a dying reader leaves, and it changes nothing else.                 *)
OthersAlive ==
    \/ UNCHANGED alive
    \/ UNCHANGED mode /\ \E r \in Reader : alive' = alive \ {r}

(* The dashboard, the sweeper and a dying reader change no packet's fate.   *)
LEMMA OthersHeld ==
    ASSUME Inv,
           \/ \E r \in Reader : ReaderStops(r)
           \/ \E m \in Mode : SetMode(m)
           \/ \E on \in BOOLEAN : SetAutoBlock(on)
           \/ \E ip \in Address : ManualBlock(ip) \/ Lift(ip)
           \/ \E gone \in SUBSET Address : KernelLapse(gone)
           \/ UNCHANGED vars
    PROVE  UNCHANGED Held /\ mode' \in Mode /\ OthersAlive
<1>1. mode' \in Mode /\ UNCHANGED verdict /\ OthersAlive
  BY DEF OthersAlive, ReaderStops, SetMode, SetAutoBlock, ManualBlock, Lift, KernelLapse, vars, Inv, TypeOK
<1>2. ASSUME NEW q \in Reader
      PROVE  (call'[q] = Idle <=> call[q] = Idle) /\ call'[q].at = call[q].at
  <2>1. CASE UNCHANGED call
    BY <2>1
  <2>2. CASE \E m \in Mode : SetMode(m)
    <3>1. PICK m \in Mode : SetMode(m)
      BY <2>2
    <3>2. call'[q] = IF call[q] = Idle THEN Idle ELSE [call[q] EXCEPT !.met = @ \cup {m}]
      BY <3>1 DEF SetMode
    <3>3. call[q] \in Packet \cup {Idle}
      BY DEF Inv, TypeOK
    <3>4. CASE call[q] \in Packet
      <4>1. [call[q] EXCEPT !.met = @ \cup {m}] \in Packet
            /\ [call[q] EXCEPT !.met = @ \cup {m}].at = call[q].at
        BY <3>4, MetFacts
      <4>q. QED
        BY <3>2, <4>1, <3>4, PacketFacts
    <3>q. QED
      BY <3>2, <3>3, <3>4
  <2>3. CASE \E ip \in Address : Lift(ip)
    <3>1. PICK ip \in Address : Lift(ip)
      BY <2>3
    <3>2. call'[q] = IF call[q] # Idle /\ PeerOf[call[q].flow] = ip
                     THEN [call[q] EXCEPT !.listed = FALSE] ELSE call[q]
      BY <3>1 DEF Lift
    <3>3. call[q] \in Packet \cup {Idle}
      BY DEF Inv, TypeOK
    <3>q. QED
      BY <3>1, <3>2, <3>3, UnlistedFacts, PacketFacts
  <2>q. QED
    BY <2>1, <2>2, <2>3 DEF ReaderStops, SetAutoBlock, ManualBlock, KernelLapse, vars
<1>3. ASSUME NEW q \in Reader
      PROVE  HeldBy(q)' = HeldBy(q)
  <2>1. verdict'[q] = verdict[q]
    BY <1>1
  <2>q. QED
    BY <2>1, <1>2 DEF HeldBy
<1>q. QED
  BY <1>1, <1>3, HeldSame

LEMMA NextHeld ==
    ASSUME Inv, [Next]_vars
    PROVE  \/ UNCHANGED Held /\ mode' \in Mode /\ OthersAlive
           \/ UNCHANGED mode /\ \E r \in Reader : InlineStep(r)
<1>1. mode \in Mode
  BY DEF Inv, TypeOK
<1>q. QED
  BY <1>1, QueueHeld, DecideHeld, GiveVerdictHeld, RaiseHeld, RecordHeld, OthersHeld
     DEF Next, Work, OthersAlive

(* Inline without its fairness.                                             *)
FilterSafety == Filter!Init /\ [][Filter!Next]_(Filter!vars)

(* Engine implements Inline's safety: a packet is held, passed or stopped,  *)
(* then released, and it is stopped only if enforce mode was in force at a  *)
(* moment while it was held (_handle(), whose drop may follow a change of   *)
(* the mode).                                                               *)
THEOREM Refinement == Spec => FilterSafety
<1>1. Init => Filter!Init
  BY DEF Init, Filter!Init, Mode, HeldBy
<1>2. ASSUME Inv, [Next]_vars
      PROVE  [Filter!Next]_(Filter!vars)
  BY <1>2, NextHeld DEF InlineStep, OthersAlive, Moved, Held, Mode, Filter!Next, Filter!vars, Filter!Take,
     Filter!Pass, Filter!Condemn, Filter!Stop, Filter!Release, Filter!Move, Filter!SetMode,
     Filter!Leave
<1>q. QED
  BY <1>1, <1>2, Invariance, PTL DEF Spec, FilterSafety

===============================================================================
