------------------------------- MODULE Packets -------------------------------
(***************************************************************************)
(* From the bytes of a packet to the rule that matches it: fwcore/packet.py *)
(* reads the headers, fwcore/rules.py compiles what a rule says and tests   *)
(* it, and fwcore/conntrack.py names the flow the packet belongs to.  A     *)
(* rule may be edited between the parsing of a packet and its judgement.    *)
(*                                                                         *)
(* A packet is the fields its headers carry and the bytes that are there.   *)
(* An address is a number, its place in the order of the texts; what only   *)
(* the display and the model's features use (length, TTL, payload, ICMP     *)
(* type) is left out.                                                       *)
(***************************************************************************)
EXTENDS Integers, Sequences, SequencesExt, FiniteSets

CONSTANTS
    Raw,        \* the packets the queues deliver
    Choice,     \* what each field of a rule may be set to
    Address,    \* addresses
    Port,       \* port numbers
    NoAddress,  \* the empty text of an address that was not read
    NoPacket    \* a reader that holds no packet

Direction == {"in", "out"}

(* A rule's address is the set of addresses it covers: "any" covers also    *)
(* the one that was not read, and a text that is no network covers none.    *)
Anywhere == Address \cup {NoAddress}

(* A port list has one item per part: <<p>>, <<low, high>>, or <<>> for one *)
(* that is no number; "any" is the list without items.                      *)
Open == [enabled |-> TRUE, direction |-> "any", protocol |-> "any",
         src |-> Anywhere, dst |-> Anywhere, src_ports |-> <<>>, dst_ports |-> <<>>]

(* ihl counts words as on the wire, and is 10 for IPv6, whose header always *)
(* has 40 bytes; transport counts the bytes behind the IP header: none when *)
(* the packet is cut before its end.  A cut inside the IPv4 options is one  *)
(* the kernel drops before the queue, and no test feeds.                    *)
ASSUME PacketsAssumption ==
    /\ Address \subseteq Nat /\ NoAddress \in Nat \ Address
    /\ Port \subseteq Nat /\ 0 \in Port
    /\ DOMAIN Choice = DOMAIN Open
    /\ NoPacket \notin Raw
    /\ Choice.enabled \subseteq BOOLEAN /\ "unread" \notin Choice.protocol
    /\ \A net \in Choice.src \cup Choice.dst : net = Anywhere \/ net \subseteq Address
    /\ \A spec \in Choice.src_ports \cup Choice.dst_ports :
          spec \in Seq(Seq(Nat))
    /\ \A r \in Raw :
        /\ r.src \in Address /\ r.dst \in Address
        /\ r.sport \in Port /\ r.dport \in Port
        /\ r.ihl \in 5..15 /\ (r.version = 6 => r.ihl = 10)
        /\ r.size \in Nat /\ r.transport \in Nat
        /\ \/ r.size = r.ihl * 4 + r.transport
           \/ r.transport = 0 /\ r.size < (IF r.version = 6 THEN 40 ELSE 20)

VARIABLES
    raw,       \* the packet a reader holds
    info,      \* what parse() made of it, with the direction of its queue
    rule,      \* a rule as it is stored and shown
    compiled   \* its networks and port ranges

packetVars == <<raw, info, rule, compiled>>

-----------------------------------------------------------------------------
(* Mutants.                                                                 *)

NoOptions(r) == IF r.version = 4 THEN 20 ELSE 40
BelowHigh(port, range) == range[1] <= port /\ port < range[2]
ByAddress(a, b) == a[1] <= b[1]

-----------------------------------------------------------------------------
(* packet.py: the bytes.                                                    *)

proto_name(number) ==
    CASE number = 1 -> "icmp" [] number = 6 -> "tcp" [] number = 17 -> "udp"
      [] number = 58 -> "icmpv6" [] OTHER -> "other"

(* What parse() starts from, and returns when there is no whole IP header;  *)
(* "unread" stands for the empty name of a protocol.                        *)
Malformed == [protocol |-> 0, proto |-> "unread", src |-> NoAddress, dst |-> NoAddress,
              sport |-> 0, dport |-> 0, flags |-> {}, direction |-> "in",
              malformed |-> TRUE]

HeaderEnd(r) == IF r.version = 4 THEN r.ihl * 4 ELSE 40

HeaderRead(r) ==
    \/ r.version = 4 /\ r.size >= 20
    \/ r.version = 6 /\ r.size >= 40

(* _parse_l4(): the transport header, or as much of it as is needed.        *)
PortsRead(r) ==
    \/ r.protocol = 6 /\ r.size - HeaderEnd(r) >= 14
    \/ r.protocol = 17 /\ r.size - HeaderEnd(r) >= 8

Parse(r) ==
    IF ~HeaderRead(r) THEN Malformed
    ELSE [protocol |-> r.protocol, proto |-> proto_name(r.protocol),
          src |-> r.src, dst |-> r.dst,
          sport |-> IF PortsRead(r) THEN r.sport ELSE 0,
          dport |-> IF PortsRead(r) THEN r.dport ELSE 0,
          flags |-> IF PortsRead(r) /\ r.protocol = 6 THEN r.flags ELSE {},
          direction |-> "in", malformed |-> FALSE]

IsSynOnly(pkt) == pkt.protocol = 6 /\ "SYN" \in pkt.flags /\ "ACK" \notin pkt.flags

-----------------------------------------------------------------------------
(* conntrack.py: the flow of a packet.                                      *)

(* Python's order of two (address, port) pairs.                             *)
AtMost(a, b) == a[1] < b[1] \/ (a[1] = b[1] /\ a[2] <= b[2])

FlowKey(pkt) ==
    IF AtMost(<<pkt.src, pkt.sport>>, <<pkt.dst, pkt.dport>>)
    THEN <<pkt.protocol, pkt.src, pkt.sport, pkt.dst, pkt.dport>>
    ELSE <<pkt.protocol, pkt.dst, pkt.dport, pkt.src, pkt.sport>>

Closes(pkt) == pkt.protocol = 6 /\ pkt.flags \cap {"RST", "FIN"} # {}

-----------------------------------------------------------------------------
(* rules.py: what a rule says.                                              *)

ParsePorts(spec) == [i \in DOMAIN spec |-> <<spec[i][1], Last(spec[i])>>]

(* compile() raises on a text that is no network and on one that is no port.*)
Compiles(r) ==
    /\ r.src # {} /\ r.dst # {}
    /\ \A item \in Range(r.src_ports) \cup Range(r.dst_ports) : item # <<>>

Compile(r) ==
    [src |-> r.src, dst |-> r.dst,
     src_ports |-> ParsePorts(r.src_ports), dst_ports |-> ParsePorts(r.dst_ports)]

InRange(port, range) == range[1] <= port /\ port <= range[2]

PortMatches(port, ranges) ==
    ranges = <<>> \/ \E range \in Range(ranges) : InRange(port, range)

Matches(r, c, pkt) ==
    /\ r.enabled
    /\ r.direction \in {"any", pkt.direction}
    /\ r.protocol \in {"any", pkt.proto}
    /\ pkt.src \in c.src /\ pkt.dst \in c.dst
    /\ IF pkt.protocol \in {6, 17}
       THEN PortMatches(pkt.sport, c.src_ports) /\ PortMatches(pkt.dport, c.dst_ports)
       ELSE c.src_ports = <<>> /\ c.dst_ports = <<>>

-----------------------------------------------------------------------------
(* A reader and the dashboard.                                              *)

PacketInit ==
    /\ raw = NoPacket
    /\ info = NoPacket
    /\ rule = Open
    /\ compiled = Compile(Open)

Receive(r, d) ==
    /\ raw = NoPacket
    /\ raw' = r
    /\ info' = [Parse(r) EXCEPT !.direction = d]
    /\ UNCHANGED <<rule, compiled>>

(* The rule is put in place only when it compiles.                          *)
UpdateField(field, value) ==
    LET merged == [rule EXCEPT ![field] = value]
    IN  /\ Compiles(merged)
        /\ rule' = merged
        /\ compiled' = Compile(merged)
        /\ UNCHANGED <<raw, info>>

Judged ==
    /\ raw # NoPacket
    /\ raw' = NoPacket
    /\ info' = NoPacket
    /\ UNCHANGED <<rule, compiled>>

PacketNext ==
    \/ \E r \in Raw, d \in Direction : Receive(r, d)
    \/ \E field \in DOMAIN Choice : \E value \in Choice[field] : UpdateField(field, value)
    \/ Judged

PacketSpec == PacketInit /\ [][PacketNext]_packetVars

-----------------------------------------------------------------------------
(* Properties.                                                              *)

(* What is there, whatever was read: the transport header of TCP has the    *)
(* flags in its 14th byte, the one of UDP has 8 bytes.                      *)
HeaderThere(r) == r.version \in {4, 6} /\ r.size >= r.ihl * 4
Carries(r) == r.transport >= (IF r.protocol = 6 THEN 14 ELSE 8)
HasPorts(r) == r.protocol \in {6, 17}
Ends(r) == {<<r.src, r.sport>>, <<r.dst, r.dport>>}

(* The ports a list names.                                                  *)
Named(spec) ==
    IF spec = <<>> THEN Port ELSE UNION {item[1]..Last(item) : item \in Range(spec)}

(* A rule matches what it says: for a packet with all of its headers, the   *)
(* answer of the compiled rule on the parsed packet is what the stored rule *)
(* says of the packet on the wire, also when the rule was edited while the  *)
(* packet waited and when an edit was refused.                              *)
MatchesAsWritten ==
    (raw # NoPacket /\ HeaderThere(raw) /\ (HasPorts(raw) => Carries(raw))) =>
        (Matches(rule, compiled, info) <=>
            /\ rule.enabled
            /\ rule.direction \in {"any", info.direction}
            /\ rule.protocol \in {"any", proto_name(raw.protocol)}
            /\ raw.src \in rule.src /\ raw.dst \in rule.dst
            /\ IF HasPorts(raw)
               THEN raw.sport \in Named(rule.src_ports) /\ raw.dport \in Named(rule.dst_ports)
               ELSE rule.src_ports = <<>> /\ rule.dst_ports = <<>>)

(* Nothing is made up about what could not be read: a packet without its    *)
(* transport header neither opens nor closes a connection, and is matched   *)
(* only by rules whose ports are open or hold 0; one without its IP header  *)
(* only by rules that ask for nothing but a direction.                      *)
UnreadIsUnmatched ==
    (raw # NoPacket /\ ~(HeaderThere(raw) /\ Carries(raw) /\ HasPorts(raw))) =>
        /\ ~IsSynOnly(info) /\ ~Closes(info)
        /\ Matches(rule, compiled, info) =>
            /\ 0 \in Named(rule.src_ports) /\ 0 \in Named(rule.dst_ports)
            /\ HeaderThere(raw) \/
               \A field \in DOMAIN Open \ {"direction"} : rule[field] = Open[field]

(* The connection table files a packet and its answer under one flow, and   *)
(* two packets under one flow only if they have the protocol and the hosts  *)
(* in common and, where both carry ports, the ports.                        *)
OneFlowBothWays ==
    \A other \in Raw :
        (raw # NoPacket /\ HeaderThere(raw) /\ HeaderThere(other)
         /\ (HasPorts(raw) => Carries(raw)) /\ (HasPorts(other) => Carries(other))) =>
            (FlowKey(info) = FlowKey(Parse(other)) <=>
                /\ raw.protocol = other.protocol
                /\ IF HasPorts(raw) THEN Ends(raw) = Ends(other)
                   ELSE {raw.src, raw.dst} = {other.src, other.dst})

-----------------------------------------------------------------------------
(* Claims of the documents the code does not keep.                          *)

(* packet.py:16-17, a truncated packet "just comes back with whatever could *)
(* be read and `malformed=True`".                                           *)
TruncatedIsMarked ==
    (raw # NoPacket /\ ~(HeaderThere(raw) /\ (HasPorts(raw) => Carries(raw))))
        => info.malformed
===============================================================================
