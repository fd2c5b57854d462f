------------------------------ MODULE MCPackets ------------------------------
(* An instance of Packets for TLC: two addresses and four ports; packets at  *)
(* and below the sizes parse() asks for, with and without IPv4 options, and  *)
(* every conversation between the two addresses, with themselves included.   *)
EXTENDS Packets

Hosts == {1, 2}
Ports == 0..3

Ip(version, ihl, protocol, transport, src, dst, sport, dport, flags) ==
    [version |-> version, ihl |-> ihl, size |-> ihl * 4 + transport,
     transport |-> transport, protocol |-> protocol, src |-> src, dst |-> dst,
     sport |-> sport, dport |-> dport, flags |-> flags]

Header == {<<4, 5>>, <<4, 6>>, <<6, 10>>}

Sized == {Ip(h[1], h[2], protocol, transport, 1, 2, 1, 3, {"SYN", "RST"}) :
            h \in Header, protocol \in {1, 6, 17, 58, 47},
            transport \in {0, 7, 8, 13, 14}}

Conversations == {Ip(4, 5, protocol, 20, src, dst, sport, dport, {"ACK"}) :
                    protocol \in {6, 17}, src \in Hosts, dst \in Hosts,
                    sport \in {0, 1, 2}, dport \in {0, 1, 2}}

Pings == {Ip(4, 5, 1, 8, src, dst, 0, 0, {}) : src \in Hosts, dst \in Hosts}

CutTo(packet, size) == [packet EXCEPT !.size = size, !.transport = 0]
Cut == {CutTo(Ip(4, 5, 6, 20, 1, 2, 1, 3, {}), size) : size \in {0, 3, 19}}
       \cup {CutTo(Ip(6, 10, 6, 20, 1, 2, 1, 3, {}), 39),
             Ip(7, 5, 6, 20, 1, 2, 1, 3, {})}

Delivered == Sized \cup Conversations \cup Pings \cup Cut

Lists == {<<>>, <<<<1>>>>, <<<<1, 2>>>>, <<<<2, 1>>>>, <<<<3>>, <<0>>>>,
          <<<<2>>, <<>>>>}

Editable ==
    [enabled |-> BOOLEAN,
     direction |-> {"any", "in"},
     protocol |-> {"any", "tcp", "icmp"},
     src |-> {Anywhere, {1}, {}},
     dst |-> {Anywhere, {1}},
     src_ports |-> {<<>>, <<<<1>>, <<2, 3>>>>},
     dst_ports |-> Lists]
===============================================================================
