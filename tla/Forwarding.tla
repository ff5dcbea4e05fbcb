------------------------------ MODULE Forwarding ------------------------------
(***************************************************************************)
(* The router's data path (sr_router.c): what handle_ip_packet does with a *)
(* packet, up to the point where a frame is handed to the ARP request      *)
(* queue.  Everything here is a function of the packet, the routing table  *)
(* and the interface list, which no packet changes.                        *)
(*                                                                         *)
(* A C pointer that may be NULL is a set with at most one element.         *)
(***************************************************************************)
EXTENDS Naturals, Sequences

CONSTANTS
    IP,         \* IP addresses
    NoIP,       \* the address 0, "unknown" to send_icmp_error and in rt->gw
    Id,         \* names of the received packets (they stand for the payload)
    Iface,      \* interface names
    rtable,     \* sr->routing_table: a sequence of [dest, gw, iface]
    ifip        \* sr->if_list: the IP address of every known interface

RtEntry == [dest : IP, gw : IP \cup {NoIP}, iface : Iface]

ASSUME ForwardingAssumption ==
    /\ NoIP \notin IP
    /\ rtable \in Seq(RtEntry)
    /\ DOMAIN ifip \subseteq Iface
    /\ \A i \in DOMAIN ifip : ifip[i] \in IP

INIT_TTL == 255

\* What the length, checksum and protocol tests of handle_ip_packet tell
\* apart: too short, bad IP checksum, ICMP echo request, ICMP echo request
\* with a bad ICMP checksum, other ICMP, and everything else.
PacketKind == {"runt", "badsum", "echo", "badecho", "icmp", "other"}

\* A received IP packet: its name, the interface it came in on and the
\* fields of its header the router reads.
Packet == [id : Id, in : Iface, src : IP, dst : IP, ttl : 0..255,
           kind : PacketKind]

ErrorKind == {"time_exceeded", "net_unreachable", "host_unreachable"}

FrameKind == {"forwarded", "echo_reply"} \cup ErrorKind

\* An IP frame the router itself puts together.  An error frame quotes the
\* packet or frame it is about; "about" keeps that one's kind.
Frame == [kind : FrameKind, id : Id, src : IP, dst : IP, ttl : 0..255,
          about : {"none"} \cup PacketKind \cup FrameKind]

\* struct sr_packet: a frame on the queue, with its next hop and interface.
QueuedPacket == [buf : Frame, nh : IP, iface : Iface]

-----------------------------------------------------------------------------
\* The first entry whose destination is exactly ip.
rt_exact_match(ip) ==
    {i \in DOMAIN rtable : /\ rtable[i].dest = ip
                           /\ \A j \in 1..(i - 1) : rtable[j].dest # ip}

sr_get_interface(name) == {name} \cap DOMAIN ifip

OwnIP == {ifip[i] : i \in DOMAIN ifip}

\* The address handle_ip_packet passes to send_icmp_error.
InterfaceIP(name) == IF name \in DOMAIN ifip THEN ifip[name] ELSE NoIP

\* Mutant: the table's gateway even where it says "directly attached".
NextHop_NoFallback(rt, f) == rt.gw

NextHop(rt, f) == IF rt.gw = NoIP THEN f.dst ELSE rt.gw

\* What route_and_send queues for frame f: nothing (it returns -1) if there
\* is no route or the route's interface is unknown.
route_and_send(f) ==
    {[buf |-> f, nh |-> NextHop(rtable[i], f), iface |-> rtable[i].iface] :
        i \in {k \in rt_exact_match(f.dst) :
                    sr_get_interface(rtable[k].iface) # {}}}

\* The source address of an error whose incoming interface is not known: the
\* address of the interface on the route back to the sender.
ReturnIP(ip) ==
    {ifip[rtable[i].iface] : i \in {k \in rt_exact_match(ip) :
                                        rtable[k].iface \in DOMAIN ifip}}

\* Mutant: the error claims to come from the host that was not reached.
send_icmp_error_FromTarget(kind, orig, srcIP) ==
    route_and_send([kind |-> kind, id |-> orig.id, src |-> orig.dst,
                    dst |-> orig.src, ttl |-> INIT_TTL, about |-> orig.kind])

send_icmp_error(kind, orig, srcIP) ==
    UNION {route_and_send([kind |-> kind, id |-> orig.id, src |-> a,
                           dst |-> orig.src, ttl |-> INIT_TTL,
                           about |-> orig.kind]) :
             a \in IF srcIP = NoIP THEN ReturnIP(orig.src) ELSE {srcIP}}

\* Mutant: the addresses are not swapped.
send_icmp_echo_reply_NoSwap(p) ==
    route_and_send([kind |-> "echo_reply", id |-> p.id, src |-> p.src,
                    dst |-> p.dst, ttl |-> INIT_TTL, about |-> "none"])

send_icmp_echo_reply(p) ==
    route_and_send([kind |-> "echo_reply", id |-> p.id, src |-> p.dst,
                    dst |-> p.src, ttl |-> INIT_TTL, about |-> "none"])

\* Mutant: the TTL is forgotten.
forward_KeepsTtl(p) ==
    route_and_send([kind |-> "forwarded", id |-> p.id, src |-> p.src,
                    dst |-> p.dst, ttl |-> p.ttl, about |-> "none"])

\* The private copy that handle_ip_packet forwards.
forward(p) ==
    route_and_send([kind |-> "forwarded", id |-> p.id, src |-> p.src,
                    dst |-> p.dst, ttl |-> p.ttl - 1, about |-> "none"])

\* Mutant: a packet is forwarded once too often.
Expires_AtZero(p) == p.ttl = 0

\* "TTL would hit zero on the next hop".
Expires(p) == p.ttl <= 1

\* What a received packet makes the router queue: at most one frame.
handle_ip_packet(p) ==
    LET error(kind) == send_icmp_error(kind, p, InterfaceIP(p.in))
    IN  IF p.kind \in {"runt", "badsum"} THEN {}
        ELSE IF p.dst \in OwnIP
             THEN IF p.kind = "echo" THEN send_icmp_echo_reply(p) ELSE {}
        ELSE IF Expires(p) THEN error("time_exceeded")
        ELSE IF forward(p) # {} THEN forward(p)
        ELSE error("net_unreachable")
=============================================================================
