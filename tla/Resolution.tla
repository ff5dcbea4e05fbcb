------------------------------ MODULE Resolution ------------------------------
(***************************************************************************)
(* ARP between routers that all run this code (sr_router.c): one asks for  *)
(* the hardware address of a next hop, the others answer, and the frames   *)
(* that waited are sent.  Messages may be lost, delayed and duplicated,    *)
(* and a link shows every frame to every interface on it.                  *)
(*                                                                         *)
(* The steps of a router are atomic here; how its two threads interleave   *)
(* on the request queue is the subject of ArpQueue.                        *)
(***************************************************************************)
EXTENDS Naturals, FiniteSets

CONSTANTS
    Iface,      \* the interfaces of all routers
    router,     \* router[i]: the router interface i belongs to
    link,       \* link[i]: the link it is attached to
    Packets,    \* IP packets that are to be sent: [id, iface, nh]
    MaxTries    \* the 5 of handle_arpreq

Router == {router[i] : i \in Iface}

ASSUME ResolutionAssumption ==
    /\ DOMAIN router = Iface
    /\ DOMAIN link = Iface
    /\ \A p \in Packets : p.iface \in Iface
    /\ MaxTries \in Nat \ {0}

\* Every interface has an IP address and a hardware address of its own; what
\* they look like does not matter.
IPof(i) == <<"ip", i>>

MacOf(i) == <<"mac", i>>

Broadcast == <<"mac", "all">>

VARIABLES
    waiting,   \* waiting[r]: the packets on the request queue of router r
    times,     \* times[r][a]: times_sent of the request of r for address a
    frames,    \* the frames that were ever put on a link
    packets    \* the packets still to be routed

vars == <<waiting, times, frames, packets>>

Init ==
    /\ waiting = [r \in Router |-> {}]
    /\ times = [r \in Router |-> [i \in Iface |-> 0]]
    /\ frames = {}
    /\ packets = Packets

\* The interface that owns address a (addresses are unique).
Owner(a) == CHOOSE i \in Iface : IPof(i) = a

\* sr_send_packet puts a frame on the link of its interface if the source
\* address is that of the interface.
Put(i, f) == IF f.shost = MacOf(i) THEN {f} ELSE {}

send_arp_request(i, target) ==
    Put(i, [type |-> "request", link |-> link[i], shost |-> MacOf(i),
            dhost |-> Broadcast, sha |-> MacOf(i), sip |-> IPof(i),
            tip |-> target])

send_arp_reply(i, arp) ==
    Put(i, [type |-> "reply", link |-> link[i], shost |-> MacOf(i),
            dhost |-> arp.sha, sha |-> MacOf(i), sip |-> IPof(i),
            tip |-> arp.sip])

-----------------------------------------------------------------------------
\* route_and_send: the packet joins the request for its next hop, or a new
\* one, for which an ARP request goes out at once.  (For an old one that is
\* due handle_arpreq does what Retry does.)
RouteAndSend(p) ==
    LET r == router[p.iface]
        new == \A q \in waiting[r] : q.nh # p.nh
    IN  /\ p \in packets
        /\ packets' = packets \ {p}
        /\ waiting' = [waiting EXCEPT ![r] = @ \cup {p}]
        /\ frames' = frames \cup (IF new THEN send_arp_request(p.iface, IPof(p.nh)) ELSE {})
        /\ times' = [times EXCEPT ![r][p.nh] = IF new THEN 1 ELSE @]

\* handle_arpreq, once a second: ask again, or give up.  The errors that
\* giving up sends are the subject of Network.
Retry(r, a) ==
    LET for == {p \in waiting[r] : p.nh = a} IN
    /\ for # {}
    /\ \/ /\ times[r][a] < MaxTries
          /\ \E p \in for : frames' = frames \cup send_arp_request(p.iface, IPof(a))
          /\ times' = [times EXCEPT ![r][a] = @ + 1]
          /\ UNCHANGED waiting
       \/ /\ times[r][a] >= MaxTries
          /\ waiting' = [waiting EXCEPT ![r] = @ \ for]
          /\ times' = [times EXCEPT ![r][a] = 0]
          /\ UNCHANGED frames
    /\ UNCHANGED packets

\* Mutant: a router answers for all of its addresses.
ForUs_AnyInterface(i, arp) == \E j \in Iface : router[j] = router[i] /\ arp.tip = IPof(j)

\* sr_arp_req_not_for_us, and the same test in handle_arp_packet.
ForUs(i, arp) == arp.tip = IPof(i)

\* handle_arp_packet for a request that interface i sees.
HandleRequest(i, arp) ==
    /\ arp \in frames
    /\ arp.type = "request"
    /\ arp.link = link[i]
    /\ ForUs(i, arp)
    /\ frames' = frames \cup send_arp_reply(i, arp)
    /\ UNCHANGED <<waiting, times, packets>>

\* Mutant: the destination is the target of the reply, not its sender.
Address_Target(p, arp) ==
    [type |-> "ip", link |-> link[p.iface], shost |-> MacOf(p.iface),
     dhost |-> arp.dhost, packet |-> p]

\* A queued packet with both of its addresses filled in.
Address(p, arp) ==
    [type |-> "ip", link |-> link[p.iface], shost |-> MacOf(p.iface),
     dhost |-> arp.sha, packet |-> p]

\* handle_arp_packet for a reply, whoever it was meant for: the packets that
\* wait for the address are sent.
HandleReply(i, arp) ==
    LET r == router[i]
        drained == {p \in waiting[r] : IPof(p.nh) = arp.sip}
    IN  /\ arp \in frames
        /\ arp.type = "reply"
        /\ arp.link = link[i]
        /\ waiting' = [waiting EXCEPT ![r] = @ \ drained]
        /\ frames' = frames \cup UNION {Put(p.iface, Address(p, arp)) : p \in drained}
        /\ times' = [times EXCEPT ![r][Owner(arp.sip)] = 0]
        /\ UNCHANGED packets

Next ==
    \/ \E p \in Packets : RouteAndSend(p)
    \/ \E r \in Router, a \in Iface : Retry(r, a)
    \/ \E i \in Iface, f \in frames : HandleRequest(i, f) \/ HandleReply(i, f)

Spec == Init /\ [][Next]_vars

-----------------------------------------------------------------------------
(* Properties.                                                             *)

\* A configuration in which a router that has an interface on the link of a
\* next hop sends to it over that link.  Nothing in the code checks this of
\* the routing table; without it a router can overhear, on one interface, the
\* answer to another router's request, and send the packets that wait for
\* that address out of another interface.
RoutesAreLocal ==
    \A p \in Packets, i \in Iface :
        router[i] = router[p.iface] /\ link[i] = link[p.nh]
            => link[p.iface] = link[p.nh]

\* An IP frame goes to the interface that owns its next hop and names its own
\* interface as the source, although replies may be old, repeated or meant
\* for others, and although a router drains its queue whatever interface the
\* reply came in on.
FramesReachNextHop ==
    \A f \in frames : f.type = "ip" =>
        /\ f.dhost = MacOf(f.packet.nh)
        /\ f.shost = MacOf(f.packet.iface)
        /\ f.link = link[f.packet.nh]

\* A packet that was sent is gone from every queue, and every answer was
\* asked for, on its link, by the one it goes to: nobody answers for an
\* address that is not that of the interface that was asked.
AnswersWereAskedFor ==
    \A f \in frames :
        /\ f.type = "ip" => f.packet \notin UNION {waiting[r] : r \in Router}
        /\ f.type = "reply" =>
             \E g \in frames : /\ g.type = "request"
                               /\ g.link = f.link
                               /\ g.tip = f.sip
                               /\ g.sha = f.dhost
=============================================================================
