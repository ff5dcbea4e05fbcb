--------------------------- MODULE ResolutionProofs ---------------------------
(***************************************************************************)
(* ARP between any number of routers, interfaces, links and packets: every *)
(* answer was asked for, no packet is sent and still queued, and the       *)
(* frames that a reply releases reach the next hop.                        *)
(***************************************************************************)
EXTENDS Resolution, TLAPS

\* A packet is still to be routed, or waits at the router that routed it, or
\* was sent, and never two of these.
PacketInv ==
    /\ packets \subseteq Packets
    /\ waiting \in [Router -> SUBSET Packets]
    /\ \A r \in Router : \A p \in waiting[r] : r = router[p.iface] /\ p \notin packets
    /\ \A f \in frames : f.type = "ip" =>
          /\ f.packet \in Packets
          /\ f.packet \notin packets
          /\ \A r \in Router : f.packet \notin waiting[r]

\* What is known of a frame when fs is the set of frames ever sent: a reply
\* states the addresses of the interface that was asked, and stays on the link
\* of the one that asked; an IP frame goes to its next hop, and its router has
\* an interface on the link of the next hop.
FrameOK(f, fs) ==
    /\ f.type \in {"request", "reply", "ip"}
    /\ f.type = "reply" =>
         \E i \in Iface, g \in fs :
            /\ f.sha = MacOf(i) /\ f.sip = IPof(i) /\ f.link = link[i]
            /\ g.type = "request" /\ g.link = link[i]
            /\ g.tip = IPof(i) /\ g.sha = f.dhost
    /\ f.type = "ip" =>
         /\ f.dhost = MacOf(f.packet.nh)
         /\ f.shost = MacOf(f.packet.iface)
         /\ f.link = link[f.packet.iface]
         /\ \E i \in Iface : /\ router[i] = router[f.packet.iface]
                             /\ link[i] = link[f.packet.nh]

FrameInv == \A f \in frames : FrameOK(f, frames)

\* The inductive invariant.
Inv == PacketInv /\ FrameInv

\* Addresses of different interfaces are different.
LEMMA AddressesUnique ==
    \A i, j : IPof(i) = IPof(j) => i = j
BY DEF IPof

\* The frames of handle_arpreq and of a reply carry the address of the
\* interface they leave through, so sr_send_packet accepts them.
LEMMA ArpFrames ==
    ASSUME NEW i \in Iface
    PROVE  /\ \A t : send_arp_request(i, t) =
                {[type |-> "request", link |-> link[i], shost |-> MacOf(i),
                  dhost |-> Broadcast, sha |-> MacOf(i), sip |-> IPof(i), tip |-> t]}
           /\ \A g : send_arp_reply(i, g) =
                {[type |-> "reply", link |-> link[i], shost |-> MacOf(i),
                  dhost |-> g.sha, sha |-> MacOf(i), sip |-> IPof(i), tip |-> g.sip]}
BY DEF send_arp_request, send_arp_reply, Put

\* FrameInv survives the loss of no frame and the arrival of ARP requests.
LEMMA RequestsKeepFrames ==
    ASSUME FrameInv, NEW i \in Iface, NEW t,
           frames' = frames \cup send_arp_request(i, t)
    PROVE  /\ FrameInv'
           /\ \A f \in frames' : f.type = "ip" => f \in frames
<1> DEFINE q == [type |-> "request", link |-> link[i], shost |-> MacOf(i),
                 dhost |-> Broadcast, sha |-> MacOf(i), sip |-> IPof(i), tip |-> t]
<1>1. frames' = frames \cup {q}
  BY ArpFrames
<1>2. q.type = "request"
  OBVIOUS
<1> HIDE DEF q
<1>3. \A f \in frames' : f.type = "ip" => f \in frames
  BY <1>1, <1>2
<1>4. FrameInv'
  <2> SUFFICES ASSUME NEW f \in frames'
               PROVE  FrameOK(f, frames')
    BY DEF FrameInv
  <2>1. CASE f = q
    BY <1>2, <2>1 DEF FrameOK
  <2>2. CASE f \in frames
    BY <1>1, <2>2 DEF FrameInv, FrameOK
  <2> QED  BY <1>1, <2>1, <2>2
<1> QED  BY <1>3, <1>4

\* Steps that send no frame keep what is known of the frames.
LEMMA SameFramesKeep ==
    ASSUME FrameInv, frames' = frames
    PROVE  FrameInv'
BY DEF FrameInv

\* The invariant holds at the start.
LEMMA InvInit == Init => Inv
BY ResolutionAssumption DEF Init, Inv, PacketInv, FrameInv

\* route_and_send.
LEMMA RouteAndSendKeeps ==
    ASSUME Inv, NEW p \in Packets, RouteAndSend(p)
    PROVE  Inv'
<1> DEFINE r == router[p.iface]
<1>1. p.iface \in Iface /\ r \in Router
  BY ResolutionAssumption DEF Router
<1>2. FrameInv' /\ \A f \in frames' : f.type = "ip" => f \in frames
  <2>1. CASE \A q \in waiting[r] : q.nh # p.nh
    <3>1. frames' = frames \cup send_arp_request(p.iface, IPof(p.nh))
      BY <2>1 DEF RouteAndSend
    <3> QED  BY <1>1, <3>1, RequestsKeepFrames DEF Inv
  <2>2. CASE ~ \A q \in waiting[r] : q.nh # p.nh
    <3>1. frames' = frames
      BY <2>2 DEF RouteAndSend
    <3> QED  BY <3>1, SameFramesKeep DEF Inv
  <2> QED  BY <2>1, <2>2
<1>3. /\ p \in packets
      /\ packets' = packets \ {p}
      /\ waiting' = [waiting EXCEPT ![r] = @ \cup {p}]
  BY DEF RouteAndSend
<1>4. PacketInv'
  <2>1. \A s \in Router : waiting'[s] = IF s = r THEN waiting[s] \cup {p} ELSE waiting[s]
    BY <1>3 DEF Inv, PacketInv
  <2>2. waiting' \in [Router -> SUBSET Packets]
    BY <1>1, <1>3 DEF Inv, PacketInv
  <2>3. \A s \in Router : \A q \in waiting'[s] : s = router[q.iface] /\ q \notin packets'
    BY <1>3, <2>1 DEF Inv, PacketInv
  <2>4. \A f \in frames' : f.type = "ip" =>
          /\ f.packet \in Packets
          /\ f.packet \notin packets'
          /\ \A s \in Router : f.packet \notin waiting'[s]
    BY <1>2, <1>3, <2>1 DEF Inv, PacketInv
  <2> QED  BY <1>3, <2>2, <2>3, <2>4 DEF Inv, PacketInv
<1> QED  BY <1>2, <1>4 DEF Inv

\* handle_arpreq: ask again, or give up.
LEMMA RetryKeeps ==
    ASSUME Inv, NEW r \in Router, NEW a \in Iface, Retry(r, a)
    PROVE  Inv'
<1> DEFINE for == {p \in waiting[r] : p.nh = a}
<1>1. CASE /\ \E p \in for : frames' = frames \cup send_arp_request(p.iface, IPof(a))
           /\ UNCHANGED <<waiting, packets>>
  <2>1. PICK p \in for : frames' = frames \cup send_arp_request(p.iface, IPof(a))
    BY <1>1
  <2>2. p.iface \in Iface
    BY ResolutionAssumption DEF Inv, PacketInv
  <2>3. FrameInv' /\ \A f \in frames' : f.type = "ip" => f \in frames
    BY <2>1, <2>2, RequestsKeepFrames DEF Inv
  <2> QED  BY <1>1, <2>3 DEF Inv, PacketInv
<1>2. CASE /\ waiting' = [waiting EXCEPT ![r] = @ \ for]
           /\ UNCHANGED <<frames, packets>>
  <2>1. FrameInv'
    BY <1>2, SameFramesKeep DEF Inv
  <2>2. waiting' \in [Router -> SUBSET Packets]
    BY <1>2 DEF Inv, PacketInv
  <2>3. \A s \in Router : waiting'[s] \subseteq waiting[s]
    BY <1>2 DEF Inv, PacketInv
  <2> QED  BY <1>2, <2>1, <2>2, <2>3 DEF Inv, PacketInv
<1> QED  BY <1>1, <1>2 DEF Retry

\* handle_arp_packet for a request.
LEMMA HandleRequestKeeps ==
    ASSUME Inv, NEW i \in Iface, NEW arp \in frames, HandleRequest(i, arp)
    PROVE  Inv'
<1> DEFINE q == [type |-> "reply", link |-> link[i], shost |-> MacOf(i),
                 dhost |-> arp.sha, sha |-> MacOf(i), sip |-> IPof(i), tip |-> arp.sip]
<1>1. frames' = frames \cup {q} /\ UNCHANGED <<waiting, packets>>
  BY ArpFrames DEF HandleRequest
<1>2. arp.type = "request" /\ arp.link = link[i] /\ arp.tip = IPof(i)
  BY DEF HandleRequest, ForUs
<1>3. /\ q.type = "reply" /\ q.sha = MacOf(i) /\ q.sip = IPof(i) /\ q.link = link[i]
      /\ q.dhost = arp.sha
  OBVIOUS
<1> HIDE DEF q
<1>4. \A f \in frames' : f.type = "ip" => f \in frames
  BY <1>1, <1>3
<1>5. PacketInv'
  BY <1>1, <1>4 DEF Inv, PacketInv
<1>6. FrameInv'
  <2> SUFFICES ASSUME NEW f \in frames'
               PROVE  FrameOK(f, frames')
    BY DEF FrameInv
  <2>1. CASE f = q
    BY <1>1, <1>2, <1>3, <2>1 DEF FrameOK
  <2>2. CASE f \in frames
    BY <1>1, <2>2 DEF Inv, FrameInv, FrameOK
  <2> QED  BY <1>1, <2>1, <2>2
<1> QED  BY <1>5, <1>6 DEF Inv

\* handle_arp_packet for a reply: what waits for its sender is sent.
LEMMA HandleReplyKeeps ==
    ASSUME Inv, NEW i \in Iface, NEW arp \in frames, HandleReply(i, arp)
    PROVE  Inv'
<1> DEFINE r == router[i]
           drained == {p \in waiting[r] : IPof(p.nh) = arp.sip}
           new == {Address(p, arp) : p \in drained}
<1>1. r \in Router
  BY DEF Router
<1>2. /\ arp.type = "reply" /\ arp.link = link[i]
      /\ waiting' = [waiting EXCEPT ![r] = @ \ drained]
      /\ packets' = packets
  BY DEF HandleReply
<1>3. frames' = frames \cup new
  <2>1. \A p \in drained : Put(p.iface, Address(p, arp)) = {Address(p, arp)}
    BY DEF Put, Address
  <2>2. frames' = frames \cup UNION {Put(p.iface, Address(p, arp)) : p \in drained}
    BY DEF HandleReply
  <2> QED  BY <2>1, <2>2
<1>4. PICK k \in Iface : /\ arp.sha = MacOf(k)
                         /\ arp.sip = IPof(k)
                         /\ arp.link = link[k]
  BY <1>2 DEF Inv, FrameInv, FrameOK
<1>5. \A p \in drained : p \in Packets /\ p.nh = k /\ router[p.iface] = r
  BY <1>1, <1>4, AddressesUnique DEF Inv, PacketInv
<1>6. \A f \in new : /\ f.type = "ip" /\ f.packet \in drained
                     /\ f.dhost = MacOf(f.packet.nh)
                     /\ f.shost = MacOf(f.packet.iface)
                     /\ f.link = link[f.packet.iface]
                     /\ router[i] = router[f.packet.iface]
                     /\ link[i] = link[f.packet.nh]
  BY <1>2, <1>4, <1>5 DEF Address
<1> HIDE DEF new
<1>7. FrameInv'
  <2> SUFFICES ASSUME NEW f \in frames'
               PROVE  FrameOK(f, frames')
    BY DEF FrameInv
  <2>1. CASE f \in new
    BY <1>6, <2>1 DEF FrameOK
  <2>2. CASE f \in frames
    BY <1>3, <2>2 DEF Inv, FrameInv, FrameOK
  <2> QED  BY <1>3, <2>1, <2>2
<1>8. PacketInv'
  <2>1. \A s \in Router : waiting'[s] = IF s = r THEN waiting[s] \ drained ELSE waiting[s]
    BY <1>2 DEF Inv, PacketInv
  <2>2. waiting' \in [Router -> SUBSET Packets]
    BY <1>1, <1>2 DEF Inv, PacketInv
  <2>3. \A s \in Router : \A q \in waiting'[s] : s = router[q.iface] /\ q \notin packets'
    BY <1>2, <2>1 DEF Inv, PacketInv
  <2>4. ASSUME NEW f \in frames', f.type = "ip"
        PROVE  /\ f.packet \in Packets
               /\ f.packet \notin packets'
               /\ \A s \in Router : f.packet \notin waiting'[s]
    <3>1. CASE f \in frames
      BY <1>2, <2>1, <2>4, <3>1 DEF Inv, PacketInv
    <3>2. CASE f \in new
      <4>1. f.packet \in drained
        BY <1>6, <3>2
      <4> QED  BY <1>1, <1>2, <1>5, <2>1, <2>3, <4>1 DEF Inv, PacketInv
    <3> QED  BY <1>3, <2>4, <3>1, <3>2
  <2> QED  BY <1>2, <2>2, <2>3, <2>4 DEF Inv, PacketInv
<1> QED  BY <1>7, <1>8 DEF Inv

\* Every step keeps the invariant.
LEMMA InvNext == Inv /\ [Next]_vars => Inv'
<1> SUFFICES ASSUME Inv, [Next]_vars PROVE Inv'
  OBVIOUS
<1>1. CASE UNCHANGED vars
  BY <1>1 DEF vars, Inv, PacketInv, FrameInv
<1>2. CASE Next
  BY <1>2, RouteAndSendKeeps, RetryKeeps, HandleRequestKeeps, HandleReplyKeeps DEF Next
<1> QED  BY <1>1, <1>2

\* However ARP messages are lost, delayed, repeated or overheard: a packet
\* that was sent is gone from every queue, and a router answers for an
\* address only on the link, and to the interface, that asked for it.
THEOREM AnswersCorrect == Spec => []AnswersWereAskedFor
<1>1. Inv => AnswersWereAskedFor
  <2> SUFFICES ASSUME Inv, NEW f \in frames
               PROVE  /\ f.type = "ip" => f.packet \notin UNION {waiting[r] : r \in Router}
                      /\ f.type = "reply" =>
                           \E g \in frames : /\ g.type = "request"
                                             /\ g.link = f.link
                                             /\ g.tip = f.sip
                                             /\ g.sha = f.dhost
    BY DEF AnswersWereAskedFor
  <2>1. f.type = "ip" => f.packet \notin UNION {waiting[r] : r \in Router}
    BY DEF Inv, PacketInv
  <2>2. ASSUME f.type = "reply"
        PROVE  \E g \in frames : /\ g.type = "request"
                                 /\ g.link = f.link
                                 /\ g.tip = f.sip
                                 /\ g.sha = f.dhost
    BY <2>2 DEF Inv, FrameInv, FrameOK
  <2> QED  BY <2>1, <2>2
<1> QED  BY <1>1, InvInit, InvNext, PTL DEF Spec

\* With routes that lead to a next hop over its own link, every queued packet
\* is sent to the interface that owns its next hop, on that interface's link,
\* whichever reply released it and whichever interface that reply came in on.
THEOREM NextHopCorrect ==
    ASSUME RoutesAreLocal
    PROVE  Spec => []FramesReachNextHop
<1>1. Inv => FramesReachNextHop
  <2> SUFFICES ASSUME Inv, NEW f \in frames, f.type = "ip"
               PROVE  /\ f.dhost = MacOf(f.packet.nh)
                      /\ f.shost = MacOf(f.packet.iface)
                      /\ f.link = link[f.packet.nh]
    BY DEF FramesReachNextHop
  <2>1. /\ f.dhost = MacOf(f.packet.nh)
        /\ f.shost = MacOf(f.packet.iface)
        /\ f.link = link[f.packet.iface]
        /\ f.packet \in Packets
    BY DEF Inv, FrameInv, PacketInv, FrameOK
  <2>2. PICK i \in Iface : /\ router[i] = router[f.packet.iface]
                           /\ link[i] = link[f.packet.nh]
    BY DEF Inv, FrameInv, FrameOK
  <2>3. link[f.packet.iface] = link[f.packet.nh]
    BY <2>1, <2>2 DEF RoutesAreLocal
  <2> QED  BY <2>1, <2>3
<1> QED  BY <1>1, InvInit, InvNext, PTL DEF Spec
=============================================================================
