--------------------------- MODULE ArpQueueProofs ---------------------------
(***************************************************************************)
(* Proofs about the ARP request queue, for every routing table, set of     *)
(* packets, number of requests, MaxTries and StackLimit: its types, the    *)
(* integrity of the queue under both threads, that giving up on a next hop *)
(* is earned although the threads race on times_sent, and what the threads *)
(* can and cannot do to each other through the queue.                      *)
(***************************************************************************)
EXTENDS ArpQueue, SequenceTheorems, TLAPS

-----------------------------------------------------------------------------
(* What the data path hands to the queue is well formed, for every routing *)
(* table and interface list.                                               *)

\* route_and_send queues well-formed packets: the next hop is a real address
\* (never the 0 that rt->gw may hold) and the interface is a known one.
LEMMA RouteAndSendType ==
    ASSUME NEW f \in Frame
    PROVE  \A q \in route_and_send(f) :
              q \in QueuedPacket /\ q.buf = f /\ q.iface \in DOMAIN ifip
<1>1. ASSUME NEW i \in rt_exact_match(f.dst), sr_get_interface(rtable[i].iface) # {}
      PROVE  /\ [buf |-> f, nh |-> NextHop(rtable[i], f), iface |-> rtable[i].iface]
                    \in QueuedPacket
             /\ rtable[i].iface \in DOMAIN ifip
  <2>1. rtable[i] \in RtEntry
    BY <1>1, ForwardingAssumption DEF rt_exact_match
  <2>2. NextHop(rtable[i], f) \in IP
    BY <2>1 DEF NextHop, RtEntry, Frame
  <2> QED  BY <1>1, <2>1, <2>2 DEF QueuedPacket, RtEntry, sr_get_interface
<1> QED  BY <1>1 DEF route_and_send

\* An ICMP error is well formed whatever it is about.
LEMMA ErrorType ==
    ASSUME NEW kind \in ErrorKind, NEW orig, NEW srcIP \in IP \cup {NoIP},
           orig.id \in Id, orig.src \in IP,
           orig.kind \in PacketKind \cup FrameKind
    PROVE  send_icmp_error(kind, orig, srcIP) \subseteq QueuedPacket
<1> DEFINE error(a) == [kind |-> kind, id |-> orig.id, src |-> a,
                        dst |-> orig.src, ttl |-> INIT_TTL,
                        about |-> orig.kind]
           S == IF srcIP = NoIP THEN ReturnIP(orig.src) ELSE {srcIP}
<1>1. S \subseteq IP
  BY ForwardingAssumption DEF ReturnIP
<1>2. \A a \in IP : error(a) \in Frame
  BY DEF Frame, FrameKind, INIT_TTL
<1> HIDE DEF error
<1>3. \A a \in S : route_and_send(error(a)) \subseteq QueuedPacket
  BY <1>1, <1>2, RouteAndSendType
<1> QED  BY <1>3 DEF send_icmp_error, error

\* Every packet makes the router queue well-formed frames only; in particular
\* ip_ttl-- never wraps around.
LEMMA HandleIpType ==
    ASSUME NEW p \in Packet
    PROVE  handle_ip_packet(p) \subseteq QueuedPacket
<1>1. p.id \in Id /\ p.src \in IP /\ p.dst \in IP /\ p.ttl \in 0..255
          /\ p.kind \in PacketKind
  BY DEF Packet
<1>2. InterfaceIP(p.in) \in IP \cup {NoIP}
  BY ForwardingAssumption DEF InterfaceIP
<1>3. ASSUME NEW kind \in ErrorKind
      PROVE  send_icmp_error(kind, p, InterfaceIP(p.in)) \subseteq QueuedPacket
  BY <1>1, <1>2, ErrorType
<1>4. send_icmp_echo_reply(p) \subseteq QueuedPacket
  BY <1>1, RouteAndSendType DEF send_icmp_echo_reply, Frame, FrameKind, INIT_TTL
<1>5. ASSUME ~(p.ttl <= 1)
      PROVE  forward(p) \subseteq QueuedPacket
  <2>1. [kind |-> "forwarded", id |-> p.id, src |-> p.src,
         dst |-> p.dst, ttl |-> p.ttl - 1, about |-> "none"] \in Frame
    BY <1>1, <1>5 DEF Frame, FrameKind
  <2> QED  BY <2>1, RouteAndSendType DEF forward
<1> QED  BY <1>3, <1>4, <1>5 DEF handle_ip_packet, Expires, ErrorKind

-----------------------------------------------------------------------------
(* Linked lists and call stacks as sequences.                              *)

\* Unlinking position i of a list (sr_arpcache_insert, sr_arpreq_destroy) keeps
\* the others in their order.
LEMMA RemoveAtFacts ==
    ASSUME NEW S, NEW s \in Seq(S), NEW i \in 1..Len(s)
    PROVE  /\ RemoveAt(s, i) \in Seq(S)
           /\ Len(RemoveAt(s, i)) = Len(s) - 1
           /\ \A k \in 1..(Len(s) - 1) :
                RemoveAt(s, i)[k] = IF k < i THEN s[k] ELSE s[k + 1]
<1> DEFINE l == SubSeq(s, 1, i - 1)
           r == SubSeq(s, i + 1, Len(s))
<1>0. Len(s) \in Nat /\ \A k \in 1..Len(s) : s[k] \in S
  BY ElementOfSeq, LenProperties
<1>1. /\ l \in Seq(S)
      /\ Len(l) = i - 1
      /\ \A k \in 1..(i - 1) : l[k] = s[k]
  <2>1. /\ l \in Seq(S)
        /\ Len(l) = IF 1 <= i - 1 THEN (i - 1) - 1 + 1 ELSE 0
        /\ \A k \in 1..((i - 1) - 1 + 1) : l[k] = s[1 + k - 1]
    <3>1. (\A k \in 1..(i - 1) : s[k] \in S) /\ 1 \in Int /\ i - 1 \in Int
      BY <1>0
    <3> QED  BY <3>1, SubSeqProperties
  <2> QED  BY <2>1, <1>0
<1>2. /\ r \in Seq(S)
      /\ Len(r) = Len(s) - i
      /\ \A k \in 1..(Len(s) - i) : r[k] = s[k + i]
  <2>1. /\ r \in Seq(S)
        /\ Len(r) = IF i + 1 <= Len(s) THEN Len(s) - (i + 1) + 1 ELSE 0
        /\ \A k \in 1..(Len(s) - (i + 1) + 1) : r[k] = s[(i + 1) + k - 1]
    <3>1. (\A k \in (i + 1)..Len(s) : s[k] \in S) /\ i + 1 \in Int /\ Len(s) \in Int
      BY <1>0
    <3> QED  BY <3>1, SubSeqProperties
  <2> QED  BY <2>1, <1>0
<1> HIDE DEF l, r
<1>3. RemoveAt(s, i) = l \o r
  BY DEF RemoveAt, l, r
<1>4. /\ l \o r \in Seq(S)
      /\ Len(l \o r) = Len(l) + Len(r)
      /\ \A k \in 1..(Len(l) + Len(r)) :
            (l \o r)[k] = IF k <= Len(l) THEN l[k] ELSE r[k - Len(l)]
  BY <1>1, <1>2, ConcatProperties
<1>5. RemoveAt(s, i) \in Seq(S) /\ Len(RemoveAt(s, i)) = Len(s) - 1
  BY <1>0, <1>1, <1>2, <1>3, <1>4
<1>6. ASSUME NEW k \in 1..(Len(s) - 1)
      PROVE  RemoveAt(s, i)[k] = IF k < i THEN s[k] ELSE s[k + 1]
  <2>1. CASE k < i
    BY <1>0, <1>1, <1>2, <1>3, <1>4, <2>1
  <2>2. CASE ~(k < i)
    <3>1. k - (i - 1) \in 1..(Len(s) - i) /\ k \in 1..(Len(l) + Len(r))
      BY <1>0, <1>1, <1>2, <2>2
    <3>2. RemoveAt(s, i)[k] = r[k - (i - 1)]
      BY <1>0, <1>1, <1>3, <1>4, <2>2, <3>1
    <3> QED  BY <1>0, <1>2, <2>2, <3>1, <3>2
  <2> QED  BY <2>1, <2>2
<1> QED  BY <1>5, <1>6

\* Linking an element in at the head of a list (sr_arpcache_queuereq).
LEMMA PrependFacts ==
    ASSUME NEW S, NEW x \in S, NEW s \in Seq(S)
    PROVE  /\ <<x>> \o s \in Seq(S)
           /\ Len(<<x>> \o s) = Len(s) + 1
           /\ (<<x>> \o s)[1] = x
           /\ \A k \in 2..(Len(s) + 1) : (<<x>> \o s)[k] = s[k - 1]
           /\ <<x>> \o s # <<>>
BY LenProperties

\* A stack whose innermost activation is replaced has only that new element.
LEMMA ReplaceTopFacts ==
    ASSUME NEW S, NEW a \in S, NEW s \in Seq(S), s # <<>>
    PROVE  /\ <<a>> \o Tail(s) \in Seq(S)
           /\ \A k \in DOMAIN (<<a>> \o Tail(s)) :
                \/ (<<a>> \o Tail(s))[k] = a
                \/ \E j \in DOMAIN s : (<<a>> \o Tail(s))[k] = s[j]
<1> DEFINE r == Tail(s)
           n == <<a>> \o r
<1>1. /\ r \in Seq(S)
      /\ Len(r) = Len(s) - 1
      /\ \A i \in 1..Len(r) : r[i] = s[i + 1]
      /\ DOMAIN s = 1..Len(s) /\ Len(s) \in Nat
  BY HeadTailProperties, LenProperties
<1> HIDE DEF r
<1>2. /\ n \in Seq(S)
      /\ Len(n) = Len(r) + 1
      /\ n[1] = a
      /\ \A k \in 2..(Len(r) + 1) : n[k] = r[k - 1]
  BY <1>1, PrependFacts
<1> HIDE DEF n
<1>3. DOMAIN n = 1..Len(n)
  BY <1>2, LenProperties
<1>4. ASSUME NEW k \in DOMAIN n PROVE n[k] = a \/ \E j \in DOMAIN s : n[k] = s[j]
  <2>1. CASE k = 1
    BY <2>1, <1>2
  <2>2. CASE k # 1
    <3>1. k \in DOMAIN s /\ n[k] = s[k]
      BY <2>2, <1>1, <1>2, <1>3
    <3> QED  BY <3>1
  <2> QED  BY <2>1, <2>2
<1> QED  BY <1>2, <1>4 DEF n, r

\* A stack without its innermost activation has no new element.
LEMMA TailFacts ==
    ASSUME NEW S, NEW s \in Seq(S), s # <<>>
    PROVE  /\ Tail(s) \in Seq(S)
           /\ \A k \in DOMAIN Tail(s) : \E j \in DOMAIN s : Tail(s)[k] = s[j]
<1>1. /\ Tail(s) \in Seq(S)
      /\ Len(Tail(s)) = Len(s) - 1
      /\ \A i \in 1..Len(Tail(s)) : Tail(s)[i] = s[i + 1]
      /\ DOMAIN s = 1..Len(s) /\ Len(s) \in Nat
      /\ DOMAIN Tail(s) = 1..Len(Tail(s))
  BY HeadTailProperties, LenProperties
<1>2. ASSUME NEW k \in DOMAIN Tail(s)
      PROVE  k + 1 \in DOMAIN s /\ Tail(s)[k] = s[k + 1]
  BY <1>1
<1> QED  BY <1>1, <1>2

\* The type of the call stacks.
Stacks == [Thread -> Seq(Activation)]

\* Every activation of the new stacks is an old one of the same thread, or is
\* one of those in New, on t's stack.
OnlyNew(t, New) ==
    \A u \in Thread : \A k \in DOMAIN stack'[u] :
        \/ u = t /\ stack'[u][k] \in New
        \/ \E j \in DOMAIN stack[u] : stack'[u][k] = stack[u][j]

\* A thread that moves on to its next statement keeps the stacks well formed.
LEMMA BecomeFacts ==
    ASSUME stack \in Stacks, NEW t \in Thread, stack[t] # <<>>,
           NEW a \in Activation, Become(t, a)
    PROVE  stack' \in Stacks /\ OnlyNew(t, {a})
<1>1. stack[t] \in Seq(Activation)
  BY DEF Stacks
<1>2. stack'= [stack EXCEPT ![t] = <<a>> \o Tail(stack[t])]
  BY DEF Become, Stacks
<1> DEFINE n == <<a>> \o Tail(stack[t])
<1>3. /\ n \in Seq(Activation)
      /\ \A k \in DOMAIN n : n[k] = a \/ \E j \in DOMAIN stack[t] : n[k] = stack[t][j]
  BY <1>1, ReplaceTopFacts
<1> HIDE DEF n
<1>4. /\ stack' \in Stacks
      /\ stack'[t] = n
      /\ \A u \in Thread \ {t} : stack'[u] = stack[u]
  BY <1>2, <1>3 DEF n, Stacks
<1> QED  BY <1>3, <1>4 DEF OnlyNew

\* So does a call: only the caller's and the callee's activations are new.
LEMMA CallFacts ==
    ASSUME stack \in Stacks, NEW t \in Thread, stack[t] # <<>>,
           NEW a \in Activation, NEW b \in Activation, BecomeAndCall(t, a, b)
    PROVE  stack' \in Stacks /\ OnlyNew(t, {a, b})
<1>1. stack[t] \in Seq(Activation)
  BY DEF Stacks
<1> DEFINE m == <<a>> \o Tail(stack[t])
           n == <<b>> \o m
<1>2. /\ m \in Seq(Activation)
      /\ \A k \in DOMAIN m : m[k] = a \/ \E j \in DOMAIN stack[t] : m[k] = stack[t][j]
  BY <1>1, ReplaceTopFacts
<1> HIDE DEF m
<1>3. /\ n \in Seq(Activation)
      /\ Len(n) = Len(m) + 1
      /\ n[1] = b
      /\ \A k \in 2..(Len(m) + 1) : n[k] = m[k - 1]
      /\ DOMAIN n = 1..Len(n) /\ DOMAIN m = 1..Len(m) /\ Len(m) \in Nat
  BY <1>2, PrependFacts, LenProperties
<1> HIDE DEF n
<1>4. ASSUME NEW k \in DOMAIN n
      PROVE  n[k] \in {a, b} \/ \E j \in DOMAIN stack[t] : n[k] = stack[t][j]
  <2>1. CASE k = 1
    BY <2>1, <1>3
  <2>2. CASE k # 1
    <3>1. k - 1 \in DOMAIN m /\ n[k] = m[k - 1]
      BY <2>2, <1>3
    <3> QED  BY <3>1, <1>2
  <2> QED  BY <2>1, <2>2
<1>5. stack' = [stack EXCEPT ![t] = n]
  BY DEF BecomeAndCall, Stacks, m, n
<1>6. /\ stack' \in Stacks
      /\ stack'[t] = n
      /\ \A u \in Thread \ {t} : stack'[u] = stack[u]
  BY <1>3, <1>5 DEF Stacks
<1> QED  BY <1>4, <1>6 DEF OnlyNew

\* So does a return, which adds no activation.
LEMMA ReturnFacts ==
    ASSUME stack \in Stacks, NEW t \in Thread, stack[t] # <<>>, Return(t)
    PROVE  stack' \in Stacks /\ OnlyNew(t, {})
<1>1. stack[t] \in Seq(Activation)
  BY DEF Stacks
<1> DEFINE n == Tail(stack[t])
<1>2. /\ n \in Seq(Activation)
      /\ \A k \in DOMAIN n : \E j \in DOMAIN stack[t] : n[k] = stack[t][j]
  BY <1>1, TailFacts
<1>3. stack' = [stack EXCEPT ![t] = n]
  BY DEF Return, Stacks
<1> HIDE DEF n
<1>4. /\ stack' \in Stacks
      /\ stack'[t] = n
      /\ \A u \in Thread \ {t} : stack'[u] = stack[u]
  BY <1>2, <1>3 DEF Stacks
<1> QED  BY <1>2, <1>4 DEF OnlyNew

\* So does an idle thread that starts to work.
LEMMA StartFacts ==
    ASSUME stack \in Stacks, NEW t \in Thread, NEW a \in Activation,
           stack' = [stack EXCEPT ![t] = <<a>>]
    PROVE  stack' \in Stacks /\ OnlyNew(t, {a})
BY DEF Stacks, OnlyNew

\* The innermost activation of a busy thread is the head of its stack.
LEMMA TopFacts ==
    ASSUME stack \in Stacks, NEW t \in Thread, stack[t] # <<>>
    PROVE  /\ Top(t) \in Activation
           /\ 1 \in DOMAIN stack[t]
           /\ Top(t) = stack[t][1]
BY HeadTailProperties, LenProperties DEF Top, Stacks

\* A fresh activation is well formed and holds what it was given.
LEMMA ActType ==
    ASSUME NEW pc \in PC, NEW r \in Req \cup {NULL}, NEW todo \in Seq(QueuedPacket)
    PROVE  /\ Act(pc, r, todo) \in Activation
           /\ Act(pc, r, todo).pc = pc
           /\ Act(pc, r, todo).req = r
           /\ Act(pc, r, todo).todo = todo
           /\ Act(pc, r, todo).n = 0
BY DEF Act, Activation

LEMMA ReqsFacts ==
    ASSUME TypeOK
    PROVE  reqs \in Seq(Req) /\ Len(reqs) \in Nat /\ DOMAIN reqs = 1..Len(reqs)
<1>1. reqs \in Seq(Req)
  BY DEF TypeOK
<1> QED  BY <1>1, LenProperties

\* req->next is a request or NULL.
LEMMA NextReqType ==
    ASSUME TypeOK, NEW r
    PROVE  NextReq(r) \in Req \cup {NULL}
<1> DEFINE after == {reqs[i + 1] : i \in {k \in 1..(Len(reqs) - 1) : reqs[k] = r}}
<1>1. after \subseteq Req
  <2>1. reqs \in Seq(Req) /\ Len(reqs) \in Nat
    BY ReqsFacts
  <2>2. ASSUME NEW k \in 1..(Len(reqs) - 1)
        PROVE  k + 1 \in 1..Len(reqs)
    BY <2>1
  <2>3. ASSUME NEW k \in 1..(Len(reqs) - 1)
        PROVE  reqs[k + 1] \in Req
    BY <2>1, <2>2, ElementOfSeq
  <2> QED  BY <2>3
<1>2. NextReq(r) = IF after = {} THEN NULL ELSE CHOOSE x \in after : TRUE
  BY DEF NextReq
<1> HIDE DEF after
<1> QED  BY <1>1, <1>2

\* The type invariant, made inductive: Route takes the head of todo.
TypeInv == TypeOK /\ RouteHasPacket

\* RouteHasPacket only looks at single activations.
LEMMA RouteHasPacketKept ==
    ASSUME NEW t \in Thread, NEW New, RouteHasPacket, OnlyNew(t, New),
           \A a \in New : a.pc = "route" => a.todo # <<>>
    PROVE  RouteHasPacket'
BY DEF RouteHasPacket, OnlyNew

\* The cache as sr_arpcache_init leaves it is well typed.
LEMMA TypeInit == Init => TypeInv
<1> SUFFICES ASSUME Init PROVE TypeInv
  OBVIOUS
<1> USE DEF Init
<1>1. TypeOK
  <2>1. due \in [Req -> BOOLEAN] /\ slept \in BOOLEAN
    BY Zenon
  <2>2. pkts \in [Req -> Seq(QueuedPacket)] /\ reqs \in Seq(Req)
    BY EmptySeq
  <2>3. stack \in [Thread -> Seq(Activation)]
    BY EmptySeq
  <2>4. /\ ip \in [Req -> IP \cup {NoIP}]
        /\ times \in [Req -> Nat]
        /\ asked \in [Req -> Nat]
    OBVIOUS
  <2> QED  BY <2>1, <2>2, <2>3, <2>4 DEF TypeOK
<1>2. RouteHasPacket
  BY DEF RouteHasPacket
<1> QED  BY <1>1, <1>2 DEF TypeInv

\* A step that only changes the stacks, in a way that keeps them well formed.
LEMMA OnlyStackChanges ==
    ASSUME TypeOK, stack' \in Stacks,
           UNCHANGED <<memory, fault, history>>,
           lock' \in Thread \cup {NULL}, slept' \in BOOLEAN
    PROVE  TypeOK'
BY DEF TypeOK, Stacks, memory, history

\* Every step of either thread, and the clock, keeps the types.
LEMMA TypeNext == TypeInv /\ [Next]_vars => TypeInv'
<1> SUFFICES ASSUME TypeInv, [Next]_vars PROVE TypeInv'
  OBVIOUS
<1> USE DEF TypeInv
<1>s. stack \in Stacks
  BY DEF TypeOK, Stacks
<1>t. lock \in Thread \cup {NULL} /\ slept \in BOOLEAN
  BY DEF TypeOK
<1>1. ASSUME NEW p \in Packets, HandleIp(p) PROVE TypeInv'
  <2>1. stack' \in Stacks /\ RouteHasPacket'
    <3>1. CASE UNCHANGED stack
      BY <3>1, <1>s DEF RouteHasPacket, Stacks
    <3>2. ASSUME NEW q \in handle_ip_packet(p),
                 stack' = [stack EXCEPT !["receiver"] = <<Act("route", NULL, <<q>>)>>]
          PROVE  stack' \in Stacks /\ RouteHasPacket'
      <4>1. q \in QueuedPacket
        BY HandleIpType, ArpQueueAssumption
      <4>2. Act("route", NULL, <<q>>) \in Activation
                /\ Act("route", NULL, <<q>>).todo # <<>>
        <5>1. <<q>> \in Seq(QueuedPacket) /\ <<q>> # <<>>
          BY <4>1
        <5>2. "route" \in PC /\ NULL \in Req \cup {NULL}
          BY DEF PC
        <5> QED  BY <5>1, <5>2 DEF Act, Activation
      <4> QED  BY <3>2, <4>2, <1>s DEF Stacks, RouteHasPacket, Thread
    <3> QED  BY <1>1, <3>1, <3>2 DEF HandleIp
  <2>2. TypeOK'
    BY <1>1, <2>1 DEF HandleIp, TypeOK, Stacks, memory
  <2> QED  BY <2>1, <2>2
<1>2. ASSUME NEW a \in IP, HandleArpReply(a) PROVE TypeInv'
  <2>1. PICK i \in First(PositionsFor(a)) :
            /\ reqs' = RemoveAt(reqs, i)
            /\ stack' = [stack EXCEPT !["receiver"] =
                            <<Act("drain", reqs[i], pkts[reqs[i]])>>]
    BY <1>2 DEF HandleArpReply
  <2>2. i \in 1..Len(reqs) /\ reqs[i] \in Req
    BY LenProperties, ElementOfSeq DEF TypeOK, First, PositionsFor
  <2>3. reqs' \in Seq(Req)
    BY <2>1, <2>2, RemoveAtFacts DEF TypeOK
  <2>4. Act("drain", reqs[i], pkts[reqs[i]]) \in Activation
            /\ Act("drain", reqs[i], pkts[reqs[i]]).pc = "drain"
    BY <2>2, ActType DEF TypeOK, PC
  <2>5. stack' \in Stacks /\ RouteHasPacket'
    BY <2>1, <2>4, <1>s DEF Stacks, RouteHasPacket, Thread
  <2>6. TypeOK'
    BY <1>2, <2>3, <2>5 DEF HandleArpReply, TypeOK, Stacks, history
  <2> QED  BY <2>5, <2>6
<1>3. ASSUME NEW t \in Thread, Drain(t) PROVE TypeInv'
  <2>1. stack[t] # <<>> /\ Top(t) \in Activation
    BY <1>3, <1>s, TopFacts DEF Drain, At
  <2> DEFINE a == Act("drain", Top(t).req, Tail(Top(t).todo))
  <2>2. /\ a \in Activation /\ a.pc = "drain"
        /\ Head(Top(t).todo) \in QueuedPacket
    <3>1. /\ Top(t).req \in Req \cup {NULL}
          /\ Top(t).todo \in Seq(QueuedPacket)
          /\ Top(t).todo # <<>>
      BY <1>3, <2>1 DEF Drain, Activation
    <3>2. Head(Top(t).todo) \in QueuedPacket /\ Tail(Top(t).todo) \in Seq(QueuedPacket)
      BY <3>1, HeadTailProperties
    <3>3. "drain" \in PC
      BY DEF PC
    <3> QED  BY <3>1, <3>2, <3>3, ActType
  <2> HIDE DEF a
  <2>3. Become(t, a)
    BY <1>3 DEF Drain, a
  <2>4. stack' \in Stacks /\ OnlyNew(t, {a})
    BY <1>s, <2>1, <2>2, <2>3, BecomeFacts
  <2>5. RouteHasPacket'
    BY <2>2, <2>4, RouteHasPacketKept
  <2>6. wire' \subseteq Frame
    BY <1>3, <2>2 DEF Drain, TypeOK, QueuedPacket
  <2>7. TypeOK'
    BY <1>3, <2>4, <2>6 DEF Drain, TypeOK, Stacks, memory
  <2> QED  BY <2>5, <2>7
<1>4. ASSUME NEW t \in Thread, Route(t) PROVE TypeInv'
  <2> DEFINE q == Head(Top(t).todo)
  <2>1. stack[t] # <<>> /\ Top(t) \in Activation /\ Top(t).todo # <<>>
    BY <1>4, <1>s, TopFacts DEF Route, At, RouteHasPacket
  <2>2. q \in QueuedPacket /\ q.nh \in IP
    <3>1. Top(t).todo \in Seq(QueuedPacket)
      BY <2>1 DEF Activation
    <3>2. q \in QueuedPacket
      BY <2>1, <3>1, HeadTailProperties
    <3> QED  BY <3>2 DEF QueuedPacket
  <2> HIDE DEF q
  <2>3. ASSUME NEW r \in Req, Become(t, Act("check", r, <<>>))
        PROVE  stack' \in Stacks /\ RouteHasPacket'
    <3>1. Act("check", r, <<>>) \in Activation /\ Act("check", r, <<>>).pc = "check"
      BY EmptySeq DEF Act, Activation, PC
    <3>2. stack' \in Stacks /\ OnlyNew(t, {Act("check", r, <<>>)})
      BY <1>s, <2>1, <2>3, <3>1, BecomeFacts
    <3> QED  BY <3>1, <3>2, RouteHasPacketKept
  <2>4. ASSUME NEW i \in First(PositionsFor(q.nh)),
               pkts' = [pkts EXCEPT ![reqs[i]] = <<q>> \o @],
               Become(t, Act("check", reqs[i], <<>>)),
               UNCHANGED <<reqs, alive, ip, times, due, asked>>
        PROVE  TypeInv'
    <3>1. i \in 1..Len(reqs) /\ reqs[i] \in Req
      BY LenProperties, ElementOfSeq DEF TypeOK, First, PositionsFor
    <3>2. stack' \in Stacks /\ RouteHasPacket'
      BY <2>3, <2>4, <3>1
    <3>3. <<q>> \o pkts[reqs[i]] \in Seq(QueuedPacket)
      BY <2>2, <3>1, PrependFacts DEF TypeOK
    <3>4. pkts' \in [Req -> Seq(QueuedPacket)]
      BY <2>4, <3>1, <3>3 DEF TypeOK
    <3>5. TypeOK'
      BY <1>4, <2>4, <3>2, <3>4 DEF Route, TypeOK, Stacks
    <3> QED  BY <3>2, <3>5
  <2>5. ASSUME NEW r \in Req \ alive,
               alive' = alive \cup {r},
               reqs' = <<r>> \o reqs,
               ip' = [ip EXCEPT ![r] = q.nh],
               times' = [times EXCEPT ![r] = 0],
               due' = [due EXCEPT ![r] = TRUE],
               pkts' = [pkts EXCEPT ![r] = <<q>>],
               asked' = [asked EXCEPT ![r] = 0],
               Become(t, Act("check", r, <<>>))
        PROVE  TypeInv'
    <3>1. stack' \in Stacks /\ RouteHasPacket'
      BY <2>3, <2>5
    <3>2. <<q>> \in Seq(QueuedPacket) /\ <<r>> \o reqs \in Seq(Req)
      BY <2>2, PrependFacts DEF TypeOK
    <3>3. /\ pkts' \in [Req -> Seq(QueuedPacket)]
          /\ ip' \in [Req -> IP \cup {NoIP}]
          /\ times' \in [Req -> Nat]
          /\ asked' \in [Req -> Nat]
          /\ reqs' \in Seq(Req)
          /\ alive' \subseteq Req
      BY <2>2, <2>5, <3>2 DEF TypeOK
    <3>4. due' \in [Req -> BOOLEAN]
      BY <2>5, Zenon DEF TypeOK
    <3>5. TypeOK'
      BY <1>4, <3>1, <3>3, <3>4 DEF Route, TypeOK, Stacks
    <3> QED  BY <3>1, <3>5
  <2> QED  BY <1>4, <2>4, <2>5 DEF Route, q
<1>5. ASSUME NEW t \in Thread, Check(t) PROVE TypeInv'
  <2>1. stack[t] # <<>> /\ Top(t).req \in Req
    BY <1>5, <1>s, TopFacts DEF Check, At, TypeOK
  <2> DEFINE a == Act("count", Top(t).req, <<>>)
  <2>2. a \in Activation /\ a.pc = "count"
    BY <2>1, EmptySeq DEF Act, Activation, PC
  <2> HIDE DEF a
  <2>3. Become(t, a) \/ Return(t)
    BY <1>5 DEF Check, a
  <2>4. stack' \in Stacks /\ (OnlyNew(t, {a}) \/ OnlyNew(t, {}))
    BY <1>s, <2>1, <2>2, <2>3, BecomeFacts, ReturnFacts
  <2>5. RouteHasPacket'
    BY <2>2, <2>4, RouteHasPacketKept
  <2>6. TypeOK'
    BY <1>5, <1>t, <2>4, OnlyStackChanges DEF Check
  <2> QED  BY <2>5, <2>6
<1>6. ASSUME NEW t \in Thread, Count(t) PROVE TypeInv'
  <2>1. stack[t] # <<>> /\ Top(t) \in Activation /\ Top(t).req \in Req
    BY <1>6, <1>s, TopFacts DEF Count, At, TypeOK
  <2> DEFINE r == Top(t).req
             a == IF times[r] >= MaxTries THEN Act("giveup", r, pkts[r])
                                          ELSE [Top(t) EXCEPT !.pc = "ask"]
  <2>2. a \in Activation /\ a.pc # "route"
    <3>1. /\ Act("giveup", r, pkts[r]) \in Activation
          /\ Act("giveup", r, pkts[r]).pc = "giveup"
      BY <2>1, ActType DEF PC, TypeOK
    <3>2. /\ [Top(t) EXCEPT !.pc = "ask"] \in Activation
          /\ [Top(t) EXCEPT !.pc = "ask"].pc = "ask"
      BY <2>1 DEF Activation, PC
    <3> QED  BY <3>1, <3>2
  <2> HIDE DEF a
  <2>3. Become(t, a)
    BY <1>6 DEF Count, a
  <2>4. stack' \in Stacks /\ OnlyNew(t, {a})
    BY <1>s, <2>1, <2>2, <2>3, BecomeFacts
  <2>5. RouteHasPacket'
    BY <2>2, <2>4, RouteHasPacketKept
  <2>6. TypeOK'
    BY <1>6, <1>t, <2>4, OnlyStackChanges DEF Count
  <2> QED  BY <2>5, <2>6
<1>7. ASSUME NEW t \in Thread, Ask(t) PROVE TypeInv'
  <2>1. stack[t] # <<>> /\ Top(t) \in Activation /\ Top(t).req \in Req
    BY <1>7, <1>s, TopFacts DEF Ask, At, TypeOK
  <2> DEFINE r == Top(t).req
             a == [Act("bump", r, <<>>) EXCEPT !.n = times[r]]
  <2>2. a \in Activation /\ a.pc = "bump"
    BY <2>1, EmptySeq DEF Act, Activation, PC, TypeOK
  <2> HIDE DEF a
  <2>3. Become(t, a)
    BY <1>7 DEF Ask, a
  <2>4. stack' \in Stacks /\ OnlyNew(t, {a})
    BY <1>s, <2>1, <2>2, <2>3, BecomeFacts
  <2>5. RouteHasPacket'
    BY <2>2, <2>4, RouteHasPacketKept
  <2>6. asked' \in [Req -> Nat]
    BY <1>7, <2>1 DEF Ask, TypeOK
  <2>7. due' \in [Req -> BOOLEAN]
    <3>1. Top(t).late \in BOOLEAN
      BY <2>1 DEF Activation
    <3>2. due' = [due EXCEPT ![r] = Top(t).late]
      BY <1>7 DEF Ask
    <3> QED  BY <3>1, <3>2, Zenon DEF TypeOK
  <2>8. TypeOK'
    BY <1>7, <2>4, <2>6, <2>7 DEF Ask, TypeOK, Stacks
  <2> QED  BY <2>5, <2>8
<1>8. ASSUME NEW t \in Thread, Bump(t) PROVE TypeInv'
  <2>1. stack[t] # <<>> /\ Top(t) \in Activation /\ Top(t).req \in Req
    BY <1>8, <1>s, TopFacts DEF Bump, At, TypeOK
  <2>2. stack' \in Stacks /\ OnlyNew(t, {})
    BY <1>8, <1>s, <2>1, ReturnFacts DEF Bump
  <2>3. RouteHasPacket'
    BY <2>2, RouteHasPacketKept
  <2>4. times' \in [Req -> Nat]
    BY <1>8, <2>1 DEF Bump, TypeOK, Activation
  <2>5. TypeOK'
    BY <1>8, <2>2, <2>4 DEF Bump, TypeOK, Stacks, history
  <2> QED  BY <2>3, <2>5
<1>9. ASSUME NEW t \in Thread, GiveUp(t) PROVE TypeInv'
  <2> DEFINE f == Head(Top(t).todo).buf
             errors == send_icmp_error("host_unreachable", f, NoIP)
             rest == Act("giveup", Top(t).req, Tail(Top(t).todo))
  <2>1. stack[t] # <<>> /\ Top(t) \in Activation /\ Top(t).todo # <<>>
    BY <1>9, <1>s, TopFacts DEF GiveUp, At
  <2>2. Head(Top(t).todo) \in QueuedPacket /\ Tail(Top(t).todo) \in Seq(QueuedPacket)
    <3>1. Top(t).todo \in Seq(QueuedPacket)
      BY <2>1 DEF Activation
    <3> QED  BY <2>1, <3>1, HeadTailProperties
  <2>3. f \in Frame
    BY <2>2 DEF QueuedPacket
  <2>4. rest \in Activation /\ rest.pc = "giveup"
    BY <2>1, <2>2 DEF Act, Activation, PC
  <2>5. errors \subseteq QueuedPacket
    <3>1. f.id \in Id /\ f.src \in IP /\ f.kind \in PacketKind \cup FrameKind
      BY <2>3 DEF Frame
    <3>2. "host_unreachable" \in ErrorKind
      BY DEF ErrorKind
    <3> QED  BY <3>1, <3>2, ErrorType
  <2> HIDE DEF f, errors, rest
  <2>6. CASE Become(t, rest) /\ reported' = reported \cup {f} /\ UNCHANGED fault
    <3>1. stack' \in Stacks /\ OnlyNew(t, {rest})
      BY <1>s, <2>1, <2>4, <2>6, BecomeFacts
    <3>2. RouteHasPacket'
      BY <2>4, <3>1, RouteHasPacketKept
    <3>3. TypeOK'
      BY <1>9, <2>3, <2>6, <3>1 DEF GiveUp, TypeOK, Stacks, memory
    <3> QED  BY <3>2, <3>3
  <2>7. ASSUME NEW e \in errors,
               BecomeAndCall(t, rest, Act("route", NULL, <<e>>)),
               reported' = reported \cup {f}, UNCHANGED fault
        PROVE  TypeInv'
    <3> DEFINE b == Act("route", NULL, <<e>>)
    <3>1. b \in Activation /\ b.todo # <<>>
      <4>1. <<e>> \in Seq(QueuedPacket) /\ <<e>> # <<>>
        BY <2>5
      <4> QED  BY <4>1 DEF Act, Activation, PC
    <3> HIDE DEF b
    <3>2. BecomeAndCall(t, rest, b)
      BY <2>7 DEF b
    <3>3. stack' \in Stacks /\ OnlyNew(t, {rest, b})
      BY <1>s, <2>1, <2>4, <3>1, <3>2, CallFacts
    <3>4. RouteHasPacket'
      BY <2>4, <3>1, <3>3, RouteHasPacketKept
    <3>5. TypeOK'
      BY <1>9, <2>3, <2>7, <3>3 DEF GiveUp, TypeOK, Stacks, memory
    <3> QED  BY <3>4, <3>5
  <2>8. CASE fault' = "stack_overflow" /\ UNCHANGED <<stack, reported>>
    BY <1>9, <2>8 DEF GiveUp, TypeOK, RouteHasPacket, memory
  <2> QED  BY <1>9, <2>6, <2>7, <2>8 DEF GiveUp, f, errors, rest
<1>10. ASSUME NEW t \in Thread, LoopEnd(t) PROVE TypeInv'
  <2>1. stack[t] # <<>> /\ Top(t).req \in Req
    BY <1>10, <1>s, TopFacts DEF LoopEnd, At, TypeOK
  <2> DEFINE a == Act("destroy", Top(t).req, <<>>)
  <2>2. a \in Activation /\ a.pc = "destroy"
    BY <2>1, EmptySeq DEF Act, Activation, PC
  <2> HIDE DEF a
  <2>3. Become(t, a)
    BY <1>10 DEF LoopEnd, a
  <2>4. stack' \in Stacks /\ OnlyNew(t, {a})
    BY <1>s, <2>1, <2>2, <2>3, BecomeFacts
  <2>5. RouteHasPacket'
    BY <2>2, <2>4, RouteHasPacketKept
  <2>6. TypeOK'
    BY <1>10, <1>t, <2>4, OnlyStackChanges DEF LoopEnd
  <2> QED  BY <2>5, <2>6
<1>11. ASSUME NEW t \in Thread, Destroy(t) PROVE TypeInv'
  <2>1. stack[t] # <<>> /\ Top(t).req \in Req
    BY <1>11, <1>s, TopFacts DEF Destroy, At, TypeOK
  <2>2. stack' \in Stacks /\ OnlyNew(t, {})
    BY <1>11, <1>s, <2>1, ReturnFacts DEF Destroy
  <2>3. RouteHasPacket'
    BY <2>2, RouteHasPacketKept
  <2>4. reqs' \in Seq(Req)
    <3>1. ASSUME NEW i \in First(PositionsOf(Top(t).req)), reqs' = RemoveAt(reqs, i)
          PROVE  reqs' \in Seq(Req)
      <4>1. i \in 1..Len(reqs)
        BY LenProperties DEF TypeOK, First, PositionsOf
      <4> QED  BY <3>1, <4>1, RemoveAtFacts DEF TypeOK
    <3> QED  BY <1>11, <3>1 DEF Destroy, TypeOK
  <2>5. due' \in [Req -> BOOLEAN]
    <3>1. due' = [due EXCEPT ![Top(t).req] = TRUE]
      BY <1>11 DEF Destroy
    <3> QED  BY <3>1, Zenon DEF TypeOK
  <2>6. /\ alive' \subseteq Req
        /\ ip' \in [Req -> IP \cup {NoIP}]
        /\ times' \in [Req -> Nat]
        /\ asked' \in [Req -> Nat]
    BY <1>11 DEF Destroy, TypeOK
  <2>7. pkts' \in [Req -> Seq(QueuedPacket)]
    BY <1>11, EmptySeq DEF Destroy, TypeOK
  <2>8. TypeOK'
    BY <1>11, <2>2, <2>4, <2>5, <2>6, <2>7 DEF Destroy, TypeOK, Stacks
  <2> QED  BY <2>3, <2>8
<1>12. ASSUME NEW t \in Thread, UseAfterFree(t) PROVE TypeInv'
  BY <1>12 DEF UseAfterFree, TypeOK, RouteHasPacket, memory, history
<1>13. ASSUME SweepBegin PROVE TypeInv'
  <2> DEFINE a == Act("sweep", IF reqs = <<>> THEN NULL ELSE Head(reqs), <<>>)
  <2>1. a \in Activation /\ a.pc = "sweep"
    <3>1. (IF reqs = <<>> THEN NULL ELSE Head(reqs)) \in Req \cup {NULL}
      BY HeadTailProperties DEF TypeOK
    <3> QED  BY <3>1, EmptySeq DEF Act, Activation, PC
  <2> HIDE DEF a
  <2>2. stack' = [stack EXCEPT !["sweeper"] = <<a>>]
    BY <1>13 DEF SweepBegin, a
  <2>3. stack' \in Stacks /\ RouteHasPacket'
    BY <1>s, <2>1, <2>2 DEF Stacks, RouteHasPacket, Thread
  <2>4. TypeOK'
    BY <1>13, <2>3, OnlyStackChanges DEF SweepBegin, Thread
  <2> QED  BY <2>3, <2>4
<1>14. ASSUME SweepStep PROVE TypeInv'
  <2>1. "sweeper" \in Thread /\ stack["sweeper"] # <<>>
    BY <1>14 DEF SweepStep, At, Thread
  <2>2. CASE lock' = NULL /\ Return("sweeper") /\ UNCHANGED <<memory, slept, fault, history>>
    <3>1. stack' \in Stacks /\ OnlyNew("sweeper", {})
      BY <1>s, <2>1, <2>2, ReturnFacts
    <3>2. RouteHasPacket'
      BY <2>1, <3>1, RouteHasPacketKept
    <3>3. TypeOK'
      BY <1>t, <2>2, <3>1, OnlyStackChanges
    <3> QED  BY <3>2, <3>3
  <2>3. ASSUME NEW r \in alive,
               BecomeAndCall("sweeper", Act("sweep", NextReq(r), <<>>),
                             Act("check", r, <<>>)),
               UNCHANGED <<memory, lock, slept, fault, history>>
        PROVE  TypeInv'
    <3> DEFINE a == Act("sweep", NextReq(r), <<>>)
               b == Act("check", r, <<>>)
    <3>1. NextReq(r) \in Req \cup {NULL}
      BY NextReqType
    <3>2. /\ a \in Activation /\ a.pc = "sweep"
          /\ b \in Activation /\ b.pc = "check"
      BY <3>1, EmptySeq DEF Act, Activation, PC, TypeOK
    <3> HIDE DEF a, b
    <3>3. BecomeAndCall("sweeper", a, b)
      BY <2>3 DEF a, b
    <3>4. stack' \in Stacks /\ OnlyNew("sweeper", {a, b})
      BY <1>s, <2>1, <3>2, <3>3, CallFacts
    <3>5. RouteHasPacket'
      BY <2>1, <3>2, <3>4, RouteHasPacketKept
    <3>6. TypeOK'
      BY <1>t, <2>3, <3>4, OnlyStackChanges
    <3> QED  BY <3>5, <3>6
  <2> QED  BY <1>14, <2>2, <2>3 DEF SweepStep
<1>15. ASSUME Tick PROVE TypeInv'
  <2> DEFINE late(a) == IF a.pc \in {"count", "ask"} THEN [a EXCEPT !.late = TRUE] ELSE a
  <2>1. \A a \in Activation : /\ late(a) \in Activation
                              /\ late(a).pc = a.pc
                              /\ late(a).todo = a.todo
    BY DEF Activation
  <2>2. stack' = [t \in Thread |-> [k \in DOMAIN stack[t] |-> late(stack[t][k])]]
    BY <1>15 DEF Tick
  <2> HIDE DEF late
  <2>3. ASSUME NEW t \in Thread
        PROVE  /\ stack'[t] \in Seq(Activation)
               /\ \A k \in DOMAIN stack'[t] : stack'[t][k].pc = "route"
                                                => stack'[t][k].todo # <<>>
    <3>1. /\ Len(stack[t]) \in Nat
          /\ DOMAIN stack[t] = 1..Len(stack[t])
          /\ \A k \in 1..Len(stack[t]) : stack[t][k] \in Activation
      BY <1>s, LenProperties, ElementOfSeq DEF Stacks
    <3>2. stack'[t] = [k \in 1..Len(stack[t]) |-> late(stack[t][k])]
      BY <2>2, <3>1
    <3>3. stack'[t] \in Seq(Activation)
      BY <2>1, <3>1, <3>2, IsASeq
    <3> QED  BY <2>1, <3>1, <3>2, <3>3 DEF RouteHasPacket
  <2>4. stack' \in Stacks
    BY <2>2, <2>3 DEF Stacks
  <2>5. due' \in [Req -> BOOLEAN] /\ slept' \in BOOLEAN
    BY <1>15, Zenon DEF Tick
  <2>6. TypeOK'
    BY <1>15, <2>4, <2>5 DEF Tick, TypeOK, Stacks, history
  <2> QED  BY <2>3, <2>6 DEF RouteHasPacket
<1>16. CASE UNCHANGED vars
  BY <1>16 DEF vars, memory, history, TypeOK, RouteHasPacket
<1> QED
  BY <1>1, <1>2, <1>3, <1>4, <1>5, <1>6, <1>7, <1>8, <1>9, <1>10, <1>11,
     <1>12, <1>13, <1>14, <1>15, <1>16 DEF Next, Step, Faulted

\* The types of the queue, the requests and the call stacks hold in every
\* reachable state, for any routing table, packets and number of requests.
THEOREM TypeCorrect == Spec => []TypeOK
<1>1. Spec => []TypeInv
  BY TypeInit, TypeNext, PTL DEF Spec
<1>2. TypeInv => TypeOK
  BY DEF TypeInv
<1> QED  BY <1>1, <1>2, PTL

-----------------------------------------------------------------------------
\* The queue's two invariants need each other only through the types.
QueueInv == QueueIntegrity /\ OneRequestPerNextHop

\* Taking position i out of the queue keeps the other requests, each at one
\* place.
LEMMA UnlinkFacts ==
    ASSUME TypeOK, NEW i \in DOMAIN reqs, reqs' = RemoveAt(reqs, i)
    PROVE  \A j \in DOMAIN reqs' :
              LET m == IF j < i THEN j ELSE j + 1
              IN  m \in DOMAIN reqs /\ m # i /\ reqs'[j] = reqs[m]
<1>1. reqs \in Seq(Req) /\ Len(reqs) \in Nat /\ DOMAIN reqs = 1..Len(reqs)
  BY ReqsFacts, Zenon
<1>2. /\ reqs' \in Seq(Req)
      /\ Len(reqs') = Len(reqs) - 1
      /\ \A k \in 1..(Len(reqs) - 1) :
            reqs'[k] = IF k < i THEN reqs[k] ELSE reqs[k + 1]
  <2>1. i \in 1..Len(reqs)
    BY <1>1
  <2> QED  BY <1>1, <2>1, RemoveAtFacts, Zenon
<1>3. DOMAIN reqs' = 1..(Len(reqs) - 1)
  BY <1>2, LenProperties
<1>4. ASSUME NEW j \in DOMAIN reqs'
      PROVE  LET m == IF j < i THEN j ELSE j + 1
             IN  m \in DOMAIN reqs /\ m # i /\ reqs'[j] = reqs[m]
  <2>1. j \in 1..(Len(reqs) - 1) /\ j \in Nat /\ i \in Nat
    BY <1>1, <1>3
  <2>2. reqs'[j] = IF j < i THEN reqs[j] ELSE reqs[j + 1]
    BY <1>2, <2>1
  <2>3. CASE j < i
    <3>1. j \in 1..Len(reqs) /\ j # i
      BY <1>1, <2>1, <2>3
    <3> QED  BY <1>1, <2>2, <2>3, <3>1
  <2>4. CASE ~(j < i)
    <3>1. j + 1 \in 1..Len(reqs) /\ j + 1 # i
      BY <1>1, <2>1, <2>4
    <3> QED  BY <1>1, <2>2, <2>4, <3>1
  <2> QED  BY <2>3, <2>4
<1> QED  BY <1>4

\* Every step keeps the queue consistent: only Route links a request in, and
\* only HandleArpReply and Destroy take one out.
LEMMA QueueNext == TypeInv /\ QueueInv /\ [Next]_vars => QueueInv'
<1> SUFFICES ASSUME TypeInv, QueueInv, [Next]_vars PROVE QueueInv'
  OBVIOUS
<1>s. TypeOK /\ stack \in Stacks
  BY DEF TypeInv, TypeOK, Stacks
<1>d. reqs \in Seq(Req) /\ Len(reqs) \in Nat /\ DOMAIN reqs = 1..Len(reqs)
  BY <1>s, ReqsFacts
<1>1. ASSUME NEW a \in IP, HandleArpReply(a) PROVE QueueInv'
  <2>1. PICK i \in DOMAIN reqs : reqs' = RemoveAt(reqs, i)
    BY <1>1 DEF HandleArpReply, First, PositionsFor
  <2>2. \A j \in DOMAIN reqs' :
            LET m == IF j < i THEN j ELSE j + 1
            IN  m \in DOMAIN reqs /\ m # i /\ reqs'[j] = reqs[m]
    BY <1>s, <2>1, UnlinkFacts
  <2>3. UNCHANGED <<alive, ip, pkts>>
    BY <1>1 DEF HandleArpReply
  <2>4. DOMAIN reqs' \subseteq Int
    BY <1>d, <2>1, RemoveAtFacts, LenProperties
  <2> QED  BY <1>d, <2>2, <2>3, <2>4 DEF QueueInv, QueueIntegrity, OneRequestPerNextHop
<1>2. ASSUME NEW t \in Thread, Route(t) PROVE QueueInv'
  <2> DEFINE q == Head(Top(t).todo)
  <2>1. ASSUME NEW i \in First(PositionsFor(q.nh)),
               pkts' = [pkts EXCEPT ![reqs[i]] = <<q>> \o @],
               UNCHANGED <<reqs, alive, ip>>
        PROVE  QueueInv'
    <3>1. reqs[i] \in Req /\ \A j \in DOMAIN reqs : reqs[j] \in Req
      BY <1>d, ElementOfSeq DEF First, PositionsFor
    <3>2. stack[t] # <<>> /\ Top(t) \in Activation /\ Top(t).todo # <<>>
      BY <1>2, <1>s, TopFacts DEF Route, At, RouteHasPacket, TypeInv
    <3>3. q \in QueuedPacket
      <4>1. Top(t).todo \in Seq(QueuedPacket)
        BY <3>2 DEF Activation
      <4> QED  BY <3>2, <4>1, HeadTailProperties
    <3>4. <<q>> \o pkts[reqs[i]] # <<>>
      BY <1>s, <3>1, <3>3, PrependFacts DEF TypeOK
    <3>5. \A j \in DOMAIN reqs : pkts'[reqs[j]] # <<>>
      BY <1>s, <2>1, <3>1, <3>4 DEF QueueInv, QueueIntegrity, TypeOK
    <3> QED  BY <2>1, <3>5 DEF QueueInv, QueueIntegrity, OneRequestPerNextHop
  <2>2. ASSUME PositionsFor(q.nh) = {}, NEW r \in Req \ alive,
               alive' = alive \cup {r},
               reqs' = <<r>> \o reqs,
               ip' = [ip EXCEPT ![r] = q.nh],
               pkts' = [pkts EXCEPT ![r] = <<q>>]
        PROVE  QueueInv'
    <3>1. \A j \in DOMAIN reqs : /\ reqs[j] \in alive /\ reqs[j] # r
                                 /\ pkts'[reqs[j]] # <<>>
                                 /\ ip'[reqs[j]] = ip[reqs[j]]
                                 /\ ip'[reqs[j]] # q.nh
      BY <1>s, <2>2 DEF QueueInv, QueueIntegrity, PositionsFor, TypeOK
    <3>2. /\ DOMAIN reqs' = 1..(Len(reqs) + 1)
          /\ reqs'[1] = r
          /\ \A k \in 2..(Len(reqs) + 1) : reqs'[k] = reqs[k - 1]
      BY <1>d, <2>2, PrependFacts, LenProperties
    <3>3. ip'[r] = q.nh /\ pkts'[r] = <<q>> /\ <<q>> # <<>>
      BY <1>s, <2>2 DEF TypeOK
    <3>4. ASSUME NEW k \in DOMAIN reqs', k # 1
          PROVE  k - 1 \in DOMAIN reqs /\ reqs'[k] = reqs[k - 1]
      BY <1>d, <3>2, <3>4
    <3>5. ASSUME NEW j \in DOMAIN reqs', NEW k \in DOMAIN reqs',
                 reqs'[j] = reqs'[k] \/ ip'[reqs'[j]] = ip'[reqs'[k]]
          PROVE  j = k
      <4>1. CASE j = 1 \/ k = 1
        BY <3>1, <3>2, <3>3, <3>4, <3>5, <4>1
      <4>2. CASE j # 1 /\ k # 1
        <5>1. j - 1 = k - 1
          BY <3>1, <3>4, <3>5, <4>2 DEF QueueInv, QueueIntegrity, OneRequestPerNextHop
        <5> QED  BY <1>d, <3>2, <5>1
      <4> QED  BY <4>1, <4>2
    <3>6. ASSUME NEW k \in DOMAIN reqs'
          PROVE  reqs'[k] \in alive' /\ pkts'[reqs'[k]] # <<>>
      <4>1. CASE k = 1
        BY <2>2, <3>2, <3>3, <4>1
      <4>2. CASE k # 1
        BY <2>2, <3>1, <3>4, <4>2
      <4> QED  BY <4>1, <4>2
    <3> QED  BY <3>5, <3>6 DEF QueueInv, QueueIntegrity, OneRequestPerNextHop
  <2> QED  BY <1>2, <2>1, <2>2 DEF Route
<1>3. ASSUME NEW t \in Thread, Destroy(t) PROVE QueueInv'
  <2> DEFINE r == Top(t).req
  <2>1. /\ \A x \in Req \ {r} : ip'[x] = ip[x] /\ pkts'[x] = pkts[x]
        /\ alive' = alive \ {r}
    BY <1>3, <1>s DEF Destroy, TypeOK
  <2>2. CASE PositionsOf(r) = {} /\ UNCHANGED reqs
    <3>1. \A j \in DOMAIN reqs : reqs[j] \in Req \ {r}
      BY <1>d, <2>2, ElementOfSeq DEF PositionsOf
    <3> QED  BY <2>1, <2>2, <3>1 DEF QueueInv, QueueIntegrity, OneRequestPerNextHop
  <2>3. ASSUME NEW i \in First(PositionsOf(r)), reqs' = RemoveAt(reqs, i)
        PROVE  QueueInv'
    <3>1. i \in DOMAIN reqs /\ reqs[i] = r
      BY DEF First, PositionsOf
    <3>2. \A j \in DOMAIN reqs' :
            LET m == IF j < i THEN j ELSE j + 1
            IN  m \in DOMAIN reqs /\ m # i /\ reqs'[j] = reqs[m]
      BY <1>s, <2>3, <3>1, UnlinkFacts
    <3>3. DOMAIN reqs' \subseteq Int
      BY <1>d, <2>3, <3>1, RemoveAtFacts, LenProperties
    <3>4. \A j \in DOMAIN reqs' : reqs'[j] \in Req \ {r}
      BY <1>d, <3>1, <3>2, ElementOfSeq DEF QueueInv, QueueIntegrity
    <3> QED  BY <1>d, <2>1, <3>1, <3>2, <3>3, <3>4
             DEF QueueInv, QueueIntegrity, OneRequestPerNextHop
  <2> QED  BY <1>3, <2>2, <2>3 DEF Destroy
<1>4. CASE UNCHANGED <<reqs, alive, ip, pkts>>
  BY <1>4 DEF QueueInv, QueueIntegrity, OneRequestPerNextHop
<1>5. ASSUME NEW t \in Thread, Step(t) PROVE QueueInv'
  BY <1>2, <1>3, <1>4, <1>5
     DEF Step, Drain, Check, Count, Ask, Bump, GiveUp, LoopEnd, UseAfterFree, memory
<1>6. ASSUME \/ \E p \in Packets : HandleIp(p)
             \/ SweepBegin \/ SweepStep \/ Tick \/ Faulted
      PROVE  QueueInv'
  BY <1>4, <1>6 DEF HandleIp, SweepBegin, SweepStep, Tick, Faulted, vars, memory
<1>7. CASE UNCHANGED vars
  BY <1>4, <1>7 DEF vars, memory
<1> QED  BY <1>1, <1>5, <1>6, <1>7 DEF Next

\* Whatever the receiver and the sweeper do to each other, the queue holds
\* every request once, only allocated requests, none without a packet, and
\* one request per next hop.
THEOREM QueueCorrect == Spec => [](QueueIntegrity /\ OneRequestPerNextHop)
<1>1. Init => QueueInv
  BY DEF Init, QueueInv, QueueIntegrity, OneRequestPerNextHop
<1>2. Spec => []TypeInv
  BY TypeInit, TypeNext, PTL DEF Spec
<1>3. Spec => []QueueInv
  BY <1>1, <1>2, QueueNext, PTL DEF Spec
<1> QED  BY <1>3, PTL DEF QueueInv

-----------------------------------------------------------------------------
\* The counters behind GiveUpIsEarned: an allocated request has a packet, so
\* handle_arpreq always finds an interface to ask on, and times_sent never
\* runs ahead of the ARP requests sent; nor will the store of an increment
\* that is under way.
CountersInv ==
    /\ \A r \in alive : pkts[r] # <<>> /\ times[r] <= asked[r]
    /\ \A t \in Thread : \A k \in DOMAIN stack[t] :
         LET a == stack[t][k] IN
         a.req \in alive => /\ a.pc = "bump" => a.n + 1 <= asked[a.req]
                            /\ a.pc = "giveup" => asked[a.req] >= MaxTries

\* The part of CountersInv about activations, when no count goes down and
\* nothing new is allocated.
LEMMA CountersKept ==
    ASSUME TypeInv, CountersInv, NEW t \in Thread, NEW New, OnlyNew(t, New),
           alive' \subseteq alive,
           asked' \in [Req -> Nat],
           \A r \in alive' : asked'[r] >= asked[r],
           \A a \in New : a.req \in alive' =>
                /\ a.pc = "bump" => a.n + 1 <= asked'[a.req]
                /\ a.pc = "giveup" => asked'[a.req] >= MaxTries
    PROVE  \A u \in Thread : \A k \in DOMAIN stack'[u] :
             LET a == stack'[u][k] IN
             a.req \in alive' => /\ a.pc = "bump" => a.n + 1 <= asked'[a.req]
                                 /\ a.pc = "giveup" => asked'[a.req] >= MaxTries
<1> SUFFICES ASSUME NEW u \in Thread, NEW k \in DOMAIN stack'[u],
                    stack'[u][k].req \in alive'
             PROVE  LET a == stack'[u][k] IN
                    /\ a.pc = "bump" => a.n + 1 <= asked'[a.req]
                    /\ a.pc = "giveup" => asked'[a.req] >= MaxTries
  OBVIOUS
<1>1. CASE stack'[u][k] \in New
  BY <1>1
<1>2. ASSUME NEW j \in DOMAIN stack[u], stack'[u][k] = stack[u][j]
      PROVE  LET a == stack'[u][k] IN
             /\ a.pc = "bump" => a.n + 1 <= asked'[a.req]
             /\ a.pc = "giveup" => asked'[a.req] >= MaxTries
  <2> DEFINE a == stack[u][j]
  <2>1. a \in Activation
    BY LenProperties, ElementOfSeq DEF TypeInv, TypeOK
  <2>2. a.n \in Nat /\ a.req \in Req /\ a.req \in alive
    BY <1>2, <2>1 DEF Activation, TypeInv, TypeOK
  <2>3. /\ a.pc = "bump" => a.n + 1 <= asked[a.req]
        /\ a.pc = "giveup" => asked[a.req] >= MaxTries
    BY <2>2 DEF CountersInv
  <2>4. asked[a.req] \in Nat /\ asked'[a.req] \in Nat /\ asked'[a.req] >= asked[a.req]
    BY <1>2, <2>2 DEF TypeInv, TypeOK
  <2>5. MaxTries \in Nat
    BY ArpQueueAssumption
  <2> HIDE DEF a
  <2>6. /\ a.pc = "bump" => a.n + 1 <= asked'[a.req]
        /\ a.pc = "giveup" => asked'[a.req] >= MaxTries
    BY <2>2, <2>3, <2>4, <2>5
  <2> QED  BY <1>2, <2>6 DEF a
<1> QED  BY <1>1, <1>2 DEF OnlyNew

\* Every step keeps the counters of ARP requests related: times_sent, what a
\* thread loaded of it, and the requests really sent.
LEMMA CountersNext == TypeInv /\ CountersInv /\ [Next]_vars => CountersInv'
<1> SUFFICES ASSUME TypeInv, CountersInv, [Next]_vars PROVE CountersInv'
  OBVIOUS
<1>s. TypeOK /\ stack \in Stacks /\ asked \in [Req -> Nat] /\ times \in [Req -> Nat]
  BY DEF TypeInv, TypeOK, Stacks
<1>a. alive \subseteq Req /\ \A r \in alive : asked[r] >= asked[r]
  BY <1>s DEF TypeOK
<1>1. ASSUME NEW t \in Thread, NEW New, OnlyNew(t, New),
             UNCHANGED <<alive, pkts, times, asked>>,
             \A a \in New : a.req \in alive =>
                /\ a.pc # "bump"
                /\ a.pc = "giveup" => asked[a.req] >= MaxTries
      PROVE  CountersInv'
  <2>1. \A u \in Thread : \A k \in DOMAIN stack'[u] :
             LET a == stack'[u][k] IN
             a.req \in alive' => /\ a.pc = "bump" => a.n + 1 <= asked'[a.req]
                                 /\ a.pc = "giveup" => asked'[a.req] >= MaxTries
    BY <1>1, <1>s, <1>a, CountersKept
  <2> QED  BY <1>1, <2>1 DEF CountersInv
<1>2. ASSUME NEW p \in Packets, HandleIp(p) PROVE CountersInv'
  <2>1. CASE UNCHANGED stack
    BY <1>2, <2>1 DEF HandleIp, memory, CountersInv
  <2>2. ASSUME NEW q \in handle_ip_packet(p),
               stack' = [stack EXCEPT !["receiver"] = <<Act("route", NULL, <<q>>)>>]
        PROVE  CountersInv'
    <3>1. <<q>> \in Seq(QueuedPacket)
      BY HandleIpType, ArpQueueAssumption
    <3> DEFINE a == Act("route", NULL, <<q>>)
    <3>2. a \in Activation /\ a.pc = "route"
      BY <3>1 DEF Act, Activation, PC
    <3> HIDE DEF a
    <3>3. "receiver" \in Thread /\ OnlyNew("receiver", {a})
      BY <1>s, <2>2, <3>2, StartFacts DEF Thread, a
    <3> QED  BY <1>1, <1>2, <3>2, <3>3 DEF HandleIp, memory
  <2> QED  BY <1>2, <2>1, <2>2 DEF HandleIp
<1>3. ASSUME NEW a \in IP, HandleArpReply(a) PROVE CountersInv'
  <2>1. PICK i \in DOMAIN reqs :
            stack' = [stack EXCEPT !["receiver"] =
                            <<Act("drain", reqs[i], pkts[reqs[i]])>>]
    BY <1>3 DEF HandleArpReply, First, PositionsFor
  <2> DEFINE b == Act("drain", reqs[i], pkts[reqs[i]])
  <2>2. b \in Activation /\ b.pc = "drain"
    <3>1. reqs[i] \in Req
      BY <1>s, LenProperties, ElementOfSeq DEF TypeOK
    <3> QED  BY <1>s, <3>1 DEF Act, Activation, PC, TypeOK
  <2> HIDE DEF b
  <2>3. "receiver" \in Thread /\ OnlyNew("receiver", {b})
    BY <1>s, <2>1, <2>2, StartFacts DEF Thread, b
  <2> QED  BY <1>1, <1>3, <2>2, <2>3 DEF HandleArpReply, history
<1>4. ASSUME NEW t \in Thread, Drain(t) PROVE CountersInv'
  <2>1. stack[t] # <<>> /\ Top(t) \in Activation
    BY <1>4, <1>s, TopFacts DEF Drain, At
  <2> DEFINE a == Act("drain", Top(t).req, Tail(Top(t).todo))
  <2>2. a \in Activation /\ a.pc = "drain"
    <3>1. Top(t).req \in Req \cup {NULL} /\ Tail(Top(t).todo) \in Seq(QueuedPacket)
      BY <1>4, <2>1, HeadTailProperties DEF Drain, Activation
    <3> QED  BY <3>1 DEF Act, Activation, PC
  <2> HIDE DEF a
  <2>3. OnlyNew(t, {a})
    BY <1>4, <1>s, <2>1, <2>2, BecomeFacts DEF Drain, a
  <2> QED  BY <1>1, <1>4, <2>2, <2>3 DEF Drain, memory
<1>5. ASSUME NEW t \in Thread, Route(t) PROVE CountersInv'
  <2> DEFINE q == Head(Top(t).todo)
             a(r) == Act("check", r, <<>>)
  <2>1. stack[t] # <<>>
    BY <1>5 DEF Route, At
  <2>2. \A r \in Req : a(r) \in Activation /\ a(r).pc = "check"
    BY EmptySeq DEF Act, Activation, PC
  <2>3. ASSUME NEW i \in First(PositionsFor(q.nh)),
               pkts' = [pkts EXCEPT ![reqs[i]] = <<q>> \o @],
               Become(t, a(reqs[i])),
               UNCHANGED <<alive, times, asked>>
        PROVE  CountersInv'
    <3>1. reqs[i] \in Req
      BY <1>s, LenProperties, ElementOfSeq DEF First, PositionsFor, TypeOK
    <3>2. OnlyNew(t, {a(reqs[i])})
      BY <1>s, <2>1, <2>2, <2>3, <3>1, BecomeFacts
    <3>3. Top(t) \in Activation /\ Top(t).todo # <<>>
      BY <1>5, <1>s, TopFacts DEF Route, At, RouteHasPacket, TypeInv
    <3>4. q \in QueuedPacket
      <4>1. Top(t).todo \in Seq(QueuedPacket)
        BY <3>3 DEF Activation
      <4> QED  BY <3>3, <4>1, HeadTailProperties
    <3>5. <<q>> \o pkts[reqs[i]] # <<>>
      BY <1>s, <3>1, <3>4, PrependFacts DEF TypeOK
    <3>6. \A r \in alive' : pkts'[r] # <<>> /\ times'[r] <= asked'[r]
      BY <1>s, <2>3, <3>1, <3>5 DEF CountersInv, TypeOK
    <3>7. \A u \in Thread : \A k \in DOMAIN stack'[u] :
             LET b == stack'[u][k] IN
             b.req \in alive' => /\ b.pc = "bump" => b.n + 1 <= asked'[b.req]
                                 /\ b.pc = "giveup" => asked'[b.req] >= MaxTries
      BY <1>s, <1>a, <2>2, <2>3, <3>1, <3>2, CountersKept
    <3> QED  BY <3>6, <3>7 DEF CountersInv
  <2>4. ASSUME NEW r \in Req \ alive, Unreferenced(r),
               alive' = alive \cup {r},
               times' = [times EXCEPT ![r] = 0],
               pkts' = [pkts EXCEPT ![r] = <<q>>],
               asked' = [asked EXCEPT ![r] = 0],
               Become(t, a(r))
        PROVE  CountersInv'
    <3>1. OnlyNew(t, {a(r)})
      BY <1>s, <2>1, <2>2, <2>4, BecomeFacts
    <3>2. \A x \in alive' : pkts'[x] # <<>> /\ times'[x] <= asked'[x]
      BY <1>s, <2>4 DEF CountersInv, TypeOK
    <3>3. ASSUME NEW u \in Thread, NEW k \in DOMAIN stack'[u]
          PROVE  LET b == stack'[u][k] IN
                 b.req \in alive' => /\ b.pc = "bump" => b.n + 1 <= asked'[b.req]
                                     /\ b.pc = "giveup" => asked'[b.req] >= MaxTries
      <4>1. CASE stack'[u][k] = a(r)
        BY <2>2, <4>1
      <4>2. ASSUME NEW j \in DOMAIN stack[u], stack'[u][k] = stack[u][j]
            PROVE  LET b == stack'[u][k] IN
                   b.req \in alive' => /\ b.pc = "bump" => b.n + 1 <= asked'[b.req]
                                       /\ b.pc = "giveup" => asked'[b.req] >= MaxTries
        <5>1. stack[u][j].req # r
          BY <2>4 DEF Unreferenced
        <5>2. \A x \in Req \ {r} : asked'[x] = asked[x]
          BY <1>s, <2>4
        <5> QED  BY <1>a, <2>4, <4>2, <5>1, <5>2 DEF CountersInv
      <4> QED  BY <3>1, <4>1, <4>2 DEF OnlyNew
    <3> QED  BY <3>2, <3>3 DEF CountersInv
  <2> QED  BY <1>5, <2>3, <2>4 DEF Route
<1>6. ASSUME NEW t \in Thread, Check(t) PROVE CountersInv'
  <2>1. stack[t] # <<>> /\ Top(t).req \in Req
    BY <1>6, <1>s, <1>a DEF Check, At
  <2> DEFINE a == Act("count", Top(t).req, <<>>)
  <2>2. a \in Activation /\ a.pc = "count"
    BY <2>1, EmptySeq DEF Act, Activation, PC
  <2> HIDE DEF a
  <2>3. OnlyNew(t, {a}) \/ OnlyNew(t, {})
    BY <1>6, <1>s, <2>1, <2>2, BecomeFacts, ReturnFacts DEF Check, a
  <2> QED  BY <1>1, <1>6, <2>2, <2>3 DEF Check, memory, history
<1>7. ASSUME NEW t \in Thread, Count(t) PROVE CountersInv'
  <2> DEFINE r == Top(t).req
             a == IF times[r] >= MaxTries THEN Act("giveup", r, pkts[r])
                                          ELSE [Top(t) EXCEPT !.pc = "ask"]
  <2>1. stack[t] # <<>> /\ Top(t) \in Activation /\ r \in alive /\ r \in Req
    BY <1>7, <1>s, <1>a, TopFacts DEF Count, At
  <2>2. times[r] \in Nat /\ asked[r] \in Nat /\ MaxTries \in Nat /\ times[r] <= asked[r]
    BY <1>s, <2>1, ArpQueueAssumption DEF CountersInv
  <2>3. /\ a \in Activation
        /\ a.pc # "bump"
        /\ a.pc = "giveup" => a.req = r /\ times[r] >= MaxTries
    BY <1>s, <2>1 DEF Act, Activation, PC, TypeOK
  <2> HIDE DEF a
  <2>4. OnlyNew(t, {a})
    BY <1>7, <1>s, <2>1, <2>3, BecomeFacts DEF Count, a
  <2>5. a.pc = "giveup" => asked[a.req] >= MaxTries
    BY <2>2, <2>3
  <2> QED  BY <1>1, <1>7, <2>3, <2>4, <2>5 DEF Count, memory, history
<1>8. ASSUME NEW t \in Thread, Ask(t) PROVE CountersInv'
  <2> DEFINE r == Top(t).req
             a == [Act("bump", r, <<>>) EXCEPT !.n = times[r]]
  <2>1. stack[t] # <<>> /\ r \in alive /\ r \in Req
    BY <1>8, <1>a DEF Ask, At
  <2>2. a \in Activation /\ a.pc = "bump" /\ a.req = r /\ a.n = times[r]
    BY <1>s, <2>1, EmptySeq DEF Act, Activation, PC
  <2> HIDE DEF a
  <2>3. OnlyNew(t, {a})
    BY <1>8, <1>s, <2>1, <2>2, BecomeFacts DEF Ask, a
  <2>4. asked' = [asked EXCEPT ![r] = @ + 1]
    BY <1>8, <1>s, <2>1 DEF Ask, CountersInv
  <2>5. /\ asked' \in [Req -> Nat]
        /\ \A x \in alive : asked'[x] >= asked[x]
        /\ times[r] + 1 <= asked'[r]
    BY <1>s, <1>a, <2>1, <2>4 DEF CountersInv
  <2>6. UNCHANGED <<alive, times, pkts>>
    BY <1>8 DEF Ask
  <2>7. \A x \in alive' : pkts'[x] # <<>> /\ times'[x] <= asked'[x]
    BY <1>s, <1>a, <2>5, <2>6 DEF CountersInv
  <2>8. \A u \in Thread : \A k \in DOMAIN stack'[u] :
             LET b == stack'[u][k] IN
             b.req \in alive' => /\ b.pc = "bump" => b.n + 1 <= asked'[b.req]
                                 /\ b.pc = "giveup" => asked'[b.req] >= MaxTries
    BY <2>2, <2>3, <2>5, <2>6, CountersKept
  <2> QED  BY <2>7, <2>8 DEF CountersInv
<1>9. ASSUME NEW t \in Thread, Bump(t) PROVE CountersInv'
  <2> DEFINE r == Top(t).req
  <2>1. /\ stack[t] # <<>> /\ Top(t) \in Activation /\ 1 \in DOMAIN stack[t]
        /\ Top(t) = stack[t][1] /\ r \in alive /\ Top(t).pc = "bump"
    BY <1>9, <1>s, TopFacts DEF Bump, At
  <2>2. Top(t).n + 1 <= asked[r]
    BY <2>1 DEF CountersInv
  <2>3. OnlyNew(t, {})
    BY <1>9, <1>s, <2>1, ReturnFacts DEF Bump
  <2>4. UNCHANGED <<alive, pkts, asked>> /\ times' = [times EXCEPT ![r] = Top(t).n + 1]
    BY <1>9 DEF Bump, history
  <2>5. \A x \in alive' : pkts'[x] # <<>> /\ times'[x] <= asked'[x]
    BY <1>s, <1>a, <2>2, <2>4 DEF CountersInv
  <2>6. \A u \in Thread : \A k \in DOMAIN stack'[u] :
             LET b == stack'[u][k] IN
             b.req \in alive' => /\ b.pc = "bump" => b.n + 1 <= asked'[b.req]
                                 /\ b.pc = "giveup" => asked'[b.req] >= MaxTries
    BY <1>s, <1>a, <2>3, <2>4, CountersKept
  <2> QED  BY <2>5, <2>6 DEF CountersInv
<1>10. ASSUME NEW t \in Thread, GiveUp(t) PROVE CountersInv'
  <2> DEFINE f == Head(Top(t).todo).buf
             errors == send_icmp_error("host_unreachable", f, NoIP)
             rest == Act("giveup", Top(t).req, Tail(Top(t).todo))
  <2>1. /\ stack[t] # <<>> /\ Top(t) \in Activation /\ 1 \in DOMAIN stack[t]
        /\ Top(t) = stack[t][1] /\ Top(t).req \in alive /\ Top(t).pc = "giveup"
        /\ Top(t).todo # <<>>
    BY <1>10, <1>s, TopFacts DEF GiveUp, At
  <2>2. asked[Top(t).req] >= MaxTries
    BY <2>1 DEF CountersInv
  <2>3. Head(Top(t).todo) \in QueuedPacket /\ Tail(Top(t).todo) \in Seq(QueuedPacket)
    <3>1. Top(t).todo \in Seq(QueuedPacket)
      BY <2>1 DEF Activation
    <3> QED  BY <2>1, <3>1, HeadTailProperties
  <2>4. rest \in Activation /\ rest.pc = "giveup" /\ rest.req = Top(t).req
    BY <2>1, <2>3 DEF Act, Activation, PC
  <2>5. errors \subseteq QueuedPacket
    <3>1. f.id \in Id /\ f.src \in IP /\ f.kind \in PacketKind \cup FrameKind
      BY <2>3 DEF Frame, QueuedPacket
    <3>2. "host_unreachable" \in ErrorKind
      BY DEF ErrorKind
    <3> QED  BY <3>1, <3>2, ErrorType
  <2> HIDE DEF f, errors, rest
  <2>6. UNCHANGED <<alive, pkts, times, asked>>
    BY <1>10 DEF GiveUp, memory
  <2>7. CASE Become(t, rest)
    <3>1. OnlyNew(t, {rest})
      BY <1>s, <2>1, <2>4, <2>7, BecomeFacts
    <3> QED  BY <1>1, <2>2, <2>4, <2>6, <3>1
  <2>8. ASSUME NEW e \in errors, BecomeAndCall(t, rest, Act("route", NULL, <<e>>))
        PROVE  CountersInv'
    <3> DEFINE b == Act("route", NULL, <<e>>)
    <3>1. b \in Activation /\ b.pc = "route"
      <4>1. <<e>> \in Seq(QueuedPacket)
        BY <2>5
      <4> QED  BY <4>1 DEF Act, Activation, PC
    <3> HIDE DEF b
    <3>2. BecomeAndCall(t, rest, b)
      BY <2>8 DEF b
    <3>3. OnlyNew(t, {rest, b})
      BY <1>s, <2>1, <2>4, <3>1, <3>2, CallFacts
    <3> QED  BY <1>1, <2>2, <2>4, <2>6, <3>1, <3>3
  <2>9. CASE UNCHANGED stack
    BY <2>6, <2>9 DEF CountersInv
  <2> QED  BY <1>10, <2>7, <2>8, <2>9 DEF GiveUp, f, errors, rest
<1>11. ASSUME NEW t \in Thread, LoopEnd(t) PROVE CountersInv'
  <2>1. stack[t] # <<>> /\ Top(t).req \in Req
    BY <1>11, <1>a DEF LoopEnd, At
  <2> DEFINE a == Act("destroy", Top(t).req, <<>>)
  <2>2. a \in Activation /\ a.pc = "destroy"
    BY <2>1, EmptySeq DEF Act, Activation, PC
  <2> HIDE DEF a
  <2>3. OnlyNew(t, {a})
    BY <1>11, <1>s, <2>1, <2>2, BecomeFacts DEF LoopEnd, a
  <2> QED  BY <1>1, <1>11, <2>2, <2>3 DEF LoopEnd, memory, history
<1>12. ASSUME NEW t \in Thread, Destroy(t) PROVE CountersInv'
  <2> DEFINE r == Top(t).req
  <2>1. stack[t] # <<>>
    BY <1>12 DEF Destroy, At
  <2>2. OnlyNew(t, {})
    BY <1>12, <1>s, <2>1, ReturnFacts DEF Destroy
  <2>3. /\ alive' = alive \ {r}
        /\ asked' \in [Req -> Nat]
        /\ \A x \in Req \ {r} : /\ asked'[x] = asked[x] /\ times'[x] = times[x]
                                /\ pkts'[x] = pkts[x]
    BY <1>12, <1>s DEF Destroy, TypeOK
  <2>4. \A x \in alive' : pkts'[x] # <<>> /\ times'[x] <= asked'[x]
    BY <1>a, <2>3 DEF CountersInv
  <2>5. \A u \in Thread : \A k \in DOMAIN stack'[u] :
             LET b == stack'[u][k] IN
             b.req \in alive' => /\ b.pc = "bump" => b.n + 1 <= asked'[b.req]
                                 /\ b.pc = "giveup" => asked'[b.req] >= MaxTries
    <3>1. alive' \subseteq alive /\ \A x \in alive' : asked'[x] >= asked[x]
      BY <1>s, <1>a, <2>3
    <3> QED  BY <2>2, <2>3, <3>1, CountersKept
  <2> QED  BY <2>4, <2>5 DEF CountersInv
<1>13. ASSUME NEW t \in Thread, UseAfterFree(t) PROVE CountersInv'
  BY <1>13 DEF UseAfterFree, CountersInv, memory, history
<1>14. ASSUME SweepBegin PROVE CountersInv'
  <2> DEFINE a == Act("sweep", IF reqs = <<>> THEN NULL ELSE Head(reqs), <<>>)
  <2>1. a \in Activation /\ a.pc = "sweep"
    <3>1. (IF reqs = <<>> THEN NULL ELSE Head(reqs)) \in Req \cup {NULL}
      BY <1>s, HeadTailProperties DEF TypeOK
    <3> QED  BY <3>1, EmptySeq DEF Act, Activation, PC
  <2> HIDE DEF a
  <2>2. "sweeper" \in Thread /\ OnlyNew("sweeper", {a})
    BY <1>14, <1>s, <2>1, StartFacts DEF SweepBegin, Thread, a
  <2> QED  BY <1>1, <1>14, <2>1, <2>2 DEF SweepBegin, memory, history
<1>15. ASSUME SweepStep PROVE CountersInv'
  <2>1. "sweeper" \in Thread /\ stack["sweeper"] # <<>>
    BY <1>15 DEF SweepStep, At, Thread
  <2>2. UNCHANGED <<alive, pkts, times, asked>>
    BY <1>15 DEF SweepStep, memory, history
  <2>3. CASE Return("sweeper")
    <3>1. OnlyNew("sweeper", {})
      BY <1>s, <2>1, <2>3, ReturnFacts
    <3> QED  BY <1>1, <2>1, <2>2, <3>1
  <2>4. ASSUME NEW r \in alive,
               BecomeAndCall("sweeper", Act("sweep", NextReq(r), <<>>),
                             Act("check", r, <<>>))
        PROVE  CountersInv'
    <3> DEFINE a == Act("sweep", NextReq(r), <<>>)
               b == Act("check", r, <<>>)
    <3>1. /\ a \in Activation /\ a.pc = "sweep"
          /\ b \in Activation /\ b.pc = "check"
      BY <1>s, <1>a, NextReqType, EmptySeq DEF Act, Activation, PC
    <3> HIDE DEF a, b
    <3>2. BecomeAndCall("sweeper", a, b)
      BY <2>4 DEF a, b
    <3>3. OnlyNew("sweeper", {a, b})
      BY <1>s, <2>1, <3>1, <3>2, CallFacts
    <3> QED  BY <1>1, <2>1, <2>2, <3>1, <3>3
  <2> QED  BY <1>15, <2>3, <2>4 DEF SweepStep
<1>16. ASSUME Tick PROVE CountersInv'
  <2> DEFINE late(a) == IF a.pc \in {"count", "ask"} THEN [a EXCEPT !.late = TRUE] ELSE a
  <2>1. \A a \in Activation : late(a).pc = a.pc /\ late(a).req = a.req /\ late(a).n = a.n
    BY DEF Activation
  <2>2. stack' = [t \in Thread |-> [k \in DOMAIN stack[t] |-> late(stack[t][k])]]
    BY <1>16 DEF Tick
  <2> HIDE DEF late
  <2>3. UNCHANGED <<alive, pkts, times, asked>>
    BY <1>16 DEF Tick, history
  <2>4. \A t \in Thread : \A k \in DOMAIN stack[t] : stack[t][k] \in Activation
    BY <1>s, LenProperties, ElementOfSeq DEF Stacks
  <2>5. ASSUME NEW t \in Thread, NEW k \in DOMAIN stack'[t]
        PROVE  /\ k \in DOMAIN stack[t]
               /\ stack'[t][k].pc = stack[t][k].pc
               /\ stack'[t][k].req = stack[t][k].req
               /\ stack'[t][k].n = stack[t][k].n
    BY <2>1, <2>2, <2>4
  <2> QED  BY <2>3, <2>5 DEF CountersInv
<1>17. CASE UNCHANGED vars
  BY <1>17 DEF vars, memory, history, CountersInv
<1> QED
  BY <1>2, <1>3, <1>4, <1>5, <1>6, <1>7, <1>8, <1>9, <1>10, <1>11,
     <1>12, <1>13, <1>14, <1>15, <1>16, <1>17 DEF Next, Step, Faulted

\* Giving up is earned, for every MaxTries: whoever reports host unreachable
\* for a request that is still allocated has sent MaxTries ARP requests for
\* it, even though the two threads race on times_sent.
THEOREM GivingUpIsEarned == Spec => []GiveUpIsEarned
<1>1. Init => CountersInv
  BY DEF Init, CountersInv
<1>2. Spec => []TypeInv
  BY TypeInit, TypeNext, PTL DEF Spec
<1>3. Spec => []CountersInv
  BY <1>1, <1>2, CountersNext, PTL DEF Spec
<1>4. CountersInv => GiveUpIsEarned
  BY DEF CountersInv, GiveUpIsEarned
<1> QED  BY <1>3, <1>4, PTL

-----------------------------------------------------------------------------
(* How a step changes the call stacks, position by position.               *)

\* What an activation holds.
Is(a, pc, r, todo) == a.pc = pc /\ a.req = r /\ a.todo = todo

OthersKept(t) == \A u \in Thread \ {t} : stack'[u] = stack[u]

\* Thread t starts with activation a.
Started(t, a) ==
    /\ stack' \in Stacks
    /\ stack[t] = <<>>
    /\ Len(stack'[t]) = 1
    /\ stack'[t][1] = a
    /\ OthersKept(t)

\* The innermost activation of t becomes a.
Replaced(t, a) ==
    /\ stack' \in Stacks
    /\ Len(stack'[t]) = Len(stack[t])
    /\ stack'[t][1] = a
    /\ \A k \in 2..Len(stack[t]) : stack'[t][k] = stack[t][k]
    /\ OthersKept(t)

\* The innermost activation of t becomes a, which calls b.
Pushed(t, a, b) ==
    /\ stack' \in Stacks
    /\ Len(stack'[t]) = Len(stack[t]) + 1
    /\ stack'[t][1] = b
    /\ stack'[t][2] = a
    /\ \A k \in 2..Len(stack[t]) : stack'[t][k + 1] = stack[t][k]
    /\ OthersKept(t)

\* The innermost activation of t returns.
Popped(t) ==
    /\ stack' \in Stacks
    /\ Len(stack'[t]) = Len(stack[t]) - 1
    /\ \A k \in 1..(Len(stack[t]) - 1) : stack'[t][k] = stack[t][k + 1]
    /\ OthersKept(t)

\* The positions of a stack.
LEMMA StackFacts ==
    ASSUME stack \in Stacks, NEW t \in Thread
    PROVE  /\ stack[t] \in Seq(Activation)
           /\ Len(stack[t]) \in Nat
           /\ DOMAIN stack[t] = 1..Len(stack[t])
           /\ stack[t] = <<>> <=> Len(stack[t]) = 0
           /\ \A k \in 1..Len(stack[t]) : stack[t][k] \in Activation
           /\ stack[t] # <<>> => Top(t) = stack[t][1]
BY LenProperties, ElementOfSeq, EmptySeq, HeadTailProperties DEF Stacks, Top

\* Going on to another statement, or another round of a loop.
LEMMA ReplacedFacts ==
    ASSUME stack \in Stacks, NEW t \in Thread, stack[t] # <<>>,
           NEW a \in Activation, Become(t, a)
    PROVE  Replaced(t, a)
<1> DEFINE s == stack[t]
           r == Tail(s)
           n == <<a>> \o r
<1>1. /\ r \in Seq(Activation)
      /\ Len(r) = Len(s) - 1
      /\ \A i \in 1..Len(r) : r[i] = s[i + 1]
      /\ Len(s) \in Nat
  BY HeadTailProperties, LenProperties DEF Stacks
<1>2. stack' = [stack EXCEPT ![t] = n]
  BY DEF Become, Stacks
<1> HIDE DEF r
<1>3. /\ n \in Seq(Activation)
      /\ Len(n) = Len(r) + 1
      /\ n[1] = a
      /\ \A k \in 2..(Len(r) + 1) : n[k] = r[k - 1]
  BY <1>1, PrependFacts
<1> HIDE DEF n
<1>4. stack' \in Stacks /\ stack'[t] = n /\ OthersKept(t)
  BY <1>2, <1>3 DEF Stacks, OthersKept
<1>5. \A k \in 2..Len(s) : n[k] = s[k]
  BY <1>1, <1>3
<1> QED  BY <1>1, <1>3, <1>4, <1>5 DEF Replaced

\* A call: the caller's activation stays below the callee's.
LEMMA PushedFacts ==
    ASSUME stack \in Stacks, NEW t \in Thread, stack[t] # <<>>,
           NEW a \in Activation, NEW b \in Activation, BecomeAndCall(t, a, b)
    PROVE  Pushed(t, a, b)
<1> DEFINE s == stack[t]
           r == Tail(s)
           m == <<a>> \o r
           n == <<b>> \o m
<1>1. /\ r \in Seq(Activation)
      /\ Len(r) = Len(s) - 1
      /\ \A i \in 1..Len(r) : r[i] = s[i + 1]
      /\ Len(s) \in Nat /\ Len(s) > 0
  BY HeadTailProperties, LenProperties, EmptySeq DEF Stacks
<1>2. stack' = [stack EXCEPT ![t] = n]
  BY DEF BecomeAndCall, Stacks
<1> HIDE DEF r
<1>3. /\ m \in Seq(Activation)
      /\ Len(m) = Len(r) + 1
      /\ m[1] = a
      /\ \A k \in 2..(Len(r) + 1) : m[k] = r[k - 1]
  BY <1>1, PrependFacts
<1> HIDE DEF m
<1>4. /\ n \in Seq(Activation)
      /\ Len(n) = Len(m) + 1
      /\ n[1] = b
      /\ \A k \in 2..(Len(m) + 1) : n[k] = m[k - 1]
  BY <1>3, PrependFacts
<1> HIDE DEF n
<1>5. stack' \in Stacks /\ stack'[t] = n /\ OthersKept(t)
  BY <1>2, <1>4 DEF Stacks, OthersKept
<1>6. n[2] = a
  BY <1>1, <1>3, <1>4
<1>7. \A k \in 2..Len(s) : n[k + 1] = s[k]
  <2> SUFFICES ASSUME NEW k \in 2..Len(s) PROVE n[k + 1] = s[k]
    OBVIOUS
  <2>1. n[k + 1] = m[k]
    BY <1>1, <1>3, <1>4
  <2>2. m[k] = r[k - 1]
    BY <1>1, <1>3
  <2> QED  BY <1>1, <2>1, <2>2
<1> QED  BY <1>1, <1>3, <1>4, <1>5, <1>6, <1>7 DEF Pushed

\* A return: the caller's activation is innermost again.
LEMMA PoppedFacts ==
    ASSUME stack \in Stacks, NEW t \in Thread, stack[t] # <<>>, Return(t)
    PROVE  Popped(t)
<1> DEFINE s == stack[t]
           r == Tail(s)
<1>1. /\ r \in Seq(Activation)
      /\ Len(r) = Len(s) - 1
      /\ \A i \in 1..Len(r) : r[i] = s[i + 1]
  BY HeadTailProperties, LenProperties DEF Stacks
<1>2. stack' = [stack EXCEPT ![t] = r]
  BY DEF Return, Stacks
<1> HIDE DEF r
<1>3. stack' \in Stacks /\ stack'[t] = r /\ OthersKept(t)
  BY <1>1, <1>2 DEF Stacks, OthersKept
<1> QED  BY <1>1, <1>3 DEF Popped

\* An entry point starts on an empty stack.
LEMMA StartedFacts ==
    ASSUME stack \in Stacks, NEW t \in Thread, stack[t] = <<>>,
           NEW a \in Activation, stack' = [stack EXCEPT ![t] = <<a>>]
    PROVE  Started(t, a)
BY DEF Stacks, Started, OthersKept

-----------------------------------------------------------------------------
(* The stacks after each action.                                           *)

\* Facts about the innermost activation of a thread at statement pc.
LEMMA AtFacts ==
    ASSUME TypeInv, NEW t \in Thread, NEW pc, At(t, pc)
    PROVE  /\ stack \in Stacks
           /\ stack[t] # <<>>
           /\ Len(stack[t]) \in Nat \ {0}
           /\ 1 \in DOMAIN stack[t]
           /\ Top(t) = stack[t][1]
           /\ Top(t) \in Activation
           /\ Top(t).pc = pc
           /\ Top(t).req \in Req \cup {NULL}
           /\ Top(t).todo \in Seq(QueuedPacket)
           /\ Top(t).todo # <<>> => /\ Head(Top(t).todo) \in QueuedPacket
                                    /\ Tail(Top(t).todo) \in Seq(QueuedPacket)
<1>1. stack \in Stacks /\ stack[t] # <<>>
  BY DEF TypeInv, TypeOK, Stacks, At
<1>2. Top(t) \in Activation /\ Top(t) = stack[t][1] /\ 1 \in DOMAIN stack[t]
  BY <1>1, TopFacts
<1>3. Len(stack[t]) \in Nat \ {0}
  BY <1>1, StackFacts
<1>4. Top(t).req \in Req \cup {NULL} /\ Top(t).todo \in Seq(QueuedPacket)
  BY <1>2 DEF Activation
<1>5. Top(t).pc = pc
  BY DEF At, Top
<1> QED  BY <1>1, <1>2, <1>3, <1>4, <1>5, HeadTailProperties

\* A thread that moves on to a fresh activation, or calls, or starts.
LEMMA MoveShape ==
    ASSUME stack \in Stacks, NEW t \in Thread, stack[t] # <<>>,
           NEW pc \in PC, NEW r \in Req \cup {NULL}, NEW todo \in Seq(QueuedPacket),
           Become(t, Act(pc, r, todo))
    PROVE  \E a \in Activation : Is(a, pc, r, todo) /\ Replaced(t, a)
<1> DEFINE a == Act(pc, r, todo)
<1>1. a \in Activation /\ Is(a, pc, r, todo)
  BY DEF Act, Activation, Is
<1> HIDE DEF a
<1>2. Become(t, a)
  BY DEF a
<1> QED  BY <1>1, <1>2, ReplacedFacts

\* The same for a call of a function with fresh locals.
LEMMA CallShape ==
    ASSUME stack \in Stacks, NEW t \in Thread, stack[t] # <<>>,
           NEW pc \in PC, NEW r \in Req \cup {NULL}, NEW todo \in Seq(QueuedPacket),
           NEW pc2 \in PC, NEW r2 \in Req \cup {NULL}, NEW todo2 \in Seq(QueuedPacket),
           BecomeAndCall(t, Act(pc, r, todo), Act(pc2, r2, todo2))
    PROVE  \E a, b \in Activation : /\ Is(a, pc, r, todo) /\ Is(b, pc2, r2, todo2)
                                    /\ Pushed(t, a, b)
<1> DEFINE a == Act(pc, r, todo)
           b == Act(pc2, r2, todo2)
<1>1. a \in Activation /\ Is(a, pc, r, todo) /\ b \in Activation /\ Is(b, pc2, r2, todo2)
  BY DEF Act, Activation, Is
<1> HIDE DEF a, b
<1>2. BecomeAndCall(t, a, b)
  BY DEF a, b
<1> QED  BY <1>1, <1>2, PushedFacts

\* The same for an entry point.
LEMMA StartShape ==
    ASSUME stack \in Stacks, NEW t \in Thread, stack[t] = <<>>,
           NEW pc \in PC, NEW r \in Req \cup {NULL}, NEW todo \in Seq(QueuedPacket),
           stack' = [stack EXCEPT ![t] = <<Act(pc, r, todo)>>]
    PROVE  \E a \in Activation : Is(a, pc, r, todo) /\ Started(t, a)
<1> DEFINE a == Act(pc, r, todo)
<1>1. a \in Activation /\ Is(a, pc, r, todo)
  BY DEF Act, Activation, Is
<1> HIDE DEF a
<1>2. stack' = [stack EXCEPT ![t] = <<a>>]
  BY DEF a
<1> QED  BY <1>1, <1>2, StartedFacts

\* A packet that is received starts route_and_send, or nothing.
LEMMA HandleIpShape ==
    ASSUME TypeInv, NEW p \in Packets, HandleIp(p)
    PROVE  /\ stack["receiver"] = <<>>
           /\ \/ UNCHANGED stack
              \/ \E q \in handle_ip_packet(p) : \E a \in Activation :
                    /\ q \in QueuedPacket
                    /\ Is(a, "route", NULL, <<q>>)
                    /\ Started("receiver", a)
<1>1. stack["receiver"] = <<>> /\ stack \in Stacks /\ "receiver" \in Thread
  BY DEF HandleIp, Idle, TypeInv, TypeOK, Stacks, Thread
<1>2. ASSUME NEW q \in handle_ip_packet(p),
             stack' = [stack EXCEPT !["receiver"] = <<Act("route", NULL, <<q>>)>>]
      PROVE  /\ q \in QueuedPacket
             /\ \E a \in Activation : Is(a, "route", NULL, <<q>>) /\ Started("receiver", a)
  <2>1. q \in QueuedPacket
    BY HandleIpType, ArpQueueAssumption
  <2>2. <<q>> \in Seq(QueuedPacket) /\ "route" \in PC /\ NULL \in Req \cup {NULL}
    BY <2>1 DEF PC
  <2> QED  BY <1>1, <1>2, <2>1, <2>2, StartShape
<1> QED  BY <1>1, <1>2 DEF HandleIp

\* An ARP reply starts to drain the request it takes off the queue.
LEMMA HandleArpReplyShape ==
    ASSUME TypeInv, NEW ad \in IP, HandleArpReply(ad)
    PROVE  \E i \in 1..Len(reqs), a \in Activation :
             /\ reqs[i] \in Req
             /\ ip[reqs[i]] = ad
             /\ reqs' = RemoveAt(reqs, i)
             /\ Is(a, "drain", reqs[i], pkts[reqs[i]])
             /\ Started("receiver", a)
<1>1. stack["receiver"] = <<>> /\ stack \in Stacks /\ "receiver" \in Thread
  BY DEF HandleArpReply, Idle, TypeInv, TypeOK, Stacks, Thread
<1>2. PICK i \in First(PositionsFor(ad)) :
         /\ reqs' = RemoveAt(reqs, i)
         /\ stack' = [stack EXCEPT !["receiver"] = <<Act("drain", reqs[i], pkts[reqs[i]])>>]
  BY DEF HandleArpReply
<1>3. i \in 1..Len(reqs) /\ reqs[i] \in Req /\ ip[reqs[i]] = ad
  BY LenProperties, ElementOfSeq DEF TypeInv, TypeOK, First, PositionsFor
<1>4. pkts[reqs[i]] \in Seq(QueuedPacket) /\ "drain" \in PC
  BY <1>3 DEF TypeInv, TypeOK, PC
<1>5. \E a \in Activation : /\ Is(a, "drain", reqs[i], pkts[reqs[i]])
                            /\ Started("receiver", a)
  BY <1>1, <1>2, <1>3, <1>4, StartShape
<1> QED  BY <1>2, <1>3, <1>5

\* Draining goes on with the rest of the packets.
LEMMA DrainShape ==
    ASSUME TypeInv, NEW t \in Thread, Drain(t)
    PROVE  \E a \in Activation : /\ Is(a, "drain", Top(t).req, Tail(Top(t).todo))
                                 /\ Replaced(t, a)
<1>1. At(t, "drain") /\ Top(t).todo # <<>> /\ "drain" \in PC
  BY DEF Drain, PC
<1>2. Become(t, Act("drain", Top(t).req, Tail(Top(t).todo)))
  BY DEF Drain
<1> QED  BY <1>1, <1>2, AtFacts, MoveShape

\* The two ways of sr_arpcache_queuereq: packet q joins request r, or r is new
\* and put at the head of the queue.
Joins(q, r) ==
    /\ \E i \in 1..Len(reqs) : reqs[i] = r
    /\ ip[r] = q.nh
    /\ pkts'[r] = <<q>> \o pkts[r]
    /\ UNCHANGED <<reqs, alive, ip, times, due, asked>>

Opens(q, r) ==
    /\ r \notin alive
    /\ Unreferenced(r)
    /\ \A i \in 1..Len(reqs) : ip[reqs[i]] # q.nh
    /\ alive' = alive \cup {r}
    /\ reqs' = <<r>> \o reqs
    /\ ip'[r] = q.nh
    /\ times'[r] = 0
    /\ pkts'[r] = <<q>>

\* A routed frame joins a request on the queue, or a new one at its head.
LEMMA RouteShape ==
    ASSUME TypeInv, NEW t \in Thread, Route(t)
    PROVE  \E q \in QueuedPacket, r \in Req, a \in Activation :
             /\ q = Head(Top(t).todo)
             /\ Is(a, "check", r, <<>>) /\ Replaced(t, a)
             /\ \A x \in Req \ {r} : /\ pkts'[x] = pkts[x]
                                     /\ ip'[x] = ip[x]
                                     /\ times'[x] = times[x]
             /\ Joins(q, r) \/ Opens(q, r)
<1> DEFINE q == Head(Top(t).todo)
<1>1. At(t, "route") /\ "check" \in PC
  BY DEF Route, PC
<1>2. /\ stack \in Stacks /\ stack[t] # <<>> /\ <<>> \in Seq(QueuedPacket)
      /\ q \in QueuedPacket
  <2>1. Top(t).todo # <<>>
    BY <1>1, AtFacts DEF TypeInv, RouteHasPacket
  <2> QED  BY <1>1, <2>1, AtFacts, EmptySeq
<1>3. /\ DOMAIN reqs = 1..Len(reqs)
      /\ \A i \in 1..Len(reqs) : reqs[i] \in Req
  BY LenProperties, ElementOfSeq DEF TypeInv, TypeOK
<1> HIDE DEF q
<1>4. ASSUME NEW r \in Req, Become(t, Act("check", r, <<>>))
      PROVE  \E a \in Activation : Is(a, "check", r, <<>>) /\ Replaced(t, a)
  BY <1>1, <1>2, <1>4, MoveShape
<1>5. CASE \E i \in First(PositionsFor(q.nh)) :
              /\ pkts' = [pkts EXCEPT ![reqs[i]] = <<q>> \o @]
              /\ Become(t, Act("check", reqs[i], <<>>))
              /\ UNCHANGED <<reqs, alive, ip, times, due, asked>>
  <2>1. PICK i \in First(PositionsFor(q.nh)) :
              /\ pkts' = [pkts EXCEPT ![reqs[i]] = <<q>> \o @]
              /\ Become(t, Act("check", reqs[i], <<>>))
              /\ UNCHANGED <<reqs, alive, ip, times, due, asked>>
    BY <1>5
  <2>2. i \in 1..Len(reqs) /\ reqs[i] \in Req /\ ip[reqs[i]] = q.nh
    BY <1>3 DEF First, PositionsFor
  <2>3. /\ pkts'[reqs[i]] = <<q>> \o pkts[reqs[i]]
        /\ \A x \in Req \ {reqs[i]} : pkts'[x] = pkts[x]
    BY <2>1, <2>2 DEF TypeInv, TypeOK
  <2>4. PICK a \in Activation : Is(a, "check", reqs[i], <<>>) /\ Replaced(t, a)
    BY <1>4, <2>1, <2>2
  <2> QED  BY <1>2, <2>1, <2>2, <2>3, <2>4 DEF q, Joins
<1>6. CASE /\ PositionsFor(q.nh) = {}
           /\ \E r \in Req \ alive :
               /\ Unreferenced(r)
               /\ alive' = alive \cup {r}
               /\ reqs' = <<r>> \o reqs
               /\ ip' = [ip EXCEPT ![r] = q.nh]
               /\ times' = [times EXCEPT ![r] = 0]
               /\ pkts' = [pkts EXCEPT ![r] = <<q>>]
               /\ Become(t, Act("check", r, <<>>))
  <2>1. PICK r \in Req \ alive :
               /\ Unreferenced(r)
               /\ alive' = alive \cup {r}
               /\ reqs' = <<r>> \o reqs
               /\ ip' = [ip EXCEPT ![r] = q.nh]
               /\ times' = [times EXCEPT ![r] = 0]
               /\ pkts' = [pkts EXCEPT ![r] = <<q>>]
               /\ Become(t, Act("check", r, <<>>))
    BY <1>6
  <2>2. /\ ip'[r] = q.nh /\ times'[r] = 0 /\ pkts'[r] = <<q>>
        /\ \A x \in Req \ {r} : pkts'[x] = pkts[x] /\ ip'[x] = ip[x]
                                   /\ times'[x] = times[x]
    BY <2>1 DEF TypeInv, TypeOK
  <2>3. \A i \in 1..Len(reqs) : ip[reqs[i]] # q.nh
    BY <1>3, <1>6 DEF PositionsFor
  <2>4. PICK a \in Activation : Is(a, "check", r, <<>>) /\ Replaced(t, a)
    BY <1>4, <2>1
  <2> QED  BY <1>2, <2>1, <2>2, <2>3, <2>4 DEF q, Opens
<1> QED  BY <1>5, <1>6 DEF Route, q

\* handle_arpreq returns, or goes on to the count.
LEMMA CheckShape ==
    ASSUME TypeInv, NEW t \in Thread, Check(t)
    PROVE  \/ Popped(t)
           \/ \E a \in Activation : Is(a, "count", Top(t).req, <<>>) /\ Replaced(t, a)
<1>1. At(t, "check") /\ "count" \in PC
  BY DEF Check, PC
<1>2. Become(t, Act("count", Top(t).req, <<>>)) \/ Return(t)
  BY DEF Check
<1> QED  BY <1>1, <1>2, AtFacts, EmptySeq, MoveShape, PoppedFacts

\* handle_arpreq gives up, or asks.
LEMMA CountShape ==
    ASSUME TypeInv, NEW t \in Thread, Count(t)
    PROVE  \E a \in Activation :
             /\ Replaced(t, a)
             /\ a.req = Top(t).req
             /\ \/ /\ times[Top(t).req] >= MaxTries
                   /\ a.pc = "giveup" /\ a.todo = pkts[Top(t).req]
                \/ /\ ~(times[Top(t).req] >= MaxTries)
                   /\ a.pc = "ask" /\ a.todo = Top(t).todo
<1> DEFINE r == Top(t).req
<1>1. At(t, "count") /\ r \in alive
  BY DEF Count
<1>2. CASE times[r] >= MaxTries
  <2>1. Become(t, Act("giveup", r, pkts[r]))
    BY <1>2 DEF Count
  <2>2. pkts[r] \in Seq(QueuedPacket) /\ "giveup" \in PC
    BY <1>1 DEF TypeInv, TypeOK, PC
  <2>3. stack \in Stacks /\ stack[t] # <<>> /\ r \in Req \cup {NULL}
    BY <1>1, AtFacts
  <2>4. \E a \in Activation : Is(a, "giveup", r, pkts[r]) /\ Replaced(t, a)
    BY <2>1, <2>2, <2>3, MoveShape
  <2> QED  BY <1>2, <2>4 DEF Is
<1>3. CASE ~(times[r] >= MaxTries)
  <2> DEFINE a == [Top(t) EXCEPT !.pc = "ask"]
  <2>1. Become(t, a)
    BY <1>3 DEF Count
  <2>2. a \in Activation /\ a.pc = "ask" /\ a.req = r /\ a.todo = Top(t).todo
    BY <1>1, AtFacts DEF Activation, PC
  <2> HIDE DEF a
  <2> QED  BY <1>1, <1>3, <2>1, <2>2, AtFacts, ReplacedFacts
<1> QED  BY <1>2, <1>3

\* After the ARP request only the increment is left to do.
LEMMA AskShape ==
    ASSUME TypeInv, NEW t \in Thread, Ask(t)
    PROVE  \E a \in Activation : /\ Is(a, "bump", Top(t).req, <<>>)
                                 /\ a.n = times[Top(t).req]
                                 /\ Replaced(t, a)
<1> DEFINE r == Top(t).req
           a == [Act("bump", r, <<>>) EXCEPT !.n = times[r]]
<1>1. At(t, "ask") /\ r \in alive /\ Become(t, a)
  BY DEF Ask
<1>2. r \in Req /\ times[r] \in Nat
  BY <1>1 DEF TypeInv, TypeOK
<1>3. a \in Activation /\ Is(a, "bump", r, <<>>) /\ a.n = times[r]
  BY <1>2, EmptySeq DEF Act, Activation, PC, Is
<1> HIDE DEF a
<1> QED  BY <1>1, <1>3, AtFacts, ReplacedFacts

\* The increment ends handle_arpreq.
LEMMA BumpShape ==
    ASSUME TypeInv, NEW t \in Thread, Bump(t) \/ Destroy(t)
    PROVE  Popped(t)
<1>1. (At(t, "bump") \/ At(t, "destroy")) /\ Return(t)
  BY DEF Bump, Destroy
<1> QED  BY <1>1, AtFacts, PoppedFacts

\* A reported packet leaves the list, with or without a call for its error.
LEMMA GiveUpShape ==
    ASSUME TypeInv, NEW t \in Thread, GiveUp(t)
    PROVE  LET f == Head(Top(t).todo).buf IN
           /\ f \in Frame
           /\ \/ /\ \E a \in Activation :
                      /\ Is(a, "giveup", Top(t).req, Tail(Top(t).todo))
                      /\ \/ Replaced(t, a)
                         \/ \E e \in send_icmp_error("host_unreachable", f, NoIP),
                               b \in Activation :
                              /\ e \in QueuedPacket
                              /\ Is(b, "route", NULL, <<e>>)
                              /\ Pushed(t, a, b)
                 /\ reported' = reported \cup {f}
                 /\ fault' = fault
              \/ UNCHANGED <<stack, reported>> /\ fault' = "stack_overflow"
<1> DEFINE f == Head(Top(t).todo).buf
           errors == send_icmp_error("host_unreachable", f, NoIP)
           r == Top(t).req
           todo == Tail(Top(t).todo)
<1>1. At(t, "giveup") /\ Top(t).todo # <<>> /\ "giveup" \in PC /\ "route" \in PC
  BY DEF GiveUp, PC
<1>2. /\ stack \in Stacks /\ stack[t] # <<>>
      /\ r \in Req \cup {NULL} /\ todo \in Seq(QueuedPacket)
      /\ Head(Top(t).todo) \in QueuedPacket
  BY <1>1, AtFacts
<1>3. f \in Frame
  BY <1>2 DEF QueuedPacket
<1>4. errors \subseteq QueuedPacket
  <2>1. f.id \in Id /\ f.src \in IP /\ f.kind \in PacketKind \cup FrameKind
    BY <1>3 DEF Frame
  <2>2. "host_unreachable" \in ErrorKind
    BY DEF ErrorKind
  <2> QED  BY <2>1, <2>2, ErrorType
<1>5. \/ /\ Become(t, Act("giveup", r, todo))
         /\ reported' = reported \cup {f} /\ fault' = fault
      \/ \E e \in errors : /\ BecomeAndCall(t, Act("giveup", r, todo),
                                               Act("route", NULL, <<e>>))
                           /\ reported' = reported \cup {f} /\ fault' = fault
      \/ UNCHANGED <<stack, reported>> /\ fault' = "stack_overflow"
  BY DEF GiveUp
<1> HIDE DEF f, errors, r, todo
<1>6. ASSUME Become(t, Act("giveup", r, todo))
      PROVE  \E a \in Activation : Is(a, "giveup", r, todo) /\ Replaced(t, a)
  BY <1>1, <1>2, <1>6, MoveShape
<1>7. ASSUME NEW e \in errors,
             BecomeAndCall(t, Act("giveup", r, todo), Act("route", NULL, <<e>>))
      PROVE  \E a, b \in Activation : /\ Is(a, "giveup", r, todo)
                                      /\ Is(b, "route", NULL, <<e>>)
                                      /\ Pushed(t, a, b)
  <2>1. <<e>> \in Seq(QueuedPacket) /\ NULL \in Req \cup {NULL}
    BY <1>4
  <2> QED  BY <1>1, <1>2, <1>7, <2>1, CallShape
<1>8. \/ /\ \E a \in Activation :
              /\ Is(a, "giveup", r, todo)
              /\ \/ Replaced(t, a)
                 \/ \E e \in errors, b \in Activation :
                      /\ e \in QueuedPacket
                      /\ Is(b, "route", NULL, <<e>>)
                      /\ Pushed(t, a, b)
         /\ reported' = reported \cup {f}
         /\ fault' = fault
      \/ UNCHANGED <<stack, reported>> /\ fault' = "stack_overflow"
  <2>1. CASE \E e \in errors :
                 /\ BecomeAndCall(t, Act("giveup", r, todo), Act("route", NULL, <<e>>))
                 /\ reported' = reported \cup {f} /\ fault' = fault
    BY <1>4, <1>7, <2>1
  <2>2. CASE /\ Become(t, Act("giveup", r, todo))
             /\ reported' = reported \cup {f} /\ fault' = fault
    BY <1>6, <2>2
  <2> QED  BY <1>5, <2>1, <2>2
<1> QED  BY <1>3, <1>8 DEF f, errors, r, todo

\* A loop that is done goes on to the destruction.
LEMMA LoopEndShape ==
    ASSUME TypeInv, NEW t \in Thread, LoopEnd(t)
    PROVE  \E a \in Activation : Is(a, "destroy", Top(t).req, <<>>) /\ Replaced(t, a)
<1>1. (At(t, "giveup") \/ At(t, "drain")) /\ "destroy" \in PC
  BY DEF LoopEnd, PC
<1>2. Become(t, Act("destroy", Top(t).req, <<>>))
  BY DEF LoopEnd
<1> QED  BY <1>1, <1>2, AtFacts, EmptySeq, MoveShape

\* The sweep starts at the head of the queue, or at its end.
LEMMA SweepBeginShape ==
    ASSUME TypeInv, SweepBegin
    PROVE  \E a \in Activation :
             /\ Is(a, "sweep", IF reqs = <<>> THEN NULL ELSE Head(reqs), <<>>)
             /\ Started("sweeper", a)
<1>1. stack["sweeper"] = <<>> /\ stack \in Stacks /\ "sweeper" \in Thread /\ "sweep" \in PC
  BY DEF SweepBegin, Idle, TypeInv, TypeOK, Stacks, Thread, PC
<1>2. (IF reqs = <<>> THEN NULL ELSE Head(reqs)) \in Req \cup {NULL}
  BY HeadTailProperties DEF TypeInv, TypeOK
<1> QED  BY <1>1, <1>2, EmptySeq, StartShape DEF SweepBegin

\* The sweep ends, or calls handle_arpreq with the next request captured.
LEMMA SweepStepShape ==
    ASSUME TypeInv, SweepStep
    PROVE  \/ /\ Popped("sweeper")
              /\ lock' = NULL
           \/ /\ Top("sweeper").req \in alive
              /\ lock' = lock
              /\ \E a, b \in Activation :
                   /\ Is(a, "sweep", NextReq(Top("sweeper").req), <<>>)
                   /\ Is(b, "check", Top("sweeper").req, <<>>)
                   /\ Pushed("sweeper", a, b)
<1> DEFINE r == Top("sweeper").req
<1>1. At("sweeper", "sweep") /\ "sweeper" \in Thread /\ {"sweep", "check"} \subseteq PC
  BY DEF SweepStep, Thread, PC
<1>2. /\ stack \in Stacks /\ stack["sweeper"] # <<>>
      /\ r \in Req \cup {NULL} /\ NextReq(r) \in Req \cup {NULL}
  BY <1>1, AtFacts, NextReqType DEF TypeInv
<1> HIDE DEF r
<1>3. CASE Return("sweeper") /\ lock' = NULL
  BY <1>1, <1>2, <1>3, PoppedFacts
<1>4. CASE /\ r \in alive
           /\ lock' = lock
           /\ BecomeAndCall("sweeper", Act("sweep", NextReq(r), <<>>), Act("check", r, <<>>))
  BY <1>1, <1>2, <1>4, CallShape, EmptySeq DEF r
<1> QED  BY <1>3, <1>4 DEF SweepStep, r

\* The clock changes no activation but for what it has read of it.
LEMMA TickShape ==
    ASSUME TypeInv, Tick
    PROVE  /\ stack' \in Stacks
           /\ \A t \in Thread :
                /\ Len(stack'[t]) = Len(stack[t])
                /\ \A k \in 1..Len(stack[t]) :
                     /\ stack'[t][k].pc = stack[t][k].pc
                     /\ stack'[t][k].req = stack[t][k].req
                     /\ stack'[t][k].todo = stack[t][k].todo
                     /\ stack'[t][k].n = stack[t][k].n
<1> DEFINE late(a) == IF a.pc \in {"count", "ask"} THEN [a EXCEPT !.late = TRUE] ELSE a
<1>1. \A a \in Activation : /\ late(a) \in Activation
                            /\ late(a).pc = a.pc /\ late(a).req = a.req
                            /\ late(a).todo = a.todo /\ late(a).n = a.n
  BY DEF Activation
<1>2. stack' = [t \in Thread |-> [k \in DOMAIN stack[t] |-> late(stack[t][k])]]
  BY DEF Tick
<1> HIDE DEF late
<1>3. stack \in Stacks
  BY DEF TypeInv, TypeOK, Stacks
<1>4. ASSUME NEW t \in Thread
      PROVE  /\ Len(stack'[t]) = Len(stack[t])
             /\ stack'[t] \in Seq(Activation)
             /\ \A k \in 1..Len(stack[t]) : stack'[t][k] = late(stack[t][k])
  <2>1. /\ DOMAIN stack[t] = 1..Len(stack[t]) /\ Len(stack[t]) \in Nat
        /\ \A k \in 1..Len(stack[t]) : stack[t][k] \in Activation
    BY <1>3, StackFacts
  <2>2. stack'[t] = [k \in 1..Len(stack[t]) |-> late(stack[t][k])]
    BY <1>2, <2>1
  <2>3. stack'[t] \in [1..Len(stack[t]) -> Activation]
    BY <1>1, <2>1, <2>2
  <2>4. stack'[t] \in Seq(Activation)
    BY <2>1, <2>3, IsASeq
  <2> QED  BY <2>1, <2>2, <2>4, LenProperties
<1>5. stack' \in Stacks
  BY <1>2, <1>4 DEF Stacks
<1>6. \A t \in Thread : \A k \in 1..Len(stack[t]) : stack[t][k] \in Activation
  BY <1>3, StackFacts
<1> QED  BY <1>1, <1>4, <1>5, <1>6

-----------------------------------------------------------------------------
(* Who may call whom, and who holds the lock.                              *)

\* Only the loops that give up and that sweep call anything; the sweep is the
\* outermost activation of the sweeper, and the sweeper drains nothing.
PlaceOK(t, a, k, len) ==
    /\ k > 1 => a.pc \in {"giveup", "sweep"}
    /\ t = "receiver" => a.pc # "sweep"
    /\ t = "sweeper" => a.pc # "drain" /\ (a.pc = "sweep" <=> k = len)

WellNested(t, s) == \A k \in 1..Len(s) : PlaceOK(t, s[k], k, Len(s))

\* The sweeper holds the lock for as long as it sweeps, and nobody else holds
\* it between two steps.
CallInv ==
    /\ \A t \in Thread : WellNested(t, stack[t])
    /\ lock \in {NULL, "sweeper"}
    /\ lock = NULL <=> Len(stack["sweeper"]) = 0

\* Nesting is kept where a thread goes on within a function.
LEMMA CallInvReplaced ==
    ASSUME stack \in Stacks, CallInv, NEW t \in Thread, NEW a, Replaced(t, a),
           stack[t] # <<>>, lock' = lock,
           stack[t][1].pc # "sweep", a.pc # "sweep",
           t = "sweeper" => a.pc # "drain"
    PROVE  CallInv'
<1>1. \A u \in Thread : Len(stack[u]) \in Nat
  BY StackFacts
<1>2. WellNested(t, stack'[t])
  <2> SUFFICES ASSUME NEW k \in 1..Len(stack'[t])
               PROVE  PlaceOK(t, stack'[t][k], k, Len(stack'[t]))
    BY DEF WellNested
  <2>1. PlaceOK(t, stack[t][k], k, Len(stack[t]))
    BY DEF CallInv, WellNested, Replaced
  <2>2. CASE k = 1
    BY <2>1, <2>2 DEF PlaceOK, Replaced
  <2>3. CASE k # 1
    BY <1>1, <2>1, <2>3 DEF Replaced
  <2> QED  BY <2>2, <2>3
<1>3. \A u \in Thread \ {t} : WellNested(u, stack'[u])
  BY DEF CallInv, Replaced, OthersKept
<1>4. Len(stack'["sweeper"]) = Len(stack["sweeper"])
  BY DEF Replaced, OthersKept, Thread
<1> QED  BY <1>2, <1>3, <1>4 DEF CallInv

\* Nesting is kept by a call.
LEMMA CallInvPushed ==
    ASSUME stack \in Stacks, CallInv, NEW t \in Thread, NEW a, NEW b, Pushed(t, a, b),
           stack[t] # <<>>, lock' = lock,
           a.pc = stack[t][1].pc, a.pc \in {"giveup", "sweep"},
           b.pc \notin {"sweep", "drain"}
    PROVE  CallInv'
<1>1. /\ \A u \in Thread : Len(stack[u]) \in Nat
      /\ Len(stack[t]) \in Nat \ {0}
      /\ Len(stack'[t]) = Len(stack[t]) + 1
  BY StackFacts DEF Pushed
<1>2. WellNested(t, stack'[t])
  <2> SUFFICES ASSUME NEW k \in 1..Len(stack'[t])
               PROVE  PlaceOK(t, stack'[t][k], k, Len(stack'[t]))
    BY DEF WellNested
  <2>1. CASE k = 1
    BY <1>1, <2>1 DEF PlaceOK, Pushed
  <2>2. CASE k # 1
    <3>1. k - 1 \in 1..Len(stack[t])
      BY <1>1, <2>2
    <3>2. PlaceOK(t, stack[t][k - 1], k - 1, Len(stack[t]))
      BY <3>1 DEF CallInv, WellNested
    <3>3. stack'[t][k].pc = stack[t][k - 1].pc
      <4>1. CASE k = 2
        BY <4>1 DEF Pushed
      <4>2. CASE k # 2
        <5>1. k - 1 \in 2..Len(stack[t]) /\ (k - 1) + 1 = k
          BY <1>1, <2>2, <4>2
        <5> QED  BY <5>1 DEF Pushed
      <4> QED  BY <4>1, <4>2
    <3>4. k = 2 => stack'[t][k].pc \in {"giveup", "sweep"}
      BY DEF Pushed
    <3>5. k # 2 => k - 1 > 1
      BY <1>1, <2>2
    <3>6. k > 1 => stack'[t][k].pc \in {"giveup", "sweep"}
      BY <3>2, <3>3, <3>4, <3>5 DEF PlaceOK
    <3>7. k = Len(stack'[t]) <=> k - 1 = Len(stack[t])
      BY <1>1
    <3> QED  BY <3>2, <3>3, <3>6, <3>7 DEF PlaceOK
  <2> QED  BY <2>1, <2>2
<1>3. \A u \in Thread \ {t} : WellNested(u, stack'[u])
  BY DEF CallInv, Pushed, OthersKept
<1>4. Len(stack'["sweeper"]) = 0 <=> Len(stack["sweeper"]) = 0
  BY <1>1 DEF Pushed, OthersKept, Thread
<1> QED  BY <1>2, <1>3, <1>4 DEF CallInv

\* Nesting is kept by a return.
LEMMA CallInvPopped ==
    ASSUME stack \in Stacks, CallInv, NEW t \in Thread, Popped(t),
           stack[t] # <<>>,
           \/ stack[t][1].pc # "sweep" /\ lock' = lock
           \/ stack[t][1].pc = "sweep" /\ lock' = NULL
    PROVE  CallInv'
<1>1. /\ \A u \in Thread : Len(stack[u]) \in Nat
      /\ Len(stack[t]) \in Nat \ {0}
      /\ Len(stack'[t]) = Len(stack[t]) - 1
  BY StackFacts DEF Popped
<1>2. WellNested(t, stack'[t])
  <2> SUFFICES ASSUME NEW k \in 1..Len(stack'[t])
               PROVE  PlaceOK(t, stack'[t][k], k, Len(stack'[t]))
    BY DEF WellNested
  <2>1. k + 1 \in 1..Len(stack[t]) /\ k \in 1..(Len(stack[t]) - 1) /\ k + 1 > 1
    BY <1>1
  <2>2. PlaceOK(t, stack[t][k + 1], k + 1, Len(stack[t])) /\ stack'[t][k] = stack[t][k + 1]
    BY <2>1 DEF CallInv, WellNested, Popped
  <2>3. k = Len(stack'[t]) <=> k + 1 = Len(stack[t])
    BY <1>1
  <2> QED  BY <2>1, <2>2, <2>3 DEF PlaceOK
<1>3. \A u \in Thread \ {t} : WellNested(u, stack'[u])
  BY DEF CallInv, Popped, OthersKept
<1>t. PlaceOK(t, stack[t][1], 1, Len(stack[t]))
  BY <1>1 DEF CallInv, WellNested
<1>4. lock' \in {NULL, "sweeper"} /\ (lock' = NULL <=> Len(stack'["sweeper"]) = 0)
  <2>1. CASE stack[t][1].pc # "sweep" /\ lock' = lock
    <3>1. CASE t = "sweeper"
      <4>1. Len(stack[t]) # 1
        BY <1>t, <2>1, <3>1 DEF PlaceOK
      <4>2. Len(stack'[t]) # 0 /\ Len(stack[t]) # 0
        BY <1>1, <4>1
      <4> QED  BY <2>1, <3>1, <4>2 DEF CallInv
    <3>2. CASE t # "sweeper"
      BY <2>1, <3>2 DEF CallInv, Popped, OthersKept, Thread
    <3> QED  BY <3>1, <3>2
  <2>2. CASE stack[t][1].pc = "sweep" /\ lock' = NULL
    <3>1. t = "sweeper"
      BY <1>t, <2>2 DEF PlaceOK, Thread
    <3>2. Len(stack[t]) = 1
      BY <1>t, <2>2, <3>1 DEF PlaceOK
    <3> QED  BY <1>1, <2>2, <3>1, <3>2
  <2> QED  BY <2>1, <2>2
<1> QED  BY <1>2, <1>3, <1>4 DEF CallInv

\* Every step keeps the threads well nested and the lock with the sweeper.
LEMMA CallNext == TypeInv /\ CallInv /\ [Next]_vars => CallInv'
<1> SUFFICES ASSUME TypeInv, CallInv, [Next]_vars PROVE CallInv'
  OBVIOUS
<1>s. stack \in Stacks /\ {"receiver", "sweeper"} \subseteq Thread
  BY DEF TypeInv, TypeOK, Stacks, Thread
<1>1. ASSUME NEW p \in Packets, HandleIp(p) PROVE CallInv'
  <2>1. lock' = lock
    BY <1>1 DEF HandleIp
  <2>2. CASE UNCHANGED stack
    BY <2>1, <2>2 DEF CallInv
  <2>3. ASSUME NEW a, a.pc = "route", Started("receiver", a) PROVE CallInv'
    BY <2>1, <2>3 DEF CallInv, WellNested, PlaceOK, Started, OthersKept, Thread
  <2> QED  BY <1>1, <2>2, <2>3, HandleIpShape DEF Is
<1>2. ASSUME NEW ad \in IP, HandleArpReply(ad) PROVE CallInv'
  <2>1. lock' = lock
    BY <1>2 DEF HandleArpReply
  <2>2. ASSUME NEW a, a.pc = "drain", Started("receiver", a) PROVE CallInv'
    BY <2>1, <2>2 DEF CallInv, WellNested, PlaceOK, Started, OthersKept, Thread
  <2> QED  BY <1>2, <2>2, HandleArpReplyShape DEF Is
<1>3. ASSUME NEW t \in Thread, Drain(t) PROVE CallInv'
  <2>1. lock' = lock /\ At(t, "drain")
    BY <1>3 DEF Drain
  <2>2. stack[t] # <<>> /\ stack[t][1].pc = "drain" /\ Len(stack[t]) \in Nat \ {0}
    BY <2>1, AtFacts
  <2>3. t # "sweeper"
    BY <2>2 DEF CallInv, WellNested, PlaceOK
  <2> QED  BY <1>3, <1>s, <2>1, <2>2, <2>3, DrainShape, CallInvReplaced DEF Is
<1>4. ASSUME NEW t \in Thread, Route(t) PROVE CallInv'
  <2>1. lock' = lock /\ At(t, "route")
    BY <1>4 DEF Route
  <2>2. stack[t] # <<>> /\ stack[t][1].pc = "route"
    BY <2>1, AtFacts
  <2>3. PICK a \in Activation : a.pc = "check" /\ Replaced(t, a)
    BY <1>4, RouteShape DEF Is
  <2> QED  BY <1>s, <2>1, <2>2, <2>3, CallInvReplaced
<1>5. ASSUME NEW t \in Thread, Check(t) PROVE CallInv'
  <2>1. lock' = lock /\ At(t, "check")
    BY <1>5 DEF Check
  <2>2. stack[t] # <<>> /\ stack[t][1].pc = "check"
    BY <2>1, AtFacts
  <2> QED  BY <1>5, <1>s, <2>1, <2>2, CheckShape, CallInvReplaced, CallInvPopped DEF Is
<1>6. ASSUME NEW t \in Thread, Count(t) PROVE CallInv'
  <2>1. lock' = lock /\ At(t, "count")
    BY <1>6 DEF Count
  <2>2. stack[t] # <<>> /\ stack[t][1].pc = "count"
    BY <2>1, AtFacts
  <2>3. PICK a \in Activation : a.pc \in {"giveup", "ask"} /\ Replaced(t, a)
    BY <1>6, CountShape
  <2> QED  BY <1>s, <2>1, <2>2, <2>3, CallInvReplaced
<1>7. ASSUME NEW t \in Thread, Ask(t) PROVE CallInv'
  <2>1. lock' = lock /\ At(t, "ask")
    BY <1>7 DEF Ask
  <2>2. stack[t] # <<>> /\ stack[t][1].pc = "ask"
    BY <2>1, AtFacts
  <2> QED  BY <1>7, <1>s, <2>1, <2>2, AskShape, CallInvReplaced DEF Is
<1>8. ASSUME NEW t \in Thread, Bump(t) \/ Destroy(t) PROVE CallInv'
  <2>1. lock' = lock /\ (At(t, "bump") \/ At(t, "destroy"))
    BY <1>8 DEF Bump, Destroy
  <2>2. stack[t] # <<>> /\ stack[t][1].pc \in {"bump", "destroy"}
    BY <2>1, AtFacts
  <2> QED  BY <1>8, <1>s, <2>1, <2>2, BumpShape, CallInvPopped
<1>9. ASSUME NEW t \in Thread, GiveUp(t) PROVE CallInv'
  <2>1. lock' = lock /\ At(t, "giveup")
    BY <1>9 DEF GiveUp
  <2>2. stack[t] # <<>> /\ stack[t][1].pc = "giveup"
    BY <2>1, AtFacts
  <2>3. \/ UNCHANGED stack
        \/ \E a \in Activation : a.pc = "giveup" /\ Replaced(t, a)
        \/ \E a, b \in Activation : a.pc = "giveup" /\ b.pc = "route" /\ Pushed(t, a, b)
    BY <1>9, GiveUpShape DEF Is
  <2>4. CASE UNCHANGED stack
    BY <2>1, <2>4 DEF CallInv
  <2> QED  BY <1>s, <2>1, <2>2, <2>3, <2>4, CallInvReplaced, CallInvPushed
<1>10. ASSUME NEW t \in Thread, LoopEnd(t) PROVE CallInv'
  <2>1. lock' = lock /\ (At(t, "giveup") \/ At(t, "drain"))
    BY <1>10 DEF LoopEnd
  <2>2. stack[t] # <<>> /\ stack[t][1].pc \in {"giveup", "drain"}
    BY <2>1, AtFacts
  <2> QED  BY <1>10, <1>s, <2>1, <2>2, LoopEndShape, CallInvReplaced DEF Is
<1>11. ASSUME NEW t \in Thread, UseAfterFree(t) PROVE CallInv'
  BY <1>11 DEF UseAfterFree, CallInv
<1>12. ASSUME SweepBegin PROVE CallInv'
  <2>1. PICK a \in Activation : a.pc = "sweep" /\ Started("sweeper", a)
    BY <1>12, SweepBeginShape DEF Is
  <2>2. lock' = "sweeper" /\ NULL # "sweeper"
    BY <1>12, ArpQueueAssumption DEF SweepBegin
  <2>3. WellNested("sweeper", stack'["sweeper"])
    BY <2>1 DEF WellNested, PlaceOK, Started
  <2>4. WellNested("receiver", stack'["receiver"])
    BY <2>1 DEF CallInv, Started, OthersKept, Thread
  <2>5. Len(stack'["sweeper"]) = 1
    BY <2>1 DEF Started
  <2> QED  BY <2>2, <2>3, <2>4, <2>5 DEF CallInv, Thread
<1>13. ASSUME SweepStep PROVE CallInv'
  <2>1. At("sweeper", "sweep")
    BY <1>13 DEF SweepStep
  <2>2. stack["sweeper"] # <<>> /\ stack["sweeper"][1].pc = "sweep"
    BY <1>s, <2>1, AtFacts
  <2>3. \/ Popped("sweeper") /\ lock' = NULL
        \/ \E a, b \in Activation : /\ a.pc = "sweep" /\ b.pc = "check"
                                    /\ Pushed("sweeper", a, b) /\ lock' = lock
    BY <1>13, SweepStepShape DEF Is
  <2> QED  BY <1>s, <2>2, <2>3, CallInvPopped, CallInvPushed
<1>14. ASSUME Tick PROVE CallInv'
  <2>1. lock' = lock
    BY <1>14 DEF Tick
  <2>2. \A t \in Thread : WellNested(t, stack'[t])
    BY <1>14, TickShape DEF CallInv, WellNested, PlaceOK
  <2>3. Len(stack'["sweeper"]) = Len(stack["sweeper"])
    BY <1>14, <1>s, TickShape
  <2> QED  BY <2>1, <2>2, <2>3 DEF CallInv
<1>15. CASE UNCHANGED vars
  BY <1>15 DEF vars, CallInv
<1> QED
  BY <1>1, <1>2, <1>3, <1>4, <1>5, <1>6, <1>7, <1>8, <1>9, <1>10, <1>11,
     <1>12, <1>13, <1>14, <1>15 DEF Next, Step, Faulted

\* Empty stacks are well nested.
LEMMA CallInit == Init => CallInv
BY DEF Init, CallInv, WellNested, Thread

-----------------------------------------------------------------------------
(* Packets wait under the request for their own next hop.                  *)

\* The three actions that change the queue and what waits on it.
LEMMA QueueSteps ==
    ASSUME [Next]_vars
    PROVE  \/ UNCHANGED <<reqs, alive, ip, pkts>>
           \/ \E ad \in IP : HandleArpReply(ad)
           \/ \E t \in Thread : Route(t) \/ Destroy(t)
<1>1. ASSUME NEW p \in Packets, HandleIp(p) PROVE UNCHANGED <<reqs, alive, ip, pkts>>
  BY <1>1 DEF HandleIp, memory
<1>2. ASSUME NEW t \in Thread, Drain(t) \/ Check(t) \/ Count(t)
      PROVE  UNCHANGED <<reqs, alive, ip, pkts>>
  BY <1>2 DEF Drain, Check, Count, memory
<1>3. ASSUME NEW t \in Thread, Ask(t) \/ Bump(t) \/ LoopEnd(t) \/ UseAfterFree(t)
      PROVE  UNCHANGED <<reqs, alive, ip, pkts>>
  BY <1>3 DEF Ask, Bump, LoopEnd, UseAfterFree, memory
<1>4. ASSUME NEW t \in Thread, GiveUp(t) PROVE UNCHANGED <<reqs, alive, ip, pkts>>
  BY <1>4 DEF GiveUp, memory
<1>5. ASSUME SweepBegin \/ SweepStep \/ Tick \/ Faulted \/ UNCHANGED vars
      PROVE  UNCHANGED <<reqs, alive, ip, pkts>>
  BY <1>5 DEF SweepBegin, SweepStep, Tick, Faulted, vars, memory
<1> QED  BY <1>1, <1>2, <1>3, <1>4, <1>5 DEF Next, Step

\* What sr_arpreq_destroy does to the other requests.
LEMMA DestroyFacts ==
    ASSUME TypeInv, NEW t \in Thread, Destroy(t)
    PROVE  LET r == Top(t).req IN
           /\ r \in alive
           /\ r \in Req
           /\ alive' = alive \ {r}
           /\ times'[r] = 0
           /\ \A x \in Req \ {r} : /\ pkts'[x] = pkts[x]
                                   /\ ip'[x] = ip[x]
                                   /\ times'[x] = times[x]
BY DEF Destroy, TypeInv, TypeOK

\* Every step keeps packets under the request for their next hop.
LEMMA NextHopNext == TypeInv /\ PacketsUnderTheirNextHop /\ [Next]_vars
                        => PacketsUnderTheirNextHop'
<1> SUFFICES ASSUME TypeInv, PacketsUnderTheirNextHop, [Next]_vars
             PROVE  PacketsUnderTheirNextHop'
  OBVIOUS
<1>a. alive \subseteq Req
  BY DEF TypeInv, TypeOK
<1>1. CASE UNCHANGED <<reqs, alive, ip, pkts>>
  BY <1>1 DEF PacketsUnderTheirNextHop
<1>2. ASSUME NEW ad \in IP, HandleArpReply(ad) PROVE PacketsUnderTheirNextHop'
  BY <1>2 DEF HandleArpReply, PacketsUnderTheirNextHop
<1>3. ASSUME NEW t \in Thread, Route(t) PROVE PacketsUnderTheirNextHop'
  <2>0. PICK q \in QueuedPacket, r \in Req :
             /\ \A x \in Req \ {r} : pkts'[x] = pkts[x] /\ ip'[x] = ip[x]
             /\ Joins(q, r) \/ Opens(q, r)
    BY <1>3, RouteShape
  <2>1. /\ \A x \in Req \ {r} : pkts'[x] = pkts[x] /\ ip'[x] = ip[x]
        /\ alive' \subseteq alive \cup {r}
        /\ ip'[r] = q.nh
        /\ \/ r \in alive /\ ip'[r] = ip[r] /\ pkts'[r] = <<q>> \o pkts[r]
           \/ r \notin alive /\ pkts'[r] = <<q>>
           \/ r \notin alive'
    BY <2>0 DEF Joins, Opens
  <2>2. \A k \in DOMAIN pkts'[r] : r \in alive' => pkts'[r][k].nh = ip'[r]
    <3>1. CASE r \in alive /\ ip'[r] = ip[r] /\ pkts'[r] = <<q>> \o pkts[r]
      <4>1. pkts[r] \in Seq(QueuedPacket)
        BY DEF TypeInv, TypeOK
      <4>2. /\ <<q>> \o pkts[r] \in Seq(QueuedPacket)
            /\ Len(<<q>> \o pkts[r]) = Len(pkts[r]) + 1
            /\ (<<q>> \o pkts[r])[1] = q
            /\ \A k \in 2..(Len(pkts[r]) + 1) : (<<q>> \o pkts[r])[k] = pkts[r][k - 1]
        BY <4>1, PrependFacts
      <4>3. /\ DOMAIN (<<q>> \o pkts[r]) = 1..(Len(pkts[r]) + 1)
            /\ DOMAIN pkts[r] = 1..Len(pkts[r]) /\ Len(pkts[r]) \in Nat
        BY <4>1, <4>2, LenProperties
      <4> DEFINE n == <<q>> \o pkts[r]
      <4> HIDE DEF n
      <4> SUFFICES ASSUME NEW k \in 1..(Len(pkts[r]) + 1) PROVE n[k].nh = ip'[r]
        BY <3>1, <4>3 DEF n
      <4>4. CASE k = 1
        BY <2>1, <4>2, <4>4 DEF n
      <4>5. CASE k # 1
        <5>1. k - 1 \in DOMAIN pkts[r] /\ n[k] = pkts[r][k - 1]
          BY <4>2, <4>3, <4>5 DEF n
        <5> QED  BY <3>1, <5>1 DEF PacketsUnderTheirNextHop
      <4> QED  BY <4>4, <4>5
    <3>2. CASE pkts'[r] = <<q>>
      BY <2>1, <3>2
    <3>3. CASE r \notin alive'
      BY <3>3
    <3> QED  BY <2>1, <3>1, <3>2, <3>3
  <2>3. ASSUME NEW x \in alive', x # r, NEW k \in DOMAIN pkts'[x]
        PROVE  pkts'[x][k].nh = ip'[x]
    BY <1>a, <2>1, <2>3 DEF PacketsUnderTheirNextHop
  <2> QED  BY <2>2, <2>3 DEF PacketsUnderTheirNextHop
<1>4. ASSUME NEW t \in Thread, Destroy(t) PROVE PacketsUnderTheirNextHop'
  BY <1>4, <1>a, DestroyFacts DEF PacketsUnderTheirNextHop
<1> QED  BY <1>1, <1>2, <1>3, <1>4, QueueSteps

\* A packet waits under the request for its own next hop, for every routing
\* table and any number of packets: the answer that releases it is the answer
\* to what it waits for.
THEOREM NextHopsCorrect == Spec => []PacketsUnderTheirNextHop
<1>1. Init => PacketsUnderTheirNextHop
  BY DEF Init, PacketsUnderTheirNextHop
<1>2. Spec => []TypeInv
  BY TypeInit, TypeNext, PTL DEF Spec
<1> QED  BY <1>1, <1>2, NextHopNext, PTL DEF Spec

-----------------------------------------------------------------------------
(* Who owns a request that is no longer on the queue.                      *)

Queued == {reqs[i] : i \in DOMAIN reqs}

\* Taking position i out of the queue takes out its request and no other.
LEMMA QueuedUnlinked ==
    ASSUME TypeInv, QueueInv, NEW i \in DOMAIN reqs, reqs' = RemoveAt(reqs, i)
    PROVE  Queued' = Queued \ {reqs[i]}
<1>1. reqs \in Seq(Req) /\ Len(reqs) \in Nat /\ DOMAIN reqs = 1..Len(reqs)
  BY ReqsFacts, Zenon DEF TypeInv
<1>2. /\ reqs' \in Seq(Req)
      /\ Len(reqs') = Len(reqs) - 1
      /\ \A k \in 1..(Len(reqs) - 1) :
            reqs'[k] = IF k < i THEN reqs[k] ELSE reqs[k + 1]
  <2>1. i \in 1..Len(reqs)
    BY <1>1
  <2> QED  BY <1>1, <2>1, RemoveAtFacts, Zenon
<1>3. DOMAIN reqs' = 1..(Len(reqs) - 1)
  BY <1>2, LenProperties
<1>4. \A j \in DOMAIN reqs' : \E m \in DOMAIN reqs : m # i /\ reqs'[j] = reqs[m]
  BY UnlinkFacts DEF TypeInv
<1>5. \A m \in DOMAIN reqs : m # i => reqs[m] # reqs[i]
  BY DEF QueueInv, QueueIntegrity
<1>6. ASSUME NEW m \in DOMAIN reqs, m # i PROVE \E j \in DOMAIN reqs' : reqs'[j] = reqs[m]
  <2>1. CASE m < i
    <3>1. m \in 1..(Len(reqs) - 1) /\ reqs'[m] = reqs[m]
      BY <1>1, <1>2, <2>1
    <3> QED  BY <1>3, <3>1
  <2>2. CASE ~(m < i)
    <3>1. m - 1 \in 1..(Len(reqs) - 1) /\ ~(m - 1 < i) /\ (m - 1) + 1 = m
      BY <1>1, <1>6, <2>2
    <3>2. reqs'[m - 1] = reqs[m]
      BY <1>2, <3>1
    <3> QED  BY <1>3, <3>1, <3>2
  <2> QED  BY <2>1, <2>2
<1> QED  BY <1>4, <1>5, <1>6 DEF Queued

\* A request at the head of the queue is one more.
LEMMA QueuedLinked ==
    ASSUME TypeInv, NEW r \in Req, reqs' = <<r>> \o reqs
    PROVE  Queued' = Queued \cup {r}
<1>1. reqs \in Seq(Req) /\ Len(reqs) \in Nat /\ DOMAIN reqs = 1..Len(reqs)
  BY ReqsFacts, Zenon DEF TypeInv
<1>2. /\ reqs' \in Seq(Req)
      /\ Len(reqs') = Len(reqs) + 1
      /\ reqs'[1] = r
      /\ \A k \in 2..(Len(reqs) + 1) : reqs'[k] = reqs[k - 1]
  BY <1>1, PrependFacts
<1>3. DOMAIN reqs' = 1..(Len(reqs) + 1) /\ 1 \in DOMAIN reqs'
  BY <1>1, <1>2, LenProperties
<1>4. ASSUME NEW j \in DOMAIN reqs' PROVE reqs'[j] = r \/ \E m \in DOMAIN reqs : reqs'[j] = reqs[m]
  <2>1. CASE j = 1
    BY <1>2, <2>1
  <2>2. CASE j # 1
    <3>1. j - 1 \in DOMAIN reqs /\ reqs'[j] = reqs[j - 1]
      BY <1>1, <1>2, <1>3, <2>2
    <3> QED  BY <3>1
  <2> QED  BY <2>1, <2>2
<1>5. ASSUME NEW m \in DOMAIN reqs PROVE \E j \in DOMAIN reqs' : reqs'[j] = reqs[m]
  <2>1. m + 1 \in 2..(Len(reqs) + 1) /\ (m + 1) - 1 = m
    BY <1>1
  <2>2. reqs'[m + 1] = reqs[m] /\ m + 1 \in DOMAIN reqs'
    BY <1>1, <1>2, <1>3, <2>1
  <2> QED  BY <2>2
<1>6. Queued' \subseteq Queued \cup {r}
  BY <1>4 DEF Queued
<1>7. Queued \subseteq Queued'
  BY <1>5 DEF Queued
<1>8. r \in Queued'
  BY <1>2, <1>3 DEF Queued
<1> QED  BY <1>6, <1>7, <1>8

\* sr_arpreq_destroy leaves no link to the request behind.
LEMMA QueuedDestroyed ==
    ASSUME TypeInv, QueueInv, NEW t \in Thread, Destroy(t)
    PROVE  Queued' = Queued \ {Top(t).req}
<1> DEFINE r == Top(t).req
<1>1. CASE PositionsOf(r) = {} /\ UNCHANGED reqs
  BY <1>1 DEF Queued, PositionsOf
<1>2. ASSUME NEW i \in First(PositionsOf(r)), reqs' = RemoveAt(reqs, i)
      PROVE  Queued' = Queued \ {r}
  <2>1. i \in DOMAIN reqs /\ reqs[i] = r
    BY DEF First, PositionsOf
  <2> QED  BY <1>2, <2>1, QueuedUnlinked
<1> QED  BY <1>1, <1>2 DEF Destroy

\* What the sweep looks at is on the queue.
LEMMA SweepOnQueue ==
    ASSUME TypeInv, NEW r
    PROVE  /\ NextReq(r) \in Queued \cup {NULL}
           /\ (IF reqs = <<>> THEN NULL ELSE Head(reqs)) \in Queued \cup {NULL}
<1>1. reqs \in Seq(Req) /\ Len(reqs) \in Nat /\ DOMAIN reqs = 1..Len(reqs)
  BY ReqsFacts, Zenon DEF TypeInv
<1> DEFINE after == {reqs[i + 1] : i \in {k \in 1..(Len(reqs) - 1) : reqs[k] = r}}
<1>2. after \subseteq Queued
  <2>1. ASSUME NEW k \in 1..(Len(reqs) - 1) PROVE k + 1 \in DOMAIN reqs
    BY <1>1
  <2> QED  BY <2>1 DEF Queued
<1>3. NextReq(r) = IF after = {} THEN NULL ELSE CHOOSE x \in after : TRUE
  BY DEF NextReq
<1> HIDE DEF after
<1>4. reqs # <<>> => Head(reqs) = reqs[1] /\ 1 \in DOMAIN reqs
  BY <1>1, EmptySeq, HeadTailProperties
<1> QED  BY <1>2, <1>3, <1>4 DEF Queued

\* An allocated request that is not on the queue is being drained by the
\* receiver, which does nothing else meanwhile, and the sweeper has no
\* pointer to it.
Detached(r) ==
    /\ Len(stack["receiver"]) = 1
    /\ stack["receiver"][1].req = r
    /\ stack["receiver"][1].pc \in {"drain", "destroy"}
    /\ \A k \in 1..Len(stack["sweeper"]) : stack["sweeper"][k].req # r

OwnInv ==
    /\ \A r \in alive \ Queued : Detached(r)
    /\ \A k \in 1..Len(stack["receiver"]) :
          stack["receiver"][k].pc = "drain" =>
              stack["receiver"][k].req \in alive \ Queued

\* What is known before and after a step.
Known == TypeInv /\ QueueInv /\ CallInv

\* A step of a receiver that drains nothing, before and after.
LEMMA OwnReceiver ==
    ASSUME Known, Known', alive' \subseteq Queued',
           Len(stack'["receiver"]) > 0 => stack'["receiver"][1].pc # "drain"
    PROVE  OwnInv'
<1>1. stack' \in Stacks /\ "receiver" \in Thread
  BY DEF Known, TypeInv, TypeOK, Stacks, Thread
<1>2. ASSUME NEW k \in 1..Len(stack'["receiver"]) PROVE stack'["receiver"][k].pc # "drain"
  <2>0. PlaceOK("receiver", stack'["receiver"][k], k, Len(stack'["receiver"]))
    BY <1>1 DEF Known, CallInv, WellNested
  <2>1. CASE k = 1
    <3>1. Len(stack'["receiver"]) > 0
      BY <1>1, <2>1, LenProperties DEF Stacks
    <3> QED  BY <2>1, <3>1
  <2>2. CASE k > 1
    BY <2>0, <2>2 DEF PlaceOK
  <2> QED  BY <2>1, <2>2
<1> QED  BY <1>2 DEF OwnInv

\* A step of the sweeper, which gains no pointer to a detached request.
LEMMA OwnSweeper ==
    ASSUME OwnInv, stack'["receiver"] = stack["receiver"],
           alive' \ Queued' = alive \ Queued,
           \A k \in 1..Len(stack'["sweeper"]) :
               stack'["sweeper"][k].req \notin alive \ Queued
    PROVE  OwnInv'
BY DEF OwnInv, Detached

\* A receiver whose innermost activation is not about to drain or destroy has
\* detached nothing.
LEMMA NothingDetached ==
    ASSUME OwnInv,
           \/ Len(stack["receiver"]) = 0
           \/ stack["receiver"][1].pc \notin {"drain", "destroy"}
    PROVE  alive \subseteq Queued
BY DEF OwnInv, Detached

\* When a thread returns, its caller is giving up or sweeping.
LEMMA CallerOf ==
    ASSUME Known, NEW t \in Thread, Popped(t), Len(stack'[t]) > 0
    PROVE  stack'[t][1].pc \in {"giveup", "sweep"}
<1>1. Len(stack[t]) \in Nat /\ stack \in Stacks
  BY StackFacts DEF Known, TypeInv, TypeOK, Stacks
<1>2. 2 \in 1..Len(stack[t]) /\ 1 \in 1..(Len(stack[t]) - 1)
  BY <1>1 DEF Popped
<1>3. PlaceOK(t, stack[t][2], 2, Len(stack[t]))
  BY <1>2 DEF Known, CallInv, WellNested
<1>4. stack'[t][1] = stack[t][2]
  BY <1>2 DEF Popped
<1> QED  BY <1>3, <1>4 DEF PlaceOK

\* Every step keeps the ownership of detached requests.
LEMMA OwnNext == Known /\ Known' /\ OwnInv /\ [Next]_vars => OwnInv'
<1> SUFFICES ASSUME Known, Known', OwnInv, [Next]_vars PROVE OwnInv'
  OBVIOUS
<1>s. /\ TypeInv /\ stack \in Stacks /\ {"receiver", "sweeper"} = Thread
      /\ alive \subseteq Req /\ Queued \subseteq alive /\ NULL \notin Req
  BY ArpQueueAssumption
     DEF Known, TypeInv, TypeOK, Stacks, Thread, Queued, QueueInv, QueueIntegrity
<1>n. \A t \in Thread : Len(stack[t]) \in Nat
  BY <1>s, StackFacts
<1>q. ASSUME UNCHANGED reqs PROVE Queued' = Queued
  BY <1>q DEF Queued
<1>d. \A r \in alive \ Queued : \A k \in 1..Len(stack["sweeper"]) : stack["sweeper"][k].req # r
  BY DEF OwnInv, Detached
<1>1. ASSUME NEW p \in Packets, HandleIp(p) PROVE OwnInv'
  <2>1. UNCHANGED <<reqs, alive>>
    BY <1>1 DEF HandleIp, memory
  <2>2. CASE UNCHANGED stack
    BY <1>q, <2>1, <2>2 DEF OwnInv, Detached
  <2>3. ASSUME NEW a, a.pc = "route", Started("receiver", a) PROVE OwnInv'
    <3>1. alive \subseteq Queued
      BY <2>3, NothingDetached DEF Started
    <3> QED  BY <1>q, <2>1, <2>3, <3>1, OwnReceiver DEF Started
  <2> QED  BY <1>1, <1>s, <2>2, <2>3, HandleIpShape DEF Is
<1>2. ASSUME NEW ad \in IP, HandleArpReply(ad) PROVE OwnInv'
  <2>1. PICK i \in 1..Len(reqs), a \in Activation :
             /\ reqs' = RemoveAt(reqs, i)
             /\ Is(a, "drain", reqs[i], pkts[reqs[i]])
             /\ Started("receiver", a)
    BY <1>2, <1>s, HandleArpReplyShape
  <2>2. i \in DOMAIN reqs
    BY <1>s, ReqsFacts DEF TypeInv
  <2>3. Queued' = Queued \ {reqs[i]} /\ reqs[i] \in Queued /\ alive' = alive
    BY <1>2, <2>1, <2>2, QueuedUnlinked DEF Known, HandleArpReply, Queued
  <2>4. alive \subseteq Queued
    BY <2>1, NothingDetached DEF Started
  <2>5. Len(stack["sweeper"]) = 0
    BY <1>2, ArpQueueAssumption DEF HandleArpReply, LockFree, Known, CallInv
  <2>6. Len(stack'["sweeper"]) = 0
    BY <1>s, <2>1, <2>5 DEF Started, OthersKept
  <2> QED  BY <1>s, <2>1, <2>3, <2>4, <2>6 DEF OwnInv, Detached, Started, Is
<1>3. ASSUME NEW t \in Thread, Drain(t) PROVE OwnInv'
  <2>1. At(t, "drain") /\ UNCHANGED <<reqs, alive>>
    BY <1>3 DEF Drain, memory
  <2>2. stack[t][1].pc = "drain" /\ Len(stack[t]) \in Nat \ {0} /\ Top(t) = stack[t][1]
    BY <1>s, <2>1, AtFacts
  <2>3. t = "receiver"
    <3>1. PlaceOK(t, stack[t][1], 1, Len(stack[t]))
      BY <2>2 DEF Known, CallInv, WellNested
    <3> QED  BY <1>s, <2>2, <3>1 DEF PlaceOK
  <2>4. PICK a \in Activation : a.pc = "drain" /\ a.req = Top(t).req /\ Replaced(t, a)
    BY <1>3, <1>s, DrainShape DEF Is
  <2>5. Queued' = Queued
    BY <1>q, <2>1
  <2>6. stack'["sweeper"] = stack["sweeper"]
    BY <1>s, <2>3, <2>4 DEF Replaced, OthersKept
  <2>7. \A r \in alive' \ Queued' : Detached(r)'
    BY <2>1, <2>2, <2>3, <2>4, <2>5, <2>6 DEF OwnInv, Detached, Replaced
  <2>8. ASSUME NEW k \in 1..Len(stack'["receiver"]), stack'["receiver"][k].pc = "drain"
        PROVE  stack'["receiver"][k].req \in alive' \ Queued'
    <3>1. stack'["receiver"][k].req = stack["receiver"][k].req /\ k \in 1..Len(stack["receiver"])
              /\ stack["receiver"][k].pc = "drain"
      BY <2>2, <2>3, <2>4, <2>8 DEF Replaced
    <3> QED  BY <2>1, <2>5, <3>1 DEF OwnInv
  <2> QED  BY <2>7, <2>8 DEF OwnInv
<1>4. ASSUME NEW t \in Thread, Route(t) PROVE OwnInv'
  <2>1. At(t, "route")
    BY <1>4 DEF Route
  <2>2. stack[t][1].pc = "route" /\ Len(stack[t]) \in Nat \ {0}
    BY <1>s, <2>1, AtFacts
  <2>0. PICK q \in QueuedPacket, r \in Req, a \in Activation :
             /\ Is(a, "check", r, <<>>) /\ Replaced(t, a)
             /\ Joins(q, r) \/ Opens(q, r)
    BY <1>4, <1>s, RouteShape
  <2>3. /\ a.pc = "check" /\ a.req = r /\ Replaced(t, a)
        /\ \/ (\E i \in 1..Len(reqs) : reqs[i] = r) /\ UNCHANGED <<reqs, alive>>
           \/ r \notin alive /\ alive' = alive \cup {r} /\ reqs' = <<r>> \o reqs
    BY <2>0 DEF Is, Joins, Opens
  <2>4. \/ r \in Queued /\ Queued' = Queued /\ alive' = alive
        \/ r \notin alive /\ Queued' = Queued \cup {r} /\ alive' = alive \cup {r}
    <3>1. DOMAIN reqs = 1..Len(reqs)
      BY <1>s, ReqsFacts DEF TypeInv
    <3> QED  BY <1>q, <1>s, <2>3, <3>1, QueuedLinked DEF Queued
  <2>5. alive' \ Queued' = alive \ Queued /\ r \notin alive \ Queued
    BY <1>s, <2>4
  <2>6. CASE t = "receiver"
    <3>1. alive \subseteq Queued
      BY <2>2, <2>6, NothingDetached
    <3> QED  BY <2>3, <2>5, <2>6, <3>1, OwnReceiver DEF Replaced
  <2>7. CASE t = "sweeper"
    <3>1. \A k \in 1..Len(stack'["sweeper"]) : stack'["sweeper"][k].req \notin alive \ Queued
      BY <1>d, <2>2, <2>3, <2>5, <2>7 DEF Replaced
    <3> QED  BY <1>s, <2>3, <2>5, <2>7, <3>1, OwnSweeper DEF Replaced, OthersKept
  <2> QED  BY <1>s, <2>6, <2>7
<1>5. ASSUME NEW t \in Thread, Popped(t), Len(stack[t]) > 0, UNCHANGED <<reqs, alive>>,
             stack[t][1].pc \notin {"drain", "destroy"}
      PROVE  OwnInv'
  <2>0. Queued' = Queued
    BY <1>q, <1>5
  <2>1. CASE t = "receiver"
    <3>1. alive \subseteq Queued
      BY <1>5, <2>1, NothingDetached
    <3>2. Len(stack'["receiver"]) > 0 => stack'["receiver"][1].pc # "drain"
      BY <1>s, <1>5, <2>1, CallerOf
    <3> QED  BY <1>5, <2>0, <3>1, <3>2, OwnReceiver
  <2>2. CASE t = "sweeper"
    <3>1. \A k \in 1..Len(stack'["sweeper"]) : stack'["sweeper"][k].req \notin alive \ Queued
      <4> SUFFICES ASSUME NEW k \in 1..Len(stack'["sweeper"])
                   PROVE  stack'["sweeper"][k].req \notin alive \ Queued
        OBVIOUS
      <4>1. /\ k + 1 \in 1..Len(stack["sweeper"]) /\ k \in 1..(Len(stack["sweeper"]) - 1)
        BY <1>5, <1>n, <1>s, <2>2 DEF Popped
      <4>2. stack'["sweeper"][k] = stack["sweeper"][k + 1]
        BY <1>5, <2>2, <4>1 DEF Popped
      <4> QED  BY <1>d, <4>1, <4>2
    <3> QED  BY <1>s, <1>5, <2>0, <2>2, <3>1, OwnSweeper DEF Popped, OthersKept
  <2> QED  BY <1>s, <2>1, <2>2
<1>6. ASSUME NEW t \in Thread, NEW a, Replaced(t, a), Len(stack[t]) > 0,
             UNCHANGED <<reqs, alive>>, a.req = stack[t][1].req, a.pc # "drain",
             stack[t][1].pc \notin {"drain", "destroy"}
      PROVE  OwnInv'
  <2>0. Queued' = Queued
    BY <1>q, <1>6
  <2>1. CASE t = "receiver"
    <3>1. alive \subseteq Queued
      BY <1>6, <2>1, NothingDetached
    <3> QED  BY <1>6, <2>0, <2>1, <3>1, OwnReceiver DEF Replaced
  <2>2. CASE t = "sweeper"
    <3>1. \A k \in 1..Len(stack'["sweeper"]) : stack'["sweeper"][k].req \notin alive \ Queued
      BY <1>d, <1>6, <1>n, <2>2 DEF Replaced
    <3> QED  BY <1>s, <1>6, <2>0, <2>2, <3>1, OwnSweeper DEF Replaced, OthersKept
  <2> QED  BY <1>s, <2>1, <2>2
<1>7. ASSUME NEW t \in Thread, NEW a, NEW b, Pushed(t, a, b), Len(stack[t]) > 0,
             UNCHANGED <<reqs, alive>>,
             a.req \notin alive \ Queued, b.req \notin alive \ Queued, b.pc # "drain",
             stack[t][1].pc \notin {"drain", "destroy"}
      PROVE  OwnInv'
  <2>0. Queued' = Queued
    BY <1>q, <1>7
  <2>1. CASE t = "receiver"
    <3>1. alive \subseteq Queued
      BY <1>7, <2>1, NothingDetached
    <3> QED  BY <1>7, <2>0, <2>1, <3>1, OwnReceiver DEF Pushed
  <2>2. CASE t = "sweeper"
    <3>1. \A k \in 1..Len(stack'["sweeper"]) : stack'["sweeper"][k].req \notin alive \ Queued
      <4> SUFFICES ASSUME NEW k \in 1..Len(stack'["sweeper"]), k # 1, k # 2
                   PROVE  stack'["sweeper"][k].req \notin alive \ Queued
        BY <1>7, <2>2 DEF Pushed
      <4>1. k - 1 \in 2..Len(stack["sweeper"]) /\ (k - 1) + 1 = k /\ k - 1 \in 1..Len(stack["sweeper"])
        BY <1>7, <1>n, <1>s, <2>2 DEF Pushed
      <4>2. stack'["sweeper"][k] = stack["sweeper"][k - 1]
        BY <1>7, <2>2, <4>1 DEF Pushed
      <4> QED  BY <1>d, <4>1, <4>2
    <3> QED  BY <1>s, <1>7, <2>0, <2>2, <3>1, OwnSweeper DEF Pushed, OthersKept
  <2> QED  BY <1>s, <2>1, <2>2
<1>8. ASSUME NEW t \in Thread, Check(t) PROVE OwnInv'
  <2>1. At(t, "check") /\ UNCHANGED <<reqs, alive>>
    BY <1>8 DEF Check, memory
  <2>2. stack[t][1].pc = "check" /\ Len(stack[t]) > 0 /\ Top(t) = stack[t][1]
    BY <1>s, <2>1, AtFacts
  <2> QED  BY <1>8, <1>s, <1>5, <1>6, <2>1, <2>2, CheckShape DEF Is
<1>9. ASSUME NEW t \in Thread, Count(t) PROVE OwnInv'
  <2>1. At(t, "count") /\ UNCHANGED <<reqs, alive>>
    BY <1>9 DEF Count, memory
  <2>2. stack[t][1].pc = "count" /\ Len(stack[t]) > 0 /\ Top(t) = stack[t][1]
    BY <1>s, <2>1, AtFacts
  <2>3. PICK a \in Activation : /\ Replaced(t, a) /\ a.req = Top(t).req
                                /\ a.pc \in {"giveup", "ask"}
    BY <1>9, <1>s, CountShape
  <2> QED  BY <1>6, <2>1, <2>2, <2>3
<1>10. ASSUME NEW t \in Thread, Ask(t) PROVE OwnInv'
  <2>1. At(t, "ask") /\ UNCHANGED <<reqs, alive>>
    BY <1>10 DEF Ask
  <2>2. stack[t][1].pc = "ask" /\ Len(stack[t]) > 0 /\ Top(t) = stack[t][1]
    BY <1>s, <2>1, AtFacts
  <2> QED  BY <1>10, <1>s, <1>6, <2>1, <2>2, AskShape DEF Is
<1>11. ASSUME NEW t \in Thread, Bump(t) PROVE OwnInv'
  <2>1. At(t, "bump") /\ UNCHANGED <<reqs, alive>>
    BY <1>11 DEF Bump
  <2>2. stack[t][1].pc = "bump" /\ Len(stack[t]) > 0
    BY <1>s, <2>1, AtFacts
  <2> QED  BY <1>11, <1>s, <1>5, <2>1, <2>2, BumpShape
<1>12. ASSUME NEW t \in Thread, GiveUp(t) PROVE OwnInv'
  <2>1. At(t, "giveup") /\ UNCHANGED <<reqs, alive>>
    BY <1>12 DEF GiveUp, memory
  <2>2. stack[t][1].pc = "giveup" /\ Len(stack[t]) > 0 /\ Top(t) = stack[t][1]
            /\ 1 \in 1..Len(stack[t])
    BY <1>s, <2>1, AtFacts
  <2>3. \/ UNCHANGED stack
        \/ \E a \in Activation : a.pc = "giveup" /\ a.req = Top(t).req /\ Replaced(t, a)
        \/ \E a, b \in Activation : /\ a.req = Top(t).req /\ b.pc = "route"
                                    /\ b.req = NULL /\ Pushed(t, a, b)
    BY <1>12, <1>s, GiveUpShape DEF Is
  <2>4. CASE UNCHANGED stack
    BY <1>q, <2>1, <2>4 DEF OwnInv, Detached
  <2>5. Top(t).req \notin alive \ Queued
    <3>1. CASE t = "receiver"
      BY <2>2, <3>1, NothingDetached
    <3>2. CASE t = "sweeper"
      BY <1>d, <2>2, <3>2
    <3> QED  BY <1>s, <3>1, <3>2
  <2>6. NULL \notin alive \ Queued
    BY <1>s
  <2> QED  BY <1>6, <1>7, <2>1, <2>2, <2>3, <2>4, <2>5, <2>6
<1>13. ASSUME NEW t \in Thread, LoopEnd(t) PROVE OwnInv'
  <2>1. (At(t, "giveup") \/ At(t, "drain")) /\ UNCHANGED <<reqs, alive>>
    BY <1>13 DEF LoopEnd, memory
  <2>2. /\ stack[t][1].pc \in {"giveup", "drain"} /\ Len(stack[t]) \in Nat \ {0}
        /\ Top(t) = stack[t][1]
    BY <1>s, <2>1, AtFacts
  <2>3. PICK a \in Activation : a.pc = "destroy" /\ a.req = Top(t).req /\ Replaced(t, a)
    BY <1>13, <1>s, LoopEndShape DEF Is
  <2>4. CASE stack[t][1].pc = "giveup"
    BY <1>6, <2>1, <2>2, <2>3, <2>4
  <2>5. CASE stack[t][1].pc = "drain"
    <3>1. t = "receiver"
      <4>1. PlaceOK(t, stack[t][1], 1, Len(stack[t]))
        BY <2>2 DEF Known, CallInv, WellNested
      <4> QED  BY <1>s, <2>5, <4>1 DEF PlaceOK
    <3>2. Queued' = Queued
      BY <1>q, <2>1
    <3>3. stack'["sweeper"] = stack["sweeper"]
      BY <1>s, <2>3, <3>1 DEF Replaced, OthersKept
    <3>4. \A r \in alive' \ Queued' : Detached(r)'
      BY <2>1, <2>2, <2>3, <3>1, <3>2, <3>3 DEF OwnInv, Detached, Replaced
    <3>5. ASSUME NEW k \in 1..Len(stack'["receiver"]), stack'["receiver"][k].pc = "drain"
          PROVE  stack'["receiver"][k].req \in alive' \ Queued'
      <4>1. k # 1 /\ k \in 2..Len(stack["receiver"])
        BY <2>2, <2>3, <3>1, <3>5 DEF Replaced
      <4>2. stack'["receiver"][k] = stack["receiver"][k] /\ k \in 1..Len(stack["receiver"])
        BY <2>3, <3>1, <4>1 DEF Replaced
      <4> QED  BY <2>1, <3>2, <3>5, <4>2 DEF OwnInv
    <3> QED  BY <3>4, <3>5 DEF OwnInv
  <2> QED  BY <2>2, <2>4, <2>5
<1>14. ASSUME NEW t \in Thread, Destroy(t) PROVE OwnInv'
  <2> DEFINE r == Top(t).req
  <2>1. At(t, "destroy") /\ Popped(t)
    BY <1>14, <1>s, BumpShape DEF Destroy
  <2>2. /\ stack[t][1].pc = "destroy" /\ Len(stack[t]) \in Nat \ {0}
        /\ Top(t) = stack[t][1] /\ 1 \in 1..Len(stack[t])
    BY <1>s, <2>1, AtFacts
  <2>3. alive' = alive \ {r} /\ Queued' = Queued \ {r}
    BY <1>14, <1>s, DestroyFacts, QueuedDestroyed DEF Known
  <2> HIDE DEF r
  <2>4. CASE t = "receiver"
    <3>1. alive \ Queued \subseteq {r}
      BY <2>2, <2>4 DEF OwnInv, Detached, r
    <3>2. alive' \subseteq Queued'
      BY <2>3, <3>1
    <3>3. Len(stack'["receiver"]) > 0 => stack'["receiver"][1].pc # "drain"
      BY <1>s, <2>1, <2>4, CallerOf
    <3> QED  BY <3>2, <3>3, OwnReceiver
  <2>5. CASE t = "sweeper"
    <3>1. r \notin alive \ Queued
      BY <1>d, <2>2, <2>5 DEF r
    <3>2. alive' \ Queued' = alive \ Queued
      BY <2>3, <3>1
    <3>3. \A k \in 1..Len(stack'["sweeper"]) : stack'["sweeper"][k].req \notin alive \ Queued
      <4> SUFFICES ASSUME NEW k \in 1..Len(stack'["sweeper"])
                   PROVE  stack'["sweeper"][k].req \notin alive \ Queued
        OBVIOUS
      <4>1. /\ k + 1 \in 1..Len(stack["sweeper"]) /\ k \in 1..(Len(stack["sweeper"]) - 1)
        BY <1>n, <1>s, <2>1, <2>5 DEF Popped
      <4>2. stack'["sweeper"][k] = stack["sweeper"][k + 1]
        BY <2>1, <2>5, <4>1 DEF Popped
      <4> QED  BY <1>d, <4>1, <4>2
    <3> QED  BY <1>s, <2>1, <2>5, <3>2, <3>3, OwnSweeper DEF Popped, OthersKept
  <2> QED  BY <1>s, <2>4, <2>5
<1>15. ASSUME SweepBegin PROVE OwnInv'
  <2>1. UNCHANGED <<reqs, alive>>
    BY <1>15 DEF SweepBegin, memory
  <2>2. PICK a \in Activation : /\ a.req \in Queued \cup {NULL}
                                /\ Started("sweeper", a)
    BY <1>15, <1>s, SweepBeginShape, SweepOnQueue DEF Is
  <2>3. \A k \in 1..Len(stack'["sweeper"]) : stack'["sweeper"][k].req \notin alive \ Queued
    BY <1>s, <2>2 DEF Started
  <2> QED  BY <1>q, <1>s, <2>1, <2>2, <2>3, OwnSweeper DEF Started, OthersKept
<1>16. ASSUME SweepStep PROVE OwnInv'
  <2>1. At("sweeper", "sweep") /\ UNCHANGED <<reqs, alive>>
    BY <1>16 DEF SweepStep, memory
  <2>2. /\ stack["sweeper"][1].pc = "sweep" /\ Len(stack["sweeper"]) > 0
        /\ Top("sweeper") = stack["sweeper"][1] /\ 1 \in 1..Len(stack["sweeper"])
    BY <1>s, <2>1, AtFacts
  <2>3. \/ Popped("sweeper")
        \/ \E a, b \in Activation :
              /\ a.req \in Queued \cup {NULL}
              /\ b.pc = "check" /\ b.req = Top("sweeper").req
              /\ Pushed("sweeper", a, b)
    BY <1>16, <1>s, SweepStepShape, SweepOnQueue DEF Is
  <2>4. Top("sweeper").req \notin alive \ Queued
    BY <1>d, <2>2
  <2>5. \A x \in Queued \cup {NULL} : x \notin alive \ Queued
    BY <1>s
  <2> QED  BY <1>5, <1>7, <1>s, <2>1, <2>2, <2>3, <2>4, <2>5
<1>17. ASSUME Tick PROVE OwnInv'
  <2>1. UNCHANGED <<reqs, alive>>
    BY <1>17 DEF Tick
  <2>2. \A t \in {"receiver", "sweeper"} :
                /\ Len(stack'[t]) = Len(stack[t])
                /\ \A k \in 1..Len(stack[t]) :
                     /\ stack'[t][k].pc = stack[t][k].pc
                     /\ stack'[t][k].req = stack[t][k].req
    BY <1>17, <1>s, TickShape
  <2>3. Queued' = Queued
    BY <1>q, <2>1
  <2>4. ASSUME NEW r \in alive' \ Queued' PROVE Detached(r)'
    <3>1. Detached(r)
      BY <2>1, <2>3 DEF OwnInv
    <3>2. 1 \in 1..Len(stack["receiver"])
      BY <3>1 DEF Detached
    <3> QED  BY <2>2, <3>1, <3>2 DEF Detached
  <2>5. \A k \in 1..Len(stack'["receiver"]) :
            stack'["receiver"][k].pc = "drain" =>
                stack'["receiver"][k].req \in alive' \ Queued'
    BY <2>1, <2>2, <2>3 DEF OwnInv
  <2> QED  BY <2>4, <2>5 DEF OwnInv
<1>18. ASSUME (\E t \in Thread : UseAfterFree(t)) \/ UNCHANGED vars PROVE OwnInv'
  BY <1>18 DEF UseAfterFree, vars, memory, OwnInv, Detached, Queued
<1> QED
  BY <1>1, <1>2, <1>3, <1>4, <1>8, <1>9, <1>10, <1>11, <1>12, <1>13, <1>14,
     <1>15, <1>16, <1>17, <1>18 DEF Next, Step, Faulted
\* The invariants of the queue and of the call stacks hold throughout.
LEMMA KnownAlways == Spec => []Known
<1>1. Init => QueueInv
  BY DEF Init, QueueInv, QueueIntegrity, OneRequestPerNextHop
<1>2. Spec => []TypeInv
  BY TypeInit, TypeNext, PTL DEF Spec
<1>3. Spec => []QueueInv
  BY <1>1, <1>2, QueueNext, PTL DEF Spec
<1>4. Spec => []CallInv
  BY <1>2, CallInit, CallNext, PTL DEF Spec
<1> QED  BY <1>2, <1>3, <1>4, PTL DEF Known

\* So does the ownership of detached requests.
LEMMA OwnAlways == Spec => []OwnInv
<1>1. Init => OwnInv
  BY DEF Init, OwnInv, Thread
<1> QED  BY <1>1, KnownAlways, OwnNext, PTL DEF Spec

\* A request that an ARP reply detached belongs to the receiver alone until
\* the receiver frees it: it is allocated, it is not on the queue and the
\* sweeper has no pointer to it, however the threads are scheduled.  So the
\* receiver may walk its packets without the lock.
THEOREM DrainIsOwned == Spec => []DrainedRequestIsOwned
<1>1. Known /\ OwnInv => DrainedRequestIsOwned
  <2> SUFFICES ASSUME Known, OwnInv, NEW k \in DOMAIN stack["receiver"],
                      stack["receiver"][k].pc = "drain"
               PROVE  LET r == stack["receiver"][k].req IN
                      /\ r \in alive
                      /\ \A i \in DOMAIN reqs : reqs[i] # r
                      /\ ~Refers("sweeper", r)
    BY DEF DrainedRequestIsOwned
  <2> DEFINE r == stack["receiver"][k].req
  <2>1. /\ DOMAIN stack["receiver"] = 1..Len(stack["receiver"])
        /\ DOMAIN stack["sweeper"] = 1..Len(stack["sweeper"])
    <3>1. stack \in Stacks /\ "receiver" \in Thread /\ "sweeper" \in Thread
      BY DEF Known, TypeInv, TypeOK, Stacks, Thread
    <3> QED  BY <3>1, StackFacts
  <2>2. r \in alive \ Queued
    BY <2>1 DEF OwnInv
  <2>3. Detached(r)
    BY <2>2 DEF OwnInv
  <2> QED  BY <2>1, <2>2, <2>3 DEF Detached, Refers, Queued
<1> QED  BY <1>1, KnownAlways, OwnAlways, PTL

-----------------------------------------------------------------------------
(* The race on times_sent.                                                 *)

\* Thread t has passed the test of times_sent for r and has not stored the
\* incremented value yet.
Racing(t, r) ==
    /\ Len(stack[t]) > 0
    /\ stack[t][1].req = r
    /\ stack[t][1].pc \in {"ask", "bump"}

\* At the limit only one thread can still be between test and store, and above
\* it none, so the limit is overshot by one at most.
RaceInv ==
    /\ \A r \in Req : times[r] <= MaxTries + 1
    /\ \A r \in alive : times[r] = MaxTries + 1 => \A t \in Thread : ~Racing(t, r)
    /\ \A r \in alive : times[r] = MaxTries =>
          \A t, u \in Thread : Racing(t, r) /\ Racing(u, r) => t = u
    /\ \A r \in alive, t \in Thread : Racing(t, r) /\ stack[t][1].pc = "bump" =>
          /\ stack[t][1].n <= MaxTries
          /\ stack[t][1].n = MaxTries => times[r] = MaxTries

\* The invariant survives a step after which no more threads race than before.
LEMMA RaceKept ==
    ASSUME RaceInv, alive' \subseteq alive,
           \A r \in alive' : times'[r] = times[r],
           \A r \in Req : times'[r] <= MaxTries + 1,
           \A t \in Thread : \A r \in alive' :
              Racing(t, r)' => /\ Racing(t, r)
                               /\ stack'[t][1].pc = stack[t][1].pc
                               /\ stack'[t][1].n = stack[t][1].n
    PROVE  RaceInv'
BY DEF RaceInv

\* Every step keeps the bounds on the racing increments.
LEMMA RaceNext == Known /\ RaceInv /\ [Next]_vars => RaceInv'
<1> SUFFICES ASSUME Known, RaceInv, [Next]_vars PROVE RaceInv'
  OBVIOUS
<1>s. /\ TypeInv /\ stack \in Stacks /\ {"receiver", "sweeper"} = Thread
      /\ alive \subseteq Req /\ times \in [Req -> Nat] /\ MaxTries \in Nat \ {0}
  BY ArpQueueAssumption DEF Known, TypeInv, TypeOK, Stacks, Thread
<1>t. \A r \in Req : times[r] <= MaxTries + 1
  BY DEF RaceInv
<1>1. ASSUME NEW t \in Thread, alive' \subseteq alive,
             \A r \in alive' : times'[r] = times[r],
             \A r \in Req : times'[r] <= MaxTries + 1,
             OthersKept(t),
             Len(stack'[t]) > 0 => stack'[t][1].pc \notin {"ask", "bump"}
      PROVE  RaceInv'
  <2>1. \A u \in Thread : \A r \in alive' :
              Racing(u, r)' => /\ Racing(u, r)
                               /\ stack'[u][1].pc = stack[u][1].pc
                               /\ stack'[u][1].n = stack[u][1].n
    BY <1>1 DEF Racing, OthersKept
  <2> QED  BY <1>1, <2>1, RaceKept
<1>2. ASSUME UNCHANGED <<stack, times, alive>> PROVE RaceInv'
  BY <1>2 DEF RaceInv, Racing
<1>3. ASSUME NEW t \in Thread, Popped(t), UNCHANGED <<times, alive>> PROVE RaceInv'
  <2>1. Len(stack'[t]) > 0 => stack'[t][1].pc \notin {"ask", "bump"}
    BY <1>3, CallerOf
  <2> QED  BY <1>1, <1>3, <1>t, <2>1 DEF Popped
<1>4. ASSUME NEW t \in Thread, NEW a, a.pc \notin {"ask", "bump"},
             Replaced(t, a) \/ Started(t, a) \/ \E b : Pushed(t, b, a),
             UNCHANGED <<times, alive>>
      PROVE  RaceInv'
  <2>1. stack'[t][1].pc \notin {"ask", "bump"} /\ OthersKept(t)
    BY <1>4 DEF Replaced, Started, Pushed
  <2> QED  BY <1>1, <1>4, <1>t, <2>1
<1>5. ASSUME NEW p \in Packets, HandleIp(p) PROVE RaceInv'
  <2>1. UNCHANGED <<times, alive>>
    BY <1>5 DEF HandleIp, memory
  <2> QED  BY <1>2, <1>4, <1>5, <1>s, <2>1, HandleIpShape DEF Is
<1>6. ASSUME NEW ad \in IP, HandleArpReply(ad) PROVE RaceInv'
  <2>1. UNCHANGED <<times, alive>>
    BY <1>6 DEF HandleArpReply
  <2> QED  BY <1>4, <1>6, <1>s, <2>1, HandleArpReplyShape DEF Is
<1>7. ASSUME NEW t \in Thread, Drain(t) \/ LoopEnd(t) PROVE RaceInv'
  <2>1. UNCHANGED <<times, alive>>
    BY <1>7 DEF Drain, LoopEnd, memory
  <2>2. \E a \in Activation : a.pc \in {"drain", "destroy"} /\ Replaced(t, a)
    BY <1>7, <1>s, DrainShape, LoopEndShape DEF Is
  <2> QED  BY <1>4, <2>1, <2>2
<1>8. ASSUME NEW t \in Thread, Route(t) PROVE RaceInv'
  <2>1. PICK q \in QueuedPacket, r \in Req, a \in Activation :
             /\ Is(a, "check", r, <<>>) /\ Replaced(t, a)
             /\ \A x \in Req \ {r} : times'[x] = times[x]
             /\ Joins(q, r) \/ Opens(q, r)
    BY <1>8, <1>s, RouteShape
  <2>2. CASE Joins(q, r)
    BY <1>4, <2>1, <2>2 DEF Is, Joins
  <2>3. CASE Opens(q, r)
    <3>1. r \notin alive /\ alive' = alive \cup {r} /\ times'[r] = 0 /\ Unreferenced(r)
      BY <2>3 DEF Opens
    <3>2. \A u \in Thread : Len(stack[u]) > 0 => stack[u][1].req # r
      BY <1>s, <3>1, StackFacts DEF Unreferenced
    <3>3. \A u \in Thread : ~Racing(u, r)'
      BY <2>1, <3>2 DEF Racing, Replaced, OthersKept, Is
    <3>4. \A u \in Thread : \A x \in alive :
              Racing(u, x)' => /\ Racing(u, x)
                               /\ stack'[u][1].pc = stack[u][1].pc
                               /\ stack'[u][1].n = stack[u][1].n
      BY <2>1 DEF Racing, Replaced, OthersKept, Is
    <3>5. \A x \in alive : times'[x] = times[x]
      BY <1>s, <2>1, <3>1
    <3>6. \A x \in Req : times'[x] <= MaxTries + 1
      BY <1>s, <1>t, <2>1, <3>1
    <3>7. \A x \in alive : /\ times'[x] = MaxTries + 1 => \A u \in Thread : ~Racing(u, x)'
                           /\ times'[x] = MaxTries =>
                                \A v, u \in Thread : Racing(v, x)' /\ Racing(u, x)' => v = u
      BY <3>4, <3>5 DEF RaceInv
    <3>8. \A x \in alive, u \in Thread : Racing(u, x)' /\ stack'[u][1].pc = "bump" =>
                /\ stack'[u][1].n <= MaxTries
                /\ stack'[u][1].n = MaxTries => times'[x] = MaxTries
      BY <3>4, <3>5 DEF RaceInv
    <3> QED  BY <3>1, <3>3, <3>6, <3>7, <3>8 DEF RaceInv
  <2> QED  BY <2>1, <2>2, <2>3
<1>9. ASSUME NEW t \in Thread, Check(t) PROVE RaceInv'
  <2>1. UNCHANGED <<times, alive>>
    BY <1>9 DEF Check, memory
  <2> QED  BY <1>3, <1>4, <1>9, <1>s, <2>1, CheckShape DEF Is
<1>10. ASSUME NEW t \in Thread, Count(t) PROVE RaceInv'
  <2> DEFINE r == Top(t).req
  <2>1. UNCHANGED <<times, alive>> /\ r \in alive
    BY <1>10 DEF Count, memory
  <2>2. PICK a \in Activation :
             /\ Replaced(t, a)
             /\ a.req = r
             /\ a.pc = "giveup" \/ (~(times[r] >= MaxTries) /\ a.pc = "ask")
    BY <1>10, <1>s, CountShape
  <2>3. CASE a.pc = "giveup"
    BY <1>4, <2>1, <2>2, <2>3
  <2>4. CASE ~(times[r] >= MaxTries) /\ a.pc = "ask"
    <3>1. times[r] # MaxTries /\ times[r] # MaxTries + 1
      BY <1>s, <2>1, <2>4
    <3>2. \A u \in Thread : \A x \in alive : Racing(u, x)' =>
              \/ u = t /\ x = r /\ stack'[u][1].pc = "ask"
              \/ Racing(u, x) /\ stack'[u] = stack[u]
      BY <2>2, <2>4 DEF Racing, Replaced, OthersKept
    <3>3. \A x \in alive : /\ times[x] = MaxTries + 1 => \A u \in Thread : ~Racing(u, x)'
                           /\ times[x] = MaxTries =>
                                \A v, u \in Thread : Racing(v, x)' /\ Racing(u, x)' => v = u
      BY <3>1, <3>2 DEF RaceInv
    <3>4. \A x \in alive, u \in Thread : Racing(u, x)' /\ stack'[u][1].pc = "bump" =>
                /\ stack'[u][1].n <= MaxTries
                /\ stack'[u][1].n = MaxTries => times[x] = MaxTries
      BY <3>2 DEF RaceInv
    <3> QED  BY <1>t, <2>1, <3>3, <3>4 DEF RaceInv
  <2> QED  BY <2>2, <2>3, <2>4
<1>11. ASSUME NEW t \in Thread, Ask(t) PROVE RaceInv'
  <2> DEFINE r == Top(t).req
  <2>1. UNCHANGED <<times, alive>> /\ r \in alive /\ At(t, "ask")
    BY <1>11 DEF Ask, memory
  <2>2. Racing(t, r)
    BY <1>s, <2>1, AtFacts DEF Racing
  <2>3. PICK a \in Activation :
             Replaced(t, a) /\ a.req = r /\ a.pc = "bump" /\ a.n = times[r]
    BY <1>11, <1>s, AskShape DEF Is
  <2>4. times[r] \in Nat /\ times[r] # MaxTries + 1 /\ times[r] <= MaxTries + 1
    BY <1>s, <1>t, <2>1, <2>2 DEF RaceInv
  <2> HIDE DEF r
  <2>5. \A u \in Thread : \A x \in alive : Racing(u, x)' =>
              /\ Racing(u, x)
              /\ \/ u = t /\ x = r /\ stack'[u][1].n = times[r]
                 \/ stack'[u] = stack[u]
    BY <2>2, <2>3 DEF Racing, Replaced, OthersKept
  <2>6. \A x \in alive : /\ times[x] = MaxTries + 1 => \A u \in Thread : ~Racing(u, x)'
                         /\ times[x] = MaxTries =>
                              \A v, u \in Thread : Racing(v, x)' /\ Racing(u, x)' => v = u
    BY <2>5 DEF RaceInv
  <2>7. ASSUME NEW x \in alive, NEW u \in Thread, Racing(u, x)', stack'[u][1].pc = "bump"
        PROVE  /\ stack'[u][1].n <= MaxTries
               /\ stack'[u][1].n = MaxTries => times[x] = MaxTries
    <3>1. CASE u = t /\ x = r /\ stack'[u][1].n = times[r]
      BY <1>s, <2>4, <3>1
    <3>2. CASE stack'[u] = stack[u]
      BY <2>5, <2>7, <3>2 DEF RaceInv
    <3> QED  BY <2>5, <2>7, <3>1, <3>2
  <2> QED  BY <1>t, <2>1, <2>6, <2>7 DEF RaceInv
<1>12. ASSUME NEW t \in Thread, Bump(t) PROVE RaceInv'
  <2> DEFINE r == Top(t).req
             n == stack[t][1].n
  <2>1. alive' = alive /\ r \in alive /\ At(t, "bump") /\ times' = [times EXCEPT ![r] = Top(t).n + 1]
    BY <1>12 DEF Bump
  <2>2. Racing(t, r) /\ stack[t][1].pc = "bump" /\ n \in Nat /\ Top(t).n = n
    BY <1>s, <2>1, AtFacts DEF Racing, Activation
  <2>3. Popped(t)
    BY <1>12, <1>s, BumpShape
  <2>4. Len(stack'[t]) > 0 => stack'[t][1].pc \notin {"ask", "bump"}
    BY <2>3, CallerOf
  <2>5. n <= MaxTries /\ (n = MaxTries => times[r] = MaxTries)
    BY <2>1, <2>2 DEF RaceInv
  <2> HIDE DEF r, n
  <2>6. /\ times'[r] = n + 1
        /\ \A x \in Req \ {r} : times'[x] = times[x]
    BY <1>s, <2>1, <2>2
  <2>7. \A u \in Thread : \A x \in alive : Racing(u, x)' =>
              u # t /\ Racing(u, x) /\ stack'[u] = stack[u]
    BY <2>3, <2>4 DEF Racing, Popped, OthersKept
  <2>8. \A x \in Req : times'[x] <= MaxTries + 1
    BY <1>s, <1>t, <2>2, <2>5, <2>6
  <2>9. ASSUME NEW x \in alive, times'[x] = MaxTries + 1, NEW u \in Thread PROVE ~Racing(u, x)'
    <3>1. CASE x = r
      <4>1. times[r] = MaxTries
        BY <1>s, <2>2, <2>5, <2>6, <2>9, <3>1
      <4> QED  BY <2>1, <2>2, <2>7, <3>1, <4>1 DEF RaceInv
    <3>2. CASE x # r
      BY <1>s, <2>6, <2>7, <2>9, <3>2 DEF RaceInv
    <3> QED  BY <3>1, <3>2
  <2>10. ASSUME NEW x \in alive, times'[x] = MaxTries, NEW u \in Thread, NEW v \in Thread,
                Racing(u, x)', Racing(v, x)'
         PROVE  u = v
    <3>1. u # t /\ v # t
      BY <2>7, <2>10
    <3> QED  BY <1>s, <3>1
  <2>11. ASSUME NEW x \in alive, NEW u \in Thread, Racing(u, x)', stack'[u][1].pc = "bump"
         PROVE  /\ stack'[u][1].n <= MaxTries
                /\ stack'[u][1].n = MaxTries => times'[x] = MaxTries
    <3>1. u # t /\ Racing(u, x) /\ stack'[u] = stack[u]
      BY <2>7, <2>11
    <3>2. stack[u][1].n <= MaxTries /\ (stack[u][1].n = MaxTries => times[x] = MaxTries)
      BY <2>11, <3>1 DEF RaceInv
    <3>3. CASE x = r
      <4>1. times[x] # MaxTries
        BY <2>1, <2>2, <3>1, <3>3 DEF RaceInv
      <4> QED  BY <3>1, <3>2, <4>1
    <3>4. CASE x # r
      BY <1>s, <2>6, <3>1, <3>2, <3>4
    <3> QED  BY <3>3, <3>4
  <2> QED  BY <2>1, <2>8, <2>9, <2>10, <2>11 DEF RaceInv
<1>13. ASSUME NEW t \in Thread, GiveUp(t) PROVE RaceInv'
  <2>1. UNCHANGED <<times, alive>>
    BY <1>13 DEF GiveUp, memory
  <2>2. \/ UNCHANGED stack
        \/ \E a \in Activation : a.pc = "giveup" /\ Replaced(t, a)
        \/ \E a, b \in Activation : b.pc = "route" /\ Pushed(t, a, b)
    BY <1>13, <1>s, GiveUpShape DEF Is
  <2> QED  BY <1>2, <1>4, <2>1, <2>2
<1>14. ASSUME NEW t \in Thread, Destroy(t) PROVE RaceInv'
  <2>1. Popped(t)
    BY <1>14, <1>s, BumpShape
  <2>2. Len(stack'[t]) > 0 => stack'[t][1].pc \notin {"ask", "bump"}
    BY <2>1, CallerOf
  <2> DEFINE r == Top(t).req
  <2>3. /\ r \in Req /\ alive' = alive \ {r} /\ times'[r] = 0
        /\ \A x \in Req \ {r} : times'[x] = times[x]
    BY <1>14, <1>s, DestroyFacts
  <2> HIDE DEF r
  <2>4. \A x \in alive' : times'[x] = times[x]
    BY <1>s, <2>3
  <2>5. \A x \in Req : times'[x] <= MaxTries + 1
    BY <1>s, <1>t, <2>3
  <2> QED  BY <1>1, <2>1, <2>2, <2>3, <2>4, <2>5 DEF Popped
<1>15. ASSUME SweepBegin PROVE RaceInv'
  <2>1. UNCHANGED <<times, alive>>
    BY <1>15 DEF SweepBegin, memory
  <2> QED  BY <1>4, <1>15, <1>s, <2>1, SweepBeginShape DEF Is
<1>16. ASSUME SweepStep PROVE RaceInv'
  <2>1. UNCHANGED <<times, alive>>
    BY <1>16 DEF SweepStep, memory
  <2>2. \/ Popped("sweeper")
        \/ \E a, b \in Activation : b.pc = "check" /\ Pushed("sweeper", a, b)
    BY <1>16, <1>s, SweepStepShape DEF Is
  <2> QED  BY <1>3, <1>4, <1>s, <2>1, <2>2
<1>17. ASSUME Tick PROVE RaceInv'
  <2>1. UNCHANGED <<times, alive>>
    BY <1>17 DEF Tick
  <2>2. \A t \in Thread : Len(stack[t]) \in Nat
    BY <1>s, StackFacts
  <2>3. \A t \in Thread : \A r \in alive' :
              Racing(t, r)' => /\ Racing(t, r)
                               /\ stack'[t][1].pc = stack[t][1].pc
                               /\ stack'[t][1].n = stack[t][1].n
    BY <1>17, <1>s, <2>2, TickShape DEF Racing
  <2> QED  BY <1>t, <2>1, <2>3, RaceKept
<1>18. ASSUME (\E t \in Thread : UseAfterFree(t)) \/ UNCHANGED vars PROVE RaceInv'
  BY <1>2, <1>18 DEF UseAfterFree, vars, memory
<1> QED
  BY <1>5, <1>6, <1>7, <1>8, <1>9, <1>10, <1>11, <1>12, <1>13, <1>14,
     <1>15, <1>16, <1>17, <1>18 DEF Next, Step, Faulted

\* The unprotected increments of times_sent by the two threads can overshoot
\* the limit by one and no more, for every limit.
THEOREM TimesSentCorrect == Spec => []TimesSentBounded
<1>1. Init => RaceInv
  BY ArpQueueAssumption DEF Init, RaceInv
<1>2. Spec => []RaceInv
  BY <1>1, KnownAlways, RaceNext, PTL DEF Spec
<1>3. RaceInv => TimesSentBounded
  BY DEF RaceInv, TimesSentBounded
<1> QED  BY <1>2, <1>3, PTL

-----------------------------------------------------------------------------
(* An error that cannot be delivered is reported to nobody.                *)

\* Two activations at the same statement, about the same request and packets.
Alike(a, b) == a.pc = b.pc /\ a.req = b.req /\ a.todo = b.todo

\* Every activation after the step is one of New, or like one before it.
OnlyAdds(New) ==
    \A u \in Thread : \A k \in 1..Len(stack'[u]) :
        \/ stack'[u][k] \in New
        \/ \E j \in 1..Len(stack[u]) : Alike(stack'[u][k], stack[u][j])

\* A step that only replaces, calls, returns or starts brings in nothing else.
LEMMA ReplacedAdds ==
    ASSUME stack \in Stacks, NEW t \in Thread, NEW a,
           Replaced(t, a) \/ Started(t, a)
    PROVE  OnlyAdds({a})
<1>1. \A u \in Thread : Len(stack[u]) \in Nat
  BY StackFacts
<1> SUFFICES ASSUME NEW u \in Thread, NEW k \in 1..Len(stack'[u])
             PROVE  \/ stack'[u][k] = a
                    \/ \E j \in 1..Len(stack[u]) : Alike(stack'[u][k], stack[u][j])
  BY DEF OnlyAdds
<1>2. CASE u = t /\ Replaced(t, a)
  <2>1. k \in 1..Len(stack[u]) /\ (k = 1 \/ k \in 2..Len(stack[u]))
    BY <1>1, <1>2 DEF Replaced, Alike
  <2> QED  BY <1>2, <2>1 DEF Replaced, Alike
<1>3. CASE u = t /\ Started(t, a)
  BY <1>3 DEF Started, Alike
<1>4. CASE u # t
  BY <1>4 DEF Replaced, Started, OthersKept, Alike
<1> QED  BY <1>2, <1>3, <1>4

\* The same for a call.
LEMMA PushedAdds ==
    ASSUME stack \in Stacks, NEW t \in Thread, NEW a, NEW b, Pushed(t, a, b)
    PROVE  OnlyAdds({a, b})
<1>1. \A u \in Thread : Len(stack[u]) \in Nat
  BY StackFacts
<1> SUFFICES ASSUME NEW u \in Thread, NEW k \in 1..Len(stack'[u])
             PROVE  \/ stack'[u][k] \in {a, b}
                    \/ \E j \in 1..Len(stack[u]) : Alike(stack'[u][k], stack[u][j])
  BY DEF OnlyAdds
<1>2. CASE u = t /\ k \notin {1, 2}
  <2>1. k - 1 \in 2..Len(stack[u]) /\ k - 1 \in 1..Len(stack[u]) /\ (k - 1) + 1 = k
    BY <1>1, <1>2 DEF Pushed, Alike
  <2> QED  BY <1>2, <2>1 DEF Pushed, Alike
<1>3. CASE u = t /\ k \in {1, 2}
  BY <1>3 DEF Pushed, Alike
<1>4. CASE u # t
  BY <1>4 DEF Pushed, OthersKept, Alike
<1> QED  BY <1>2, <1>3, <1>4

\* The same for a return.
LEMMA PoppedAdds ==
    ASSUME stack \in Stacks, NEW t \in Thread, Popped(t)
    PROVE  OnlyAdds({})
<1>1. \A u \in Thread : Len(stack[u]) \in Nat
  BY StackFacts
<1> SUFFICES ASSUME NEW u \in Thread, NEW k \in 1..Len(stack'[u])
             PROVE  \E j \in 1..Len(stack[u]) : Alike(stack'[u][k], stack[u][j])
  BY DEF OnlyAdds
<1>2. CASE u = t
  <2>1. k + 1 \in 1..Len(stack[u]) /\ k \in 1..(Len(stack[u]) - 1)
    BY <1>1, <1>2 DEF Popped, Alike
  <2> QED  BY <1>2, <2>1 DEF Popped, Alike
<1>3. CASE u # t
  BY <1>3 DEF Popped, OthersKept, Alike
<1> QED  BY <1>2, <1>3

\* A frame that is not about an error; one that is an error comes from the
\* router itself.
Quiet(f) ==
    /\ f.about \notin ErrorKind
    /\ f.kind \in ErrorKind => f.src \in OwnIP

AllQuiet(s) == \A k \in DOMAIN s : Quiet(s[k].buf)

QuietInv ==
    /\ \A r \in Req : AllQuiet(pkts[r])
    /\ \A t \in Thread : \A k \in 1..Len(stack[t]) : AllQuiet(stack[t][k].todo)

\* What is sent back to a sender is quiet if what it is about is no error and
\* the source address is unknown or one of the router's.
LEMMA ErrorQuiet ==
    ASSUME NEW kind, NEW orig, NEW srcIP \in OwnIP \cup {NoIP},
           orig.kind \notin ErrorKind,
           NEW q \in send_icmp_error(kind, orig, srcIP)
    PROVE  Quiet(q.buf)
<1>1. PICK a \in IF srcIP = NoIP THEN ReturnIP(orig.src) ELSE {srcIP} :
         q \in route_and_send([kind |-> kind, id |-> orig.id, src |-> a,
                               dst |-> orig.src, ttl |-> INIT_TTL,
                               about |-> orig.kind])
  BY DEF send_icmp_error
<1>2. a \in OwnIP
  BY <1>1 DEF ReturnIP, OwnIP
<1>3. q.buf.about = orig.kind /\ q.buf.src = a
  BY <1>1 DEF route_and_send
<1> QED  BY <1>2, <1>3 DEF Quiet

\* Nothing is sent back to the router's own addresses.
LEMMA NoErrorToSelf ==
    ASSUME NoRouteToSelf, NEW kind, NEW orig, orig.src \in OwnIP
    PROVE  send_icmp_error(kind, orig, NoIP) = {}
<1>1. rt_exact_match(orig.src) = {}
  BY DEF rt_exact_match, NoRouteToSelf
<1>2. ReturnIP(orig.src) = {}
  BY <1>1 DEF ReturnIP
<1> QED  BY <1>2 DEF send_icmp_error

\* What a received packet makes the router queue is quiet.
LEMMA HandleIpQuiet ==
    ASSUME NEW p \in Packet, NEW q \in handle_ip_packet(p)
    PROVE  Quiet(q.buf)
<1>1. p.kind \notin ErrorKind
  BY DEF Packet, PacketKind, ErrorKind
<1>2. InterfaceIP(p.in) \in OwnIP \cup {NoIP}
  BY DEF InterfaceIP, OwnIP
<1>3. ASSUME NEW kind, q \in send_icmp_error(kind, p, InterfaceIP(p.in)) PROVE Quiet(q.buf)
  BY <1>1, <1>2, <1>3, ErrorQuiet
<1>4. ASSUME q \in send_icmp_echo_reply(p) \/ q \in forward(p) PROVE Quiet(q.buf)
  BY <1>4 DEF send_icmp_echo_reply, forward, route_and_send, Quiet, ErrorKind
<1> QED  BY <1>3, <1>4 DEF handle_ip_packet

\* One packet more, or one less, of quiet packets.
LEMMA QuietLists ==
    ASSUME NEW s \in Seq(QueuedPacket), AllQuiet(s)
    PROVE  /\ s # <<>> => Quiet(Head(s).buf) /\ AllQuiet(Tail(s))
           /\ \A q \in QueuedPacket : Quiet(q.buf) => AllQuiet(<<q>> \o s)
           /\ \A q \in QueuedPacket : Quiet(q.buf) => AllQuiet(<<q>>)
<1>1. ASSUME s # <<>> PROVE Quiet(Head(s).buf) /\ AllQuiet(Tail(s))
  <2>1. Head(s) = s[1] /\ 1 \in DOMAIN s
    BY <1>1, HeadTailProperties, LenProperties, EmptySeq
  <2>2. \A k \in DOMAIN Tail(s) : \E j \in DOMAIN s : Tail(s)[k] = s[j]
    BY <1>1, TailFacts
  <2> QED  BY <2>1, <2>2 DEF AllQuiet
<1>2. ASSUME NEW q \in QueuedPacket, Quiet(q.buf) PROVE AllQuiet(<<q>> \o s)
  <2> DEFINE n == <<q>> \o s
  <2>1. /\ n \in Seq(QueuedPacket)
        /\ Len(n) = Len(s) + 1
        /\ n[1] = q
        /\ \A k \in 2..(Len(s) + 1) : n[k] = s[k - 1]
    BY PrependFacts
  <2>2. DOMAIN n = 1..(Len(s) + 1) /\ DOMAIN s = 1..Len(s) /\ Len(s) \in Nat
    BY <2>1, LenProperties
  <2> HIDE DEF n
  <2> SUFFICES ASSUME NEW k \in 1..(Len(s) + 1) PROVE Quiet(n[k].buf)
    BY <2>2 DEF AllQuiet, n
  <2>3. CASE k = 1
    BY <1>2, <2>1, <2>3
  <2>4. CASE k # 1
    <3>1. k - 1 \in DOMAIN s /\ n[k] = s[k - 1]
      BY <2>1, <2>2, <2>4
    <3> QED  BY <3>1 DEF AllQuiet
  <2> QED  BY <2>3, <2>4
<1>3. \A q \in QueuedPacket : Quiet(q.buf) => AllQuiet(<<q>>)
  BY DEF AllQuiet
<1> QED  BY <1>1, <1>2, <1>3

\* A step that leaves the requests alone and starts nothing that is not quiet.
LEMMA QuietKept ==
    ASSUME QuietInv, NEW New, OnlyAdds(New), \A a \in New : AllQuiet(a.todo),
           \A r \in Req : AllQuiet(pkts'[r])
    PROVE  QuietInv'
BY DEF QuietInv, OnlyAdds, Alike, AllQuiet

\* Every step keeps the queued frames, and those under way to the queue, quiet.
LEMMA QuietNext ==
    ASSUME NoRouteToSelf, TypeInv, QuietInv, [Next]_vars
    PROVE  QuietInv'
<1>s. /\ stack \in Stacks /\ {"receiver", "sweeper"} = Thread
      /\ pkts \in [Req -> Seq(QueuedPacket)] /\ alive \subseteq Req
  BY DEF TypeInv, TypeOK, Stacks, Thread
<1>p. \A r \in Req : AllQuiet(pkts[r])
  BY DEF QuietInv
<1>e. AllQuiet(<<>>)
  BY DEF AllQuiet
<1>o. ASSUME NEW t \in Thread, NEW pc, At(t, pc)
      PROVE  /\ AllQuiet(Top(t).todo) /\ Top(t).todo \in Seq(QueuedPacket)
             /\ Top(t).todo # <<>> => /\ Quiet(Head(Top(t).todo).buf)
                                      /\ Head(Top(t).todo) \in QueuedPacket
                                      /\ AllQuiet(Tail(Top(t).todo))
  <2>1. Top(t) = stack[t][1] /\ 1 \in 1..Len(stack[t]) /\ Top(t).todo \in Seq(QueuedPacket)
    BY <1>o, AtFacts
  <2>2. AllQuiet(Top(t).todo)
    BY <2>1 DEF QuietInv
  <2> QED  BY <1>o, <2>1, <2>2, QuietLists, AtFacts
<1>1. ASSUME UNCHANGED <<stack, pkts>> PROVE QuietInv'
  BY <1>1 DEF QuietInv
<1>2. ASSUME NEW t \in Thread, NEW a, Replaced(t, a) \/ Started(t, a),
             AllQuiet(a.todo), UNCHANGED pkts
      PROVE  QuietInv'
  <2>1. OnlyAdds({a})
    BY <1>2, <1>s, ReplacedAdds
  <2> QED  BY <1>2, <1>p, <2>1, QuietKept
<1>3. ASSUME NEW t \in Thread, Popped(t), \A r \in Req : AllQuiet(pkts'[r])
      PROVE  QuietInv'
  <2>1. OnlyAdds({})
    BY <1>3, <1>s, PoppedAdds
  <2> QED  BY <1>3, <2>1, QuietKept
<1>4. ASSUME NEW p \in Packets, HandleIp(p) PROVE QuietInv'
  <2>1. UNCHANGED pkts
    BY <1>4 DEF HandleIp, memory
  <2>2. ASSUME NEW q \in handle_ip_packet(p), NEW a, q \in QueuedPacket,
               Is(a, "route", NULL, <<q>>), Started("receiver", a)
        PROVE  QuietInv'
    <3>1. Quiet(q.buf)
      BY HandleIpQuiet, ArpQueueAssumption
    <3>2. AllQuiet(a.todo)
      BY <2>2, <3>1 DEF Is, AllQuiet
    <3> QED  BY <1>2, <1>s, <2>1, <2>2, <3>2
  <2> QED  BY <1>1, <1>4, <2>1, <2>2, HandleIpShape
<1>5. ASSUME NEW ad \in IP, HandleArpReply(ad) PROVE QuietInv'
  <2>1. UNCHANGED pkts
    BY <1>5 DEF HandleArpReply
  <2> QED  BY <1>2, <1>5, <1>p, <1>s, <2>1, HandleArpReplyShape DEF Is
<1>6. ASSUME NEW t \in Thread, Drain(t) PROVE QuietInv'
  <2>1. UNCHANGED pkts /\ At(t, "drain") /\ Top(t).todo # <<>>
    BY <1>6 DEF Drain, memory
  <2> QED  BY <1>2, <1>6, <1>o, <2>1, DrainShape DEF Is
<1>7. ASSUME NEW t \in Thread, Route(t) PROVE QuietInv'
  <2>1. PICK q \in QueuedPacket, r \in Req, a \in Activation :
             /\ q = Head(Top(t).todo)
             /\ Is(a, "check", r, <<>>) /\ Replaced(t, a)
             /\ \A x \in Req \ {r} : pkts'[x] = pkts[x]
             /\ pkts'[r] = <<q>> \o pkts[r] \/ pkts'[r] = <<q>>
    BY <1>7, RouteShape DEF Joins, Opens
  <2>2. At(t, "route") /\ Top(t).todo # <<>>
    BY <1>7, AtFacts DEF Route, TypeInv, RouteHasPacket
  <2>3. Quiet(q.buf)
    BY <1>o, <2>1, <2>2
  <2>4. AllQuiet(pkts'[r])
    BY <1>p, <1>s, <2>1, <2>3, QuietLists
  <2>5. OnlyAdds({a}) /\ AllQuiet(a.todo)
    BY <1>e, <1>s, <2>1, ReplacedAdds DEF Is
  <2>6. \A x \in Req : AllQuiet(pkts'[x])
    BY <1>p, <2>1, <2>4
  <2> QED  BY <2>5, <2>6, QuietKept
<1>8. ASSUME NEW t \in Thread, Check(t) PROVE QuietInv'
  <2>1. UNCHANGED pkts
    BY <1>8 DEF Check, memory
  <2> QED  BY <1>2, <1>3, <1>8, <1>e, <1>p, <2>1, CheckShape DEF Is
<1>9. ASSUME NEW t \in Thread, Count(t) PROVE QuietInv'
  <2>1. UNCHANGED pkts /\ At(t, "count") /\ Top(t).req \in alive
    BY <1>9 DEF Count, memory
  <2>2. PICK a \in Activation : /\ Replaced(t, a)
                                /\ a.todo = pkts[Top(t).req] \/ a.todo = Top(t).todo
    BY <1>9, CountShape
  <2> QED  BY <1>2, <1>o, <1>p, <1>s, <2>1, <2>2
<1>10. ASSUME NEW t \in Thread, Ask(t) PROVE QuietInv'
  <2>1. UNCHANGED pkts
    BY <1>10 DEF Ask
  <2> QED  BY <1>2, <1>10, <1>e, <2>1, AskShape DEF Is
<1>11. ASSUME NEW t \in Thread, Bump(t) PROVE QuietInv'
  <2>1. UNCHANGED pkts
    BY <1>11 DEF Bump
  <2> QED  BY <1>3, <1>11, <1>p, <2>1, BumpShape
<1>12. ASSUME NEW t \in Thread, GiveUp(t) PROVE QuietInv'
  <2> DEFINE f == Head(Top(t).todo).buf
             errors == send_icmp_error("host_unreachable", f, NoIP)
  <2>1. UNCHANGED pkts /\ At(t, "giveup") /\ Top(t).todo # <<>>
    BY <1>12 DEF GiveUp, memory
  <2>2. Quiet(f) /\ AllQuiet(Tail(Top(t).todo))
    BY <1>o, <2>1
  <2>3. \A e \in errors : Quiet(e.buf)
    <3>1. CASE f.kind \in ErrorKind
      BY <2>2, <3>1, NoErrorToSelf DEF Quiet
    <3>2. CASE f.kind \notin ErrorKind
      BY <3>2, ErrorQuiet
    <3> QED  BY <3>1, <3>2
  <2>4. \/ UNCHANGED stack
        \/ \E a \in Activation :
             /\ a.todo = Tail(Top(t).todo)
             /\ \/ Replaced(t, a)
                \/ \E e \in errors, b \in Activation :
                     e \in QueuedPacket /\ b.todo = <<e>> /\ Pushed(t, a, b)
    BY <1>12, GiveUpShape DEF Is
  <2> HIDE DEF f, errors
  <2>5. ASSUME NEW a \in Activation, a.todo = Tail(Top(t).todo), NEW e \in errors,
               NEW b \in Activation, e \in QueuedPacket, b.todo = <<e>>, Pushed(t, a, b)
        PROVE  QuietInv'
    <3>1. AllQuiet(a.todo) /\ AllQuiet(b.todo)
      BY <2>2, <2>3, <2>5 DEF AllQuiet
    <3>2. OnlyAdds({a, b})
      BY <1>s, <2>5, PushedAdds
    <3> QED  BY <1>p, <2>1, <3>1, <3>2, QuietKept
  <2> QED  BY <1>1, <1>2, <2>1, <2>2, <2>4, <2>5
<1>13. ASSUME NEW t \in Thread, LoopEnd(t) PROVE QuietInv'
  <2>1. UNCHANGED pkts
    BY <1>13 DEF LoopEnd, memory
  <2> QED  BY <1>2, <1>13, <1>e, <2>1, LoopEndShape DEF Is
<1>14. ASSUME NEW t \in Thread, Destroy(t) PROVE QuietInv'
  <2>1. \A x \in Req : pkts'[x] = pkts[x] \/ pkts'[x] = <<>>
    BY <1>14, <1>s DEF Destroy
  <2> QED  BY <1>3, <1>14, <1>e, <1>p, <2>1, BumpShape
<1>15. ASSUME SweepBegin PROVE QuietInv'
  <2>1. UNCHANGED pkts
    BY <1>15 DEF SweepBegin, memory
  <2> QED  BY <1>2, <1>15, <1>e, <1>s, <2>1, SweepBeginShape DEF Is
<1>16. ASSUME SweepStep PROVE QuietInv'
  <2>1. UNCHANGED pkts
    BY <1>16 DEF SweepStep, memory
  <2>2. \/ Popped("sweeper")
        \/ \E a, b \in Activation : a.todo = <<>> /\ b.todo = <<>> /\ Pushed("sweeper", a, b)
    BY <1>16, SweepStepShape DEF Is
  <2>3. ASSUME NEW a, NEW b, a.todo = <<>>, b.todo = <<>>, Pushed("sweeper", a, b)
        PROVE  QuietInv'
    <3>1. OnlyAdds({a, b})
      BY <1>s, <2>3, PushedAdds
    <3> QED  BY <1>e, <1>p, <2>1, <2>3, <3>1, QuietKept
  <2> QED  BY <1>3, <1>p, <1>s, <2>1, <2>2, <2>3
<1>17. ASSUME Tick PROVE QuietInv'
  <2>1. UNCHANGED pkts
    BY <1>17 DEF Tick
  <2>2. OnlyAdds({})
    BY <1>17, TickShape DEF OnlyAdds, Alike
  <2> QED  BY <1>p, <2>1, <2>2, QuietKept
<1>18. ASSUME (\E t \in Thread : UseAfterFree(t)) \/ UNCHANGED vars PROVE QuietInv'
  BY <1>1, <1>18 DEF UseAfterFree, vars, memory
<1> QED
  BY <1>4, <1>5, <1>6, <1>7, <1>8, <1>9, <1>10, <1>11, <1>12, <1>13, <1>14,
     <1>15, <1>16, <1>17, <1>18 DEF Next, Step, Faulted

\* An ICMP error that waits for an unreachable next hop dies quietly: with no
\* route to the router's own addresses, no frame on any request is ever about
\* an error of this router, so giving up on a request cannot breed errors
\* about errors without end.
THEOREM NoCascade ==
    ASSUME NoRouteToSelf
    PROVE  Spec => []ErrorsDoNotCascade
<1>1. Init => QuietInv
  BY DEF Init, QuietInv, AllQuiet, Thread
<1>2. TypeInv /\ QuietInv /\ [Next]_vars => QuietInv'
  BY QuietNext
<1>3. Spec => []TypeInv
  BY TypeInit, TypeNext, PTL DEF Spec
<1>4. Spec => []QuietInv
  BY <1>1, <1>2, <1>3, PTL DEF Spec
<1>5. TypeInv /\ QuietInv => ErrorsDoNotCascade
  BY DEF TypeInv, TypeOK, QuietInv, AllQuiet, Quiet, ErrorsDoNotCascade
<1> QED  BY <1>3, <1>4, <1>5, PTL
=============================================================================
