--------------------------- MODULE ArpCacheProofs ---------------------------
(***************************************************************************)
(* The request queue and its two threads implement Delivery: no frame the  *)
(* receiver accepted is lost, and none is both sent to its next hop and    *)
(* reported unreachable.  And the whole of struct sr_arpcache: with the    *)
(* table of resolved addresses beside it the queue is still the queue of   *)
(* ArpQueue, so every theorem about that one holds of it; and the table    *)
(* keeps its mappings.                                                     *)
(***************************************************************************)
EXTENDS ArpCache, ArpQueueProofs, FiniteInduction

-----------------------------------------------------------------------------
(* Where an accepted frame can be.                                         *)

\* Frame f is among the packets s.
Listed(s, f) == \E k \in DOMAIN s : s[k].buf = f

Holds(r, f) == r \in alive /\ Listed(pkts[r], f)

Settled(f) == f \in wire \cup reported

\* Activation a is about to queue f.
Carries(a, f) == a.pc = "route" /\ Head(a.todo).buf = f

\* Activation a is giving up on r, and will free it.
Ends(a, r) == a.req = r /\ a.pc \in {"giveup", "destroy"}

Ending(r) == \E t \in Thread : \E k \in 1..Len(stack[t]) : Ends(stack[t][k], r)

\* A loop over the packets of a request: those that are done are in done, the
\* others are still to come.
Walks(a, f, done) ==
    /\ Holds(a.req, f) => f \in done \/ Listed(a.todo, f)
    /\ Listed(a.todo, f) => Holds(a.req, f)

ActInv(a, f) ==
    a.req \in alive =>
        /\ a.pc = "drain" => Walks(a, f, wire)
        /\ a.pc = "giveup" => Walks(a, f, reported)
        /\ a.pc = "destroy" /\ Holds(a.req, f) => Settled(f)

Carried(f) == \E t \in Thread : \E k \in 1..Len(stack[t]) : Carries(stack[t][k], f)

Waits(f) == Carried(f) \/ \E r \in Req : Holds(r, f)

\* A frame that is anywhere in the router came with a packet that arrived.
Entered(f) == Settled(f) \/ Waits(f)

\* A frame on its way to the queue is nowhere else, and the receiver that
\* carries it does nothing else.
CarriedAlone(f) ==
    \A t \in Thread : \A k \in 1..Len(stack[t]) : Carries(stack[t][k], f) =>
        /\ t = "receiver" /\ Len(stack[t]) = 1
        /\ ~Settled(f)
        /\ \A r \in Req : ~Holds(r, f)

\* The request that holds a frame is off the queue once the frame was sent,
\* and on the queue with somebody giving it up once the frame was reported.
HolderFits(f) ==
    \A r \in Req : Holds(r, f) =>
        /\ f \in wire => r \notin Queued
        /\ f \in reported => r \in Queued /\ Ending(r)

FrameInv(f) ==
    /\ Entered(f) => \E p \in arrived : p.id = f.id
    /\ \A r, s \in Req : Holds(r, f) /\ Holds(s, f) => r = s
    /\ CarriedAlone(f)
    /\ HolderFits(f)
    /\ \A t \in Thread : \A k \in 1..Len(stack[t]) : ActInv(stack[t][k], f)

DeliveryInv == \A f \in Undertaken : FrameInv(f)

-----------------------------------------------------------------------------
(* The frames the receiver undertakes to send.                             *)

\* An error keeps the id of what it is about.
LEMMA ErrorFrames ==
    ASSUME NEW kind, NEW orig, NEW srcIP, NEW q \in send_icmp_error(kind, orig, srcIP)
    PROVE  q.buf.id = orig.id /\ q.buf.kind = kind
<1>1. PICK a \in IF srcIP = NoIP THEN ReturnIP(orig.src) ELSE {srcIP} :
         q \in route_and_send([kind |-> kind, id |-> orig.id, src |-> a,
                               dst |-> orig.src, ttl |-> INIT_TTL,
                               about |-> orig.kind])
  BY DEF send_icmp_error
<1> QED  BY <1>1 DEF route_and_send

\* They keep the id of the packet they answer or forward, and are no host
\* unreachable errors.
LEMMA HandleIpFrames ==
    ASSUME NEW p, NEW q \in handle_ip_packet(p)
    PROVE  q.buf.id = p.id /\ q.buf.kind # "host_unreachable"
<1>1. ASSUME NEW f, q \in route_and_send(f) PROVE q.buf = f
  BY <1>1 DEF route_and_send
<1>2. ASSUME NEW kind, q \in send_icmp_error(kind, p, InterfaceIP(p.in))
      PROVE  q.buf.id = p.id /\ q.buf.kind = kind
  BY <1>2, ErrorFrames
<1>3. ASSUME q \in send_icmp_echo_reply(p)
      PROVE  q.buf.id = p.id /\ q.buf.kind = "echo_reply"
  BY <1>1, <1>3 DEF send_icmp_echo_reply
<1>4. ASSUME q \in forward(p)
      PROVE  q.buf.id = p.id /\ q.buf.kind = "forwarded"
  BY <1>1, <1>4 DEF forward
<1>5. \/ q \in send_icmp_error("time_exceeded", p, InterfaceIP(p.in))
      \/ q \in send_icmp_error("net_unreachable", p, InterfaceIP(p.in))
      \/ q \in send_icmp_echo_reply(p) \/ q \in forward(p)
  BY DEF handle_ip_packet
<1> QED  BY <1>2, <1>3, <1>4, <1>5

\* An error reported for a request given up is not among them.
LEMMA UnreachableNotUndertaken ==
    ASSUME NEW f, NEW q \in send_icmp_error("host_unreachable", f, NoIP)
    PROVE  q.buf \notin Undertaken
<1>1. q.buf.kind = "host_unreachable"
  BY ErrorFrames
<1>2. \A g \in Undertaken : g.kind # "host_unreachable"
  BY HandleIpFrames DEF Undertaken
<1> QED  BY <1>1, <1>2

-----------------------------------------------------------------------------
(* What a step leaves of the call stacks.                                  *)

\* Every activation is still there, except perhaps the innermost one of t.
Survives(t) ==
    \A u \in Thread : \A k \in 1..Len(stack[u]) :
        \/ u = t /\ k = 1
        \/ \E j \in 1..Len(stack'[u]) : Alike(stack'[u][j], stack[u][k])

\* Replacing, calling, returning and starting leave the callers alone.
LEMMA ShapesSurvive ==
    ASSUME stack \in Stacks, NEW t \in Thread, NEW a, NEW b,
           Replaced(t, a) \/ Pushed(t, a, b) \/ Popped(t) \/ Started(t, a)
    PROVE  Survives(t) /\ OthersKept(t)
<1>1. \A u \in Thread : Len(stack[u]) \in Nat
  BY StackFacts
<1>2. OthersKept(t)
  BY DEF Replaced, Pushed, Popped, Started
<1>3. ASSUME NEW u \in Thread, NEW k \in 1..Len(stack[u]), ~(u = t /\ k = 1)
      PROVE  \E j \in 1..Len(stack'[u]) : Alike(stack'[u][j], stack[u][k])
  <2>1. CASE u # t
    BY <1>2, <2>1 DEF OthersKept, Alike
  <2>2. CASE u = t
    <3>1. k \in 2..Len(stack[t]) /\ Len(stack[t]) \in Nat
      BY <1>1, <1>3, <2>2
    <3>2. CASE Replaced(t, a)
      BY <2>2, <3>1, <3>2 DEF Replaced, Alike
    <3>3. CASE Pushed(t, a, b)
      <4>1. k + 1 \in 1..Len(stack'[t]) /\ stack'[t][k + 1] = stack[t][k]
        BY <3>1, <3>3 DEF Pushed
      <4> QED  BY <2>2, <4>1 DEF Alike
    <3>4. CASE Popped(t)
      <4>1. k - 1 \in 1..Len(stack'[t]) /\ stack'[t][k - 1] = stack[t][(k - 1) + 1]
        BY <3>1, <3>4 DEF Popped
      <4>2. (k - 1) + 1 = k
        BY <3>1
      <4> QED  BY <2>2, <4>1, <4>2 DEF Alike
    <3>5. CASE Started(t, a)
      BY <3>1, <3>5, EmptySeq DEF Started
    <3> QED  BY <3>2, <3>3, <3>4, <3>5
  <2> QED  BY <2>1, <2>2
<1> QED  BY <1>2, <1>3 DEF Survives

\* Whoever was giving up on r still is, unless it was t and t is done with it.
LEMMA EndingKept ==
    ASSUME NEW t \in Thread, NEW r, Survives(t), Ending(r), Len(stack[t]) \in Nat,
           \/ ~(Len(stack[t]) > 0 /\ Ends(stack[t][1], r))
           \/ \E k \in 1..Len(stack'[t]) : Ends(stack'[t][k], r)
    PROVE  Ending(r)'
<1>0. PICK u \in Thread : \E k \in 1..Len(stack[u]) : Ends(stack[u][k], r)
  BY DEF Ending
<1>1. PICK k \in 1..Len(stack[u]) : Ends(stack[u][k], r)
  BY <1>0
<1>2. CASE u = t /\ k = 1
  BY <1>1, <1>2 DEF Ending
<1>3. CASE ~(u = t /\ k = 1)
  <2>1. PICK j \in 1..Len(stack'[u]) : Alike(stack'[u][j], stack[u][k])
    BY <1>3 DEF Survives
  <2>2. Ends(stack'[u][j], r)
    BY <1>1, <2>1 DEF Ends, Alike
  <2> QED  BY <2>2 DEF Ending
<1> QED  BY <1>2, <1>3

\* After a step of t that does not leave t about to queue f, only another
\* thread can be, and it was before.
LEMMA CarriedElsewhere ==
    ASSUME CallInv', NEW t \in Thread, NEW f, OthersKept(t),
           Len(stack'[t]) > 0 => ~Carries(stack'[t][1], f),
           Len(stack'[t]) \in Nat,
           NEW u \in Thread, NEW k \in 1..Len(stack'[u]), Carries(stack'[u][k], f)
    PROVE  u # t /\ stack'[u] = stack[u]
<1>1. PlaceOK(u, stack'[u][k], k, Len(stack'[u]))
  BY DEF CallInv, WellNested
<1>2. ~(k > 1)
  BY <1>1 DEF PlaceOK, Carries
<1>3. u # t
  <2> SUFFICES ASSUME u = t PROVE FALSE
    OBVIOUS
  <2>1. k = 1 /\ Len(stack'[t]) > 0
    BY <1>2
  <2> QED  BY <2>1
<1> QED  BY <1>3 DEF OthersKept

\* A frame under way to the queue stays so if the step of t is not about it.
LEMMA CarriedKept ==
    ASSUME NEW f, NEW t \in Thread, NEW New, OnlyAdds(New), Survives(t),
           \A a \in New : ~Carries(a, f),
           Len(stack[t]) \in Nat,
           Len(stack[t]) > 0 => ~Carries(stack[t][1], f)
    PROVE  Carried(f)' <=> Carried(f)
<1>1. \A a, b : Alike(a, b) => (Carries(a, f) <=> Carries(b, f))
  BY DEF Alike, Carries
<1>2. Carried(f)' => Carried(f)
  BY <1>1 DEF Carried, OnlyAdds
<1>3. ASSUME NEW u \in Thread, NEW k \in 1..Len(stack[u]), Carries(stack[u][k], f)
      PROVE  Carried(f)'
  <2>1. ~(u = t /\ k = 1)
    BY <1>3
  <2>2. PICK j \in 1..Len(stack'[u]) : Alike(stack'[u][j], stack[u][k])
    BY <2>1 DEF Survives
  <2> QED  BY <1>1, <1>3, <2>2 DEF Carried
<1> QED  BY <1>2, <1>3 DEF Carried

\* The part of an activation's invariant that concerns f only grows truer.
LEMMA ActInvKept ==
    ASSUME NEW f, NEW a, NEW b, Alike(a, b), ActInv(b, f),
           a.req \in alive' => a.req \in alive /\ (Holds(a.req, f)' <=> Holds(a.req, f)),
           wire \subseteq wire', reported \subseteq reported'
    PROVE  ActInv(a, f)'
BY DEF Alike, ActInv, Walks, Settled

\* Steps that change nothing but the stack of t, where nothing is about to be
\* queued afterwards.
LEMMA FramesKept ==
    ASSUME NEW f, FrameInv(f), CallInv', NEW t \in Thread, NEW New,
           OnlyAdds(New), Survives(t), OthersKept(t),
           Len(stack[t]) \in Nat, Len(stack'[t]) \in Nat,
           UNCHANGED <<reqs, alive, pkts, wire, reported, arrived>>,
           Len(stack[t]) > 0 => stack[t][1].pc # "route",
           Len(stack'[t]) > 0 => stack'[t][1].pc # "route",
           \A a \in New : ActInv(a, f) /\ a.pc # "route",
           \A r : Len(stack[t]) > 0 /\ Ends(stack[t][1], r) =>
                     \E k \in 1..Len(stack'[t]) : Ends(stack'[t][k], r)
    PROVE  FrameInv(f)' /\ (Waits(f)' <=> Waits(f))
<1>1. /\ \A r \in Req : Holds(r, f)' <=> Holds(r, f)
      /\ Settled(f)' <=> Settled(f)
      /\ Queued' = Queued
  BY DEF Holds, Settled, Queued
<1>2. ASSUME NEW u \in Thread, NEW k \in 1..Len(stack'[u]), Carries(stack'[u][k], f)
      PROVE  u # t /\ stack'[u] = stack[u]
  BY <1>2, CarriedElsewhere DEF Carries
<1>3. Entered(f)' => Entered(f)
  BY <1>1, <1>2 DEF Entered, Waits, Carried
<1>4. CarriedAlone(f)'
  BY <1>1, <1>2 DEF FrameInv, CarriedAlone
<1>5. HolderFits(f)'
  <2>1. \A r \in Req : Ending(r) => Ending(r)'
    BY EndingKept
  <2> QED  BY <1>1, <2>1 DEF FrameInv, HolderFits
<1>6. ASSUME NEW u \in Thread, NEW k \in 1..Len(stack'[u]) PROVE ActInv(stack[u][k], f)'
  <2>0. \A a : ActInv(a, f)' <=> ActInv(a, f)
    BY DEF ActInv, Walks, Holds, Settled
  <2>1. CASE stack'[u][k] \in New
    BY <2>0, <2>1
  <2>2. CASE \E j \in 1..Len(stack[u]) : Alike(stack'[u][k], stack[u][j])
    BY <2>0, <2>2 DEF FrameInv, Alike, ActInv, Walks
  <2> QED  BY <2>1, <2>2 DEF OnlyAdds
<1>7. Carried(f)' <=> Carried(f)
  BY CarriedKept DEF Carries
<1> QED  BY <1>1, <1>3, <1>4, <1>5, <1>6, <1>7 DEF FrameInv, Waits

\* Before and after a step.
LEMMA ThreadFacts ==
    ASSUME Known, Known'
    PROVE  /\ stack \in Stacks /\ {"receiver", "sweeper"} = Thread
           /\ \A u \in Thread : /\ Len(stack[u]) \in Nat
                                /\ Len(stack'[u]) \in Nat
           /\ alive \subseteq Req /\ Queued \subseteq alive
           /\ pkts \in [Req -> Seq(QueuedPacket)] /\ NULL \notin Req
           /\ \A r \in Req : pkts[r] \in Seq(QueuedPacket)
<1>1. stack \in Stacks /\ stack' \in Stacks
  BY DEF Known, TypeInv, TypeOK, Stacks
<1>2. \A u \in Thread : Len(stack[u]) \in Nat /\ Len(stack'[u]) \in Nat
  BY <1>1, LenProperties DEF Stacks
<1> QED
  BY <1>1, <1>2, ArpQueueAssumption
     DEF Known, TypeInv, TypeOK, Thread, Queued, QueueInv, QueueIntegrity

\* The steps of handle_arpreq up to the decision to give up, the ends of the
\* loops, and the sweep.
LEMMA LocalSteps ==
    ASSUME Known, Known', OwnInv, NEW f, FrameInv(f),
           NEW t \in Thread,
           \/ Check(t) \/ Count(t) \/ Ask(t) \/ Bump(t) \/ LoopEnd(t)
           \/ t = "sweeper" /\ (SweepBegin \/ SweepStep)
    PROVE  FrameInv(f)' /\ (Waits(f)' <=> Waits(f))
<1>s. /\ TypeInv /\ CallInv' /\ stack \in Stacks
      /\ Len(stack[t]) \in Nat /\ Len(stack'[t]) \in Nat
  BY ThreadFacts DEF Known
<1>u. UNCHANGED <<reqs, alive, pkts, wire, reported, arrived>>
  BY DEF Check, Count, Ask, Bump, LoopEnd, SweepBegin, SweepStep, memory, history
<1>1. ASSUME Popped(t), stack[t][1].pc \notin {"giveup", "destroy", "route"}
      PROVE  FrameInv(f)' /\ (Waits(f)' <=> Waits(f))
  <2>1. OnlyAdds({}) /\ Survives(t) /\ OthersKept(t)
    BY <1>s, <1>1, PoppedAdds, ShapesSurvive
  <2>2. Len(stack'[t]) > 0 => stack'[t][1].pc # "route"
    BY <1>1, CallerOf
  <2> QED  BY <1>s, <1>u, <1>1, <2>1, <2>2, FramesKept DEF Ends
<1>2. ASSUME NEW a, Replaced(t, a) \/ Started(t, a), a.pc # "route", ActInv(a, f),
             Len(stack[t]) > 0 => stack[t][1].pc # "route",
             \A r : Len(stack[t]) > 0 /\ Ends(stack[t][1], r) => Ends(a, r)
      PROVE  FrameInv(f)' /\ (Waits(f)' <=> Waits(f))
  <2>1. OnlyAdds({a}) /\ Survives(t) /\ OthersKept(t)
    BY <1>s, <1>2, ReplacedAdds, ShapesSurvive
  <2>2. stack'[t][1] = a
    BY <1>2 DEF Replaced, Started
  <2>3. Len(stack[t]) > 0 => 1 \in 1..Len(stack'[t])
    BY <1>s, <1>2 DEF Replaced, Started
  <2> QED  BY <1>s, <1>u, <1>2, <2>1, <2>2, <2>3, FramesKept
<1>3. ASSUME NEW a, NEW b, Pushed(t, a, b), a.pc # "route", b.pc # "route",
             ActInv(a, f), ActInv(b, f),
             stack[t][1].pc \notin {"giveup", "destroy", "route"}
      PROVE  FrameInv(f)' /\ (Waits(f)' <=> Waits(f))
  <2>1. OnlyAdds({a, b}) /\ Survives(t) /\ OthersKept(t)
    BY <1>s, <1>3, PushedAdds, ShapesSurvive
  <2>2. stack'[t][1] = b
    BY <1>3 DEF Pushed
  <2> QED  BY <1>s, <1>u, <1>3, <2>1, <2>2, FramesKept DEF Ends
<1>4. \A a : a.pc \notin {"drain", "giveup", "destroy"} => ActInv(a, f)
  BY DEF ActInv
<1>t. ASSUME NEW pc, At(t, pc)
      PROVE  Top(t) = stack[t][1] /\ Top(t).pc = pc /\ 1 \in 1..Len(stack[t])
  BY <1>s, <1>t, AtFacts
<1>5. CASE Check(t)
  <2>1. stack[t][1].pc = "check"
    BY <1>5, <1>t DEF Check
  <2> QED  BY <1>1, <1>2, <1>4, <1>5, <1>s, <2>1, CheckShape DEF Is, Ends
<1>6. CASE Count(t)
  <2>1. stack[t][1].pc = "count" /\ Top(t).req \in alive
    BY <1>6, <1>t DEF Count
  <2>2. PICK a \in Activation :
             /\ Replaced(t, a)
             /\ a.req = Top(t).req
             /\ a.pc = "ask" \/ (a.pc = "giveup" /\ a.todo = pkts[Top(t).req])
    BY <1>6, <1>s, CountShape
  <2>3. ActInv(a, f)
    BY <2>1, <2>2 DEF ActInv, Walks, Holds
  <2> QED  BY <1>2, <2>1, <2>2, <2>3 DEF Ends
<1>7. CASE Ask(t)
  <2>1. stack[t][1].pc = "ask"
    BY <1>7, <1>t DEF Ask
  <2> QED  BY <1>2, <1>4, <1>7, <1>s, <2>1, AskShape DEF Is, Ends
<1>8. CASE Bump(t)
  <2>1. stack[t][1].pc = "bump"
    BY <1>8, <1>t DEF Bump
  <2> QED  BY <1>1, <1>8, <1>s, <2>1, BumpShape
<1>9. CASE LoopEnd(t)
  <2>1. PICK a \in Activation : Is(a, "destroy", Top(t).req, <<>>) /\ Replaced(t, a)
    BY <1>9, <1>s, LoopEndShape
  <2>2. /\ Top(t) = stack[t][1] /\ 1 \in 1..Len(stack[t])
        /\ Top(t).pc \in {"giveup", "drain"} /\ Top(t).todo = <<>>
        /\ Top(t).req \in alive
    BY <1>9, <1>t DEF LoopEnd
  <2>3. ActInv(Top(t), f)
    BY <2>2 DEF FrameInv
  <2>4. ~Listed(Top(t).todo, f)
    BY <2>2 DEF Listed
  <2>5. ActInv(a, f)
    BY <2>1, <2>2, <2>3, <2>4 DEF ActInv, Walks, Is, Settled
  <2> QED  BY <1>2, <2>1, <2>2, <2>5 DEF Ends, Is
<1>10. CASE t = "sweeper" /\ SweepBegin
  <2>1. PICK a \in Activation : a.pc = "sweep" /\ Started(t, a)
    BY <1>10, <1>s, SweepBeginShape DEF Is
  <2>2. ~(Len(stack[t]) > 0)
    BY <1>s, <2>1, EmptySeq DEF Started
  <2> QED  BY <1>2, <1>4, <2>1, <2>2
<1>11. CASE t = "sweeper" /\ SweepStep
  <2>1. stack[t][1].pc = "sweep"
    BY <1>11, <1>t DEF SweepStep
  <2> QED  BY <1>1, <1>3, <1>4, <1>11, <1>s, <2>1, SweepStepShape DEF Is
<1> QED  BY <1>5, <1>6, <1>7, <1>8, <1>9, <1>10, <1>11

\* Time passes: the activations stay what they are.
LEMMA FramesTick ==
    ASSUME Known, Known', NEW f, FrameInv(f), Tick
    PROVE  FrameInv(f)' /\ (Waits(f)' <=> Waits(f))
<1>u. UNCHANGED <<reqs, alive, pkts, wire, reported, arrived>>
  BY DEF Tick, history
<1>1. \A u \in Thread :
         /\ Len(stack'[u]) = Len(stack[u])
         /\ \A k \in 1..Len(stack[u]) : Alike(stack'[u][k], stack[u][k])
  BY TickShape DEF Known, Alike
<1>2. /\ \A r \in Req : Holds(r, f)' <=> Holds(r, f)
      /\ Settled(f)' <=> Settled(f)
      /\ Queued' = Queued
  BY <1>u DEF Holds, Settled, Queued
<1>3. \A u \in Thread : \A k \in 1..Len(stack[u]) :
         Carries(stack'[u][k], f) <=> Carries(stack[u][k], f)
  BY <1>1 DEF Alike, Carries
<1>4. \A r \in Req : Ending(r) => Ending(r)'
  BY <1>1 DEF Alike, Ends, Ending
<1>5. ASSUME NEW u \in Thread, NEW k \in 1..Len(stack'[u]) PROVE ActInv(stack[u][k], f)'
  <2>0. \A a : ActInv(a, f)' <=> ActInv(a, f)
    BY <1>u DEF ActInv, Walks, Holds, Settled
  <2>1. k \in 1..Len(stack[u]) /\ Alike(stack'[u][k], stack[u][k])
    BY <1>1
  <2> QED  BY <2>0, <2>1 DEF FrameInv, Alike, ActInv, Walks
<1>6. Entered(f)' => Entered(f)
  BY <1>1, <1>2, <1>3 DEF Entered, Waits, Carried
<1>7. CarriedAlone(f)'
  BY <1>1, <1>2, <1>3 DEF FrameInv, CarriedAlone
<1>8. HolderFits(f)'
  BY <1>2, <1>4, <1>u DEF FrameInv, HolderFits
<1>9. Waits(f)' <=> Waits(f)
  BY <1>1, <1>2, <1>3 DEF Waits, Carried
<1> QED  BY <1>2, <1>5, <1>6, <1>7, <1>8, <1>9, <1>u DEF FrameInv

\* The frames of a list are its first and those of the rest.
LEMMA ListedFacts ==
    ASSUME NEW s \in Seq(QueuedPacket), NEW f
    PROVE  /\ s # <<>> => (Listed(s, f) <=> Head(s).buf = f \/ Listed(Tail(s), f))
           /\ \A q \in QueuedPacket : Listed(<<q>> \o s, f) <=> q.buf = f \/ Listed(s, f)
           /\ \A q \in QueuedPacket : Listed(<<q>>, f) <=> q.buf = f
<1>1. ASSUME NEW q \in QueuedPacket, NEW r \in Seq(QueuedPacket)
      PROVE  Listed(<<q>> \o r, f) <=> q.buf = f \/ Listed(r, f)
  <2> DEFINE n == <<q>> \o r
  <2>1. /\ n \in Seq(QueuedPacket)
        /\ Len(n) = Len(r) + 1
        /\ n[1] = q
        /\ \A k \in 2..(Len(r) + 1) : n[k] = r[k - 1]
    BY PrependFacts
  <2>2. DOMAIN n = 1..(Len(r) + 1) /\ DOMAIN r = 1..Len(r) /\ Len(r) \in Nat
    BY <2>1, LenProperties
  <2> HIDE DEF n
  <2>3. ASSUME NEW k \in DOMAIN n, n[k].buf = f PROVE q.buf = f \/ Listed(r, f)
    <3>1. CASE k = 1
      BY <2>1, <2>3, <3>1
    <3>2. CASE k # 1
      <4>1. k - 1 \in DOMAIN r /\ n[k] = r[k - 1]
        BY <2>1, <2>2, <3>2
      <4> QED  BY <2>3, <4>1 DEF Listed
    <3> QED  BY <3>1, <3>2
  <2>4. ASSUME q.buf = f PROVE Listed(n, f)
    <3>1. 1 \in DOMAIN n
      BY <2>2
    <3> QED  BY <2>1, <2>4, <3>1 DEF Listed
  <2>5. ASSUME NEW k \in DOMAIN r, r[k].buf = f PROVE Listed(n, f)
    <3>1. k + 1 \in DOMAIN n /\ k + 1 \in 2..(Len(r) + 1) /\ (k + 1) - 1 = k
      BY <2>2
    <3>2. n[k + 1] = r[k]
      BY <2>1, <3>1
    <3> QED  BY <2>5, <3>1, <3>2 DEF Listed
  <2>6. Listed(n, f) <=> q.buf = f \/ Listed(r, f)
    BY <2>3, <2>4, <2>5 DEF Listed
  <2> QED  BY <2>6 DEF n
<1>2. ASSUME s # <<>> PROVE Listed(s, f) <=> Head(s).buf = f \/ Listed(Tail(s), f)
  <2>1. Head(s) \in QueuedPacket /\ Tail(s) \in Seq(QueuedPacket) /\ s = <<Head(s)>> \o Tail(s)
    BY <1>2, HeadTailProperties
  <2> QED  BY <1>1, <2>1
<1>3. \A q \in QueuedPacket : Listed(<<q>>, f) <=> q.buf = f
  BY DEF Listed
<1> QED  BY <1>1, <1>2, <1>3

\* A packet arrives: what it makes the router accept is new.
LEMMA FramesHandleIp ==
    ASSUME IdsNameArrivals, Known, Known', NEW f \in Undertaken, FrameInv(f),
           NEW p \in Packets, HandleIp(p)
    PROVE  FrameInv(f)'
<1>s. TypeInv /\ CallInv' /\ arrived \subseteq Packets
  BY DEF Known, TypeInv, TypeOK
<1>f. /\ stack \in Stacks /\ {"receiver", "sweeper"} = Thread
      /\ \A u \in Thread : Len(stack[u]) \in Nat /\ Len(stack'[u]) \in Nat
  BY ThreadFacts
<1>u. /\ UNCHANGED <<reqs, alive, pkts, wire, reported>>
      /\ p \notin arrived /\ arrived' = arrived \cup {p}
  BY DEF HandleIp, memory
<1>1. /\ \A r \in Req : Holds(r, f)' <=> Holds(r, f)
      /\ Settled(f)' <=> Settled(f)
      /\ Queued' = Queued
      /\ \A a : ActInv(a, f)' <=> ActInv(a, f)
  BY <1>u DEF Holds, Settled, Queued, ActInv, Walks
<1>2. CASE UNCHANGED stack
  BY <1>1, <1>2, <1>u DEF FrameInv, Entered, Waits, Carried, CarriedAlone, HolderFits, Ending
<1>3. ASSUME NEW q \in handle_ip_packet(p), NEW a, q \in QueuedPacket,
             Is(a, "route", NULL, <<q>>), Started("receiver", a)
      PROVE  FrameInv(f)'
  <2>1. /\ Len(stack'["receiver"]) = 1 /\ stack'["receiver"][1] = a
        /\ stack'["sweeper"] = stack["sweeper"]
        /\ Len(stack["receiver"]) = 0
    BY <1>3, <1>f, EmptySeq DEF Started, OthersKept
  <2>2. Carries(a, f) <=> q.buf = f
    BY <1>3 DEF Carries, Is
  <2>3. q.buf = f => ~Entered(f)
    <3> SUFFICES ASSUME q.buf = f, Entered(f) PROVE FALSE
      OBVIOUS
    <3>1. PICK p2 \in arrived : p2.id = f.id
      BY DEF FrameInv
    <3>2. f.id = p.id
      BY HandleIpFrames
    <3> QED  BY <1>s, <1>u, <3>1, <3>2 DEF IdsNameArrivals
  <2>4. Entered(f)' => q.buf = f \/ Entered(f)
    BY <1>1, <1>f, <2>1, <2>2 DEF Entered, Waits, Carried
  <2>5. Entered(f)' => \E x \in arrived' : x.id = f.id
    <3>1. q.buf = f => p.id = f.id
      BY HandleIpFrames
    <3> QED  BY <1>u, <2>4, <3>1 DEF FrameInv
  <2>6. CarriedAlone(f)'
    <3> SUFFICES ASSUME NEW t \in Thread, NEW k \in 1..Len(stack'[t]), Carries(stack'[t][k], f)
                 PROVE  /\ t = "receiver" /\ Len(stack'[t]) = 1
                        /\ ~Settled(f)
                        /\ \A r \in Req : ~Holds(r, f)
      BY <1>1 DEF CarriedAlone
    <3>1. CASE t = "receiver"
      <4>1. q.buf = f
        BY <2>1, <2>2, <3>1
      <4> QED  BY <2>1, <2>3, <3>1, <4>1 DEF Entered, Waits, Carried
    <3>2. CASE t = "sweeper"
      BY <2>1, <3>2 DEF FrameInv, CarriedAlone
    <3> QED  BY <1>f, <3>1, <3>2
  <2>7. \A r \in Req : Ending(r) => Ending(r)'
    BY <1>f, <2>1 DEF Ending
  <2>8. ASSUME NEW t \in Thread, NEW k \in 1..Len(stack'[t]) PROVE ActInv(stack[t][k], f)'
    <3>1. CASE t = "receiver"
      <4>1. ActInv(a, f)
        BY <1>3 DEF ActInv, Is
      <4>2. stack'[t][k] = a
        BY <2>1, <3>1
      <4> QED  BY <1>1, <4>1, <4>2
    <3>2. CASE t = "sweeper"
      BY <1>1, <2>1, <3>2 DEF FrameInv
    <3> QED  BY <1>f, <3>1, <3>2
  <2>9. HolderFits(f)'
    BY <1>1, <1>u, <2>7 DEF FrameInv, HolderFits
  <2> QED  BY <1>1, <2>5, <2>6, <2>8, <2>9 DEF FrameInv
<1> QED  BY <1>2, <1>3, <1>s, HandleIpShape

\* An ARP reply detaches a request: nobody is giving it up.
LEMMA FramesArpReply ==
    ASSUME Known, Known', NEW f, FrameInv(f), NEW ad \in IP, HandleArpReply(ad)
    PROVE  FrameInv(f)' /\ (Waits(f)' <=> Waits(f))
<1>s. TypeInv /\ QueueInv
  BY DEF Known
<1>f. /\ stack \in Stacks /\ {"receiver", "sweeper"} = Thread
      /\ \A u \in Thread : Len(stack[u]) \in Nat /\ Len(stack'[u]) \in Nat
      /\ Queued \subseteq alive
  BY ThreadFacts
<1>u. UNCHANGED <<alive, pkts, wire, reported, arrived>>
  BY DEF HandleArpReply, history
<1>1. PICK i \in 1..Len(reqs), a \in Activation :
           /\ reqs[i] \in Req
           /\ reqs' = RemoveAt(reqs, i)
           /\ Is(a, "drain", reqs[i], pkts[reqs[i]])
           /\ Started("receiver", a)
  BY <1>s, HandleArpReplyShape
<1>2. i \in DOMAIN reqs /\ reqs[i] \in alive
  BY <1>s, <1>f, ReqsFacts DEF TypeInv, Queued
<1>3. Queued' \subseteq Queued
  BY <1>1, <1>2, <1>s, QueuedUnlinked
<1>4. Len(stack["sweeper"]) = 0 /\ Len(stack["receiver"]) = 0
  BY <1>1, ArpQueueAssumption, EmptySeq DEF HandleArpReply, LockFree, Known, CallInv, Started
<1>5. Len(stack'["sweeper"]) = 0 /\ Len(stack'["receiver"]) = 1 /\ stack'["receiver"][1] = a
  BY <1>1, <1>4, <1>f DEF Started, OthersKept
<1>6. /\ \A r \in Req : Holds(r, f)' <=> Holds(r, f)
      /\ Settled(f)' <=> Settled(f)
      /\ \A b : ActInv(b, f)' <=> ActInv(b, f)
  BY <1>u DEF Holds, Settled, ActInv, Walks
<1>7. \A u \in Thread : \A k \in 1..Len(stack'[u]) : stack'[u][k] = a
  BY <1>5, <1>f
<1>8. ~Carries(a, f)
  BY <1>1 DEF Carries, Is
<1>9. Entered(f)' => Entered(f)
  BY <1>6, <1>7, <1>8 DEF Entered, Waits, Carried
<1>10. CarriedAlone(f)'
  BY <1>7, <1>8 DEF CarriedAlone
<1>11. \A r \in Req : ~Ending(r)
  BY <1>4, <1>f DEF Ending
<1>12. HolderFits(f)'
  BY <1>3, <1>6, <1>11, <1>u DEF FrameInv, HolderFits
<1>13. ActInv(a, f)
  BY <1>1, <1>2 DEF ActInv, Is, Walks, Holds
<1>14. ASSUME NEW u \in Thread, NEW k \in 1..Len(stack'[u]) PROVE ActInv(stack[u][k], f)'
  BY <1>6, <1>7, <1>13
<1>15. Waits(f)' <=> Waits(f)
  BY <1>4, <1>6, <1>7, <1>8, <1>f DEF Waits, Carried
<1> QED  BY <1>6, <1>9, <1>10, <1>12, <1>14, <1>15, <1>u DEF FrameInv

\* A request with an activation giving it up is on the queue, if it is still
\* allocated.
LEMMA GivenUpIsQueued ==
    ASSUME Known, Known', OwnInv, NEW t \in Thread, At(t, "giveup"), Top(t).req \in alive
    PROVE  Top(t).req \in Queued
<1>1. Top(t) = stack[t][1] /\ 1 \in 1..Len(stack[t]) /\ Top(t).pc = "giveup"
  BY AtFacts DEF Known
<1>2. {"receiver", "sweeper"} = Thread
  BY DEF Thread
<1>3. ~Detached(Top(t).req)
  BY <1>1, <1>2 DEF Detached
<1> QED  BY <1>3 DEF OwnInv

\* A drained request is off the queue, and the receiver drains it.
LEMMA DrainedIsDetached ==
    ASSUME Known, OwnInv, NEW t \in Thread, At(t, "drain")
    PROVE  t = "receiver" /\ Top(t).req \in alive \ Queued
<1>1. Top(t) = stack[t][1] /\ 1 \in 1..Len(stack[t]) /\ Top(t).pc = "drain"
  BY AtFacts DEF Known
<1>2. PlaceOK(t, stack[t][1], 1, Len(stack[t]))
  BY <1>1 DEF Known, CallInv, WellNested
<1>3. t = "receiver"
  BY <1>1, <1>2 DEF PlaceOK, Thread
<1> QED  BY <1>1, <1>3 DEF OwnInv

\* A frame is sent to its next hop.
LEMMA FramesDrain ==
    ASSUME Known, Known', OwnInv, NEW f, FrameInv(f), NEW t \in Thread, Drain(t)
    PROVE  /\ FrameInv(f)'
           /\ Waits(f)' <=> Waits(f)
           /\ f = Head(Top(t).todo).buf => Waits(f) /\ f \notin reported
<1> DEFINE r == Top(t).req
           g == Head(Top(t).todo).buf
<1>s. TypeInv /\ CallInv'
  BY DEF Known
<1>f. /\ stack \in Stacks /\ {"receiver", "sweeper"} = Thread
      /\ \A u \in Thread : Len(stack[u]) \in Nat /\ Len(stack'[u]) \in Nat
      /\ Queued \subseteq alive /\ alive \subseteq Req
  BY ThreadFacts
<1>u. /\ UNCHANGED <<reqs, alive, pkts, reported, arrived>>
      /\ wire' = wire \cup {g}
      /\ At(t, "drain") /\ r \in alive /\ Top(t).todo # <<>>
  BY DEF Drain, memory
<1>1. /\ Top(t) = stack[t][1] /\ 1 \in 1..Len(stack[t]) /\ Top(t).pc = "drain"
      /\ Top(t).todo \in Seq(QueuedPacket)
  BY <1>s, <1>u, AtFacts
<1>2. t = "receiver" /\ r \notin Queued
  BY <1>u, DrainedIsDetached
<1>3. PICK a \in Activation : Is(a, "drain", r, Tail(Top(t).todo)) /\ Replaced(t, a)
  BY <1>s, DrainShape
<1>4. OnlyAdds({a}) /\ Survives(t) /\ OthersKept(t) /\ stack'[t][1] = a
  BY <1>3, <1>f, ReplacedAdds, ShapesSurvive DEF Replaced
<1>5. Walks(Top(t), f, wire)
  BY <1>1, <1>u DEF FrameInv, ActInv
<1>6. Listed(Top(t).todo, f) <=> g = f \/ Listed(Tail(Top(t).todo), f)
  BY <1>1, <1>u, ListedFacts
<1>7. g = f => Holds(r, f)
  BY <1>5, <1>6 DEF Walks
<1> HIDE DEF r, g
<1>8. /\ \A x \in Req : Holds(x, f)' <=> Holds(x, f)
      /\ Settled(f)' <=> Settled(f) \/ f = g
      /\ Queued' = Queued
  BY <1>u DEF Holds, Settled, Queued
<1>9. ASSUME NEW u \in Thread, NEW k \in 1..Len(stack'[u]) PROVE ~Carries(stack'[u][k], f)
  <2> SUFFICES ASSUME Carries(stack'[u][k], f) PROVE FALSE
    OBVIOUS
  <2>1. u # t /\ stack'[u] = stack[u]
    <3>1. ~Carries(stack'[t][1], f)
      BY <1>3, <1>4 DEF Carries, Is
    <3> QED  BY <1>4, <1>f, <1>s, <3>1, CarriedElsewhere
  <2> QED  BY <1>2, <2>1 DEF FrameInv, CarriedAlone
<1>10. Entered(f)' => Entered(f)
  BY <1>7, <1>8, <1>9, <1>f, <1>u DEF Entered, Waits, Carried, r
<1>11. CarriedAlone(f)'
  BY <1>9 DEF CarriedAlone
<1>12. HolderFits(f)'
  <2>1. \A x \in Req : Ending(x) => Ending(x)'
    BY <1>1, <1>4, <1>f, EndingKept DEF Ends
  <2>2. ASSUME NEW x \in Req, Holds(x, f), f \in wire' PROVE x \notin Queued
    <3>1. CASE f \in wire
      BY <2>2, <3>1 DEF FrameInv, HolderFits
    <3>2. CASE f = g
      BY <1>2, <1>7, <1>f, <1>u, <2>2, <3>2 DEF FrameInv
    <3> QED  BY <1>u, <2>2, <3>1, <3>2
  <2> QED  BY <1>8, <1>u, <2>1, <2>2 DEF FrameInv, HolderFits
<1>13. ActInv(a, f)'
  <2>1. a.req = r /\ a.pc = "drain" /\ a.todo = Tail(Top(t).todo)
    BY <1>3 DEF Is
  <2>2. Holds(a.req, f)' <=> Holds(a.req, f)
    BY <1>8, <1>f, <1>u, <2>1
  <2> QED  BY <1>5, <1>6, <1>u, <2>1, <2>2 DEF ActInv, Walks, r
<1>14. ASSUME NEW u \in Thread, NEW k \in 1..Len(stack'[u]) PROVE ActInv(stack[u][k], f)'
  <2>1. CASE stack'[u][k] = a
    BY <1>13, <2>1
  <2>2. ASSUME NEW j \in 1..Len(stack[u]), Alike(stack'[u][k], stack[u][j])
        PROVE  ActInv(stack[u][k], f)'
    <3>1. ActInv(stack[u][j], f)
      BY DEF FrameInv
    <3>2. \A x \in alive' : x \in alive /\ (Holds(x, f)' <=> Holds(x, f))
      BY <1>8, <1>f, <1>u
    <3>3. wire \subseteq wire' /\ reported \subseteq reported'
      BY <1>u
    <3> QED  BY <2>2, <3>1, <3>2, <3>3, ActInvKept
  <2> QED  BY <1>4, <2>1, <2>2 DEF OnlyAdds
<1>15. Waits(f)' <=> Waits(f)
  BY <1>1, <1>3, <1>4, <1>8, <1>f, CarriedKept DEF Waits, Carries, Is
<1>16. f = g => Waits(f) /\ f \notin reported
  BY <1>2, <1>7, <1>f, <1>u DEF Waits, FrameInv, HolderFits, r
<1> QED  BY <1>8, <1>10, <1>11, <1>12, <1>14, <1>15, <1>16, <1>u DEF FrameInv, g

\* A frame is reported to its sender, which may call route_and_send.
LEMMA FramesGiveUp ==
    ASSUME Known, Known', OwnInv, NEW f \in Undertaken, FrameInv(f),
           NEW t \in Thread, GiveUp(t)
    PROVE  /\ FrameInv(f)'
           /\ Waits(f)' <=> Waits(f)
           /\ f = Head(Top(t).todo).buf => Waits(f) /\ f \notin wire
<1> DEFINE r == Top(t).req
           g == Head(Top(t).todo).buf
<1>s. TypeInv /\ CallInv'
  BY DEF Known
<1>f. /\ stack \in Stacks /\ {"receiver", "sweeper"} = Thread
      /\ \A u \in Thread : Len(stack[u]) \in Nat /\ Len(stack'[u]) \in Nat
      /\ Queued \subseteq alive /\ alive \subseteq Req
  BY ThreadFacts
<1>u. /\ UNCHANGED <<reqs, alive, pkts, wire, arrived>>
      /\ At(t, "giveup") /\ r \in alive /\ Top(t).todo # <<>>
  BY DEF GiveUp, memory
<1>1. /\ Top(t) = stack[t][1] /\ 1 \in 1..Len(stack[t]) /\ Top(t).pc = "giveup"
      /\ Top(t).todo \in Seq(QueuedPacket)
  BY <1>s, <1>u, AtFacts
<1>2. r \in Queued
  BY <1>u, GivenUpIsQueued
<1>5. Walks(Top(t), f, reported)
  BY <1>1, <1>u DEF FrameInv, ActInv
<1>6. Listed(Top(t).todo, f) <=> g = f \/ Listed(Tail(Top(t).todo), f)
  BY <1>1, <1>u, ListedFacts
<1>7. g = f => Holds(r, f)
  BY <1>5, <1>6 DEF Walks
<1>8. f = g => Waits(f) /\ f \notin wire
  BY <1>2, <1>7, <1>f, <1>u DEF Waits, FrameInv, HolderFits
<1>x. ASSUME UNCHANGED <<stack, reported>> PROVE FrameInv(f)' /\ (Waits(f)' <=> Waits(f))
  BY <1>u, <1>x DEF FrameInv, Entered, Waits, Carried, CarriedAlone, HolderFits, Ending, ActInv, Walks,
                    Holds, Settled, Queued
<1>y. ASSUME NEW a \in Activation, NEW b,
             Is(a, "giveup", r, Tail(Top(t).todo)),
             \/ Replaced(t, a)
             \/ b.pc = "route" /\ ~Carries(b, f) /\ Pushed(t, a, b),
             reported' = reported \cup {g}
      PROVE  FrameInv(f)' /\ (Waits(f)' <=> Waits(f))
  <2> HIDE DEF r, g
  <2>1. /\ Survives(t) /\ OthersKept(t)
        /\ \/ OnlyAdds({a}) /\ stack'[t][1] = a
           \/ OnlyAdds({a, b}) /\ stack'[t][1] = b /\ b.pc = "route" /\ ~Carries(b, f)
    BY <1>y, <1>f, ReplacedAdds, PushedAdds, ShapesSurvive DEF Replaced, Pushed
  <2>2. /\ \A x \in Req : Holds(x, f)' <=> Holds(x, f)
        /\ Settled(f)' <=> Settled(f) \/ f = g
        /\ Queued' = Queued
    BY <1>u, <1>y DEF Holds, Settled, Queued
  <2>3. ASSUME NEW u \in Thread, NEW k \in 1..Len(stack'[u]), Carries(stack'[u][k], f)
        PROVE  u # t /\ stack'[u] = stack[u]
    <3>1. ~Carries(stack'[t][1], f)
      BY <1>y, <2>1 DEF Carries, Is
    <3> QED  BY <1>f, <1>s, <2>1, <2>3, <3>1, CarriedElsewhere
  <2>4. Entered(f)' => Entered(f)
    BY <1>7, <1>f, <1>u, <2>2, <2>3 DEF Entered, Waits, Carried, r
  <2>5. CarriedAlone(f)'
    <3> SUFFICES ASSUME NEW u \in Thread, NEW k \in 1..Len(stack'[u]), Carries(stack'[u][k], f)
                 PROVE  /\ u = "receiver" /\ Len(stack'[u]) = 1
                        /\ ~Settled(f)'
                        /\ \A x \in Req : ~Holds(x, f)'
      BY DEF CarriedAlone
    <3>1. stack'[u] = stack[u]
      BY <2>3
    <3>2. /\ u = "receiver" /\ Len(stack[u]) = 1
          /\ ~Settled(f)
          /\ \A x \in Req : ~Holds(x, f)
      BY <3>1 DEF FrameInv, CarriedAlone
    <3> QED  BY <1>7, <1>f, <1>u, <2>2, <3>1, <3>2 DEF r
  <2>6. a.req = r /\ Ending(a.req)'
    <3>1. Ends(a, a.req) /\ a.req = r
      BY <1>y DEF Ends, Is
    <3>2. CASE Replaced(t, a)
      <4>1. 1 \in 1..Len(stack'[t]) /\ stack'[t][1] = a
        BY <1>1, <3>2 DEF Replaced
      <4> QED  BY <3>1, <4>1 DEF Ending
    <3>3. CASE Pushed(t, a, b)
      <4>1. 2 \in 1..Len(stack'[t]) /\ stack'[t][2] = a
        BY <1>1, <1>f, <3>3 DEF Pushed
      <4> QED  BY <3>1, <4>1 DEF Ending
    <3> QED  BY <1>y, <3>2, <3>3
  <2>7. HolderFits(f)'
    <3>1. ASSUME NEW x \in Req, Ending(x), x # r PROVE Ending(x)'
      BY <1>1, <1>f, <2>1, <3>1, EndingKept DEF Ends, r
    <3>2. ASSUME NEW x \in Req, Holds(x, f), f \in reported' PROVE x \in Queued /\ Ending(x)'
      <4>1. CASE f \in reported
        BY <2>6, <3>1, <3>2, <4>1 DEF FrameInv, HolderFits
      <4>2. CASE f = g
        <5>1. x = r
          BY <1>7, <1>f, <1>u, <3>2, <4>2 DEF FrameInv, r
        <5> QED  BY <1>2, <2>6, <5>1 DEF r
      <4> QED  BY <1>y, <3>2, <4>1, <4>2
    <3> QED  BY <1>u, <2>2, <3>2 DEF FrameInv, HolderFits
  <2>8. ActInv(a, f)'
    <3>1. a.req = r /\ a.pc = "giveup" /\ a.todo = Tail(Top(t).todo)
      BY <1>y DEF Is
    <3>2. Holds(a.req, f)' <=> Holds(a.req, f)
      BY <1>f, <1>u, <2>2, <3>1 DEF r
    <3> QED  BY <1>5, <1>6, <1>y, <3>1, <3>2 DEF ActInv, Walks, r
  <2>9. ASSUME NEW u \in Thread, NEW k \in 1..Len(stack'[u]) PROVE ActInv(stack[u][k], f)'
    <3>1. CASE stack'[u][k] = a
      BY <2>8, <3>1
    <3>2. ASSUME NEW j \in 1..Len(stack[u]), Alike(stack'[u][k], stack[u][j])
          PROVE  ActInv(stack[u][k], f)'
      <4>1. ActInv(stack[u][j], f)
        BY DEF FrameInv
      <4>2. \A x \in alive' : x \in alive /\ (Holds(x, f)' <=> Holds(x, f))
        BY <1>f, <1>u, <2>2
      <4>3. wire \subseteq wire' /\ reported \subseteq reported'
        BY <1>u, <1>y
      <4> QED  BY <3>2, <4>1, <4>2, <4>3, ActInvKept
    <3>3. CASE stack'[u][k] = b /\ b.pc = "route"
      BY <3>3 DEF ActInv
    <3> QED  BY <2>1, <3>1, <3>2, <3>3 DEF OnlyAdds
  <2>10. Carried(f)' <=> Carried(f)
    BY <1>1, <1>f, <1>y, <2>1, CarriedKept DEF Carries, Is
  <2> QED  BY <1>u, <2>2, <2>4, <2>5, <2>7, <2>9, <2>10 DEF FrameInv, Waits
<1>z. \/ UNCHANGED <<stack, reported>>
      \/ \E a \in Activation : \E b :
           /\ Is(a, "giveup", r, Tail(Top(t).todo))
           /\ Replaced(t, a) \/ (b.pc = "route" /\ ~Carries(b, f) /\ Pushed(t, a, b))
           /\ reported' = reported \cup {g}
  <2>1. ASSUME NEW e \in send_icmp_error("host_unreachable", g, NoIP), NEW b,
               Is(b, "route", NULL, <<e>>)
        PROVE  b.pc = "route" /\ ~Carries(b, f)
    <3>1. e.buf # f
      BY UnreachableNotUndertaken
    <3> QED  BY <2>1, <3>1 DEF Is, Carries
  <2> QED  BY <1>s, <2>1, GiveUpShape
<1> QED  BY <1>8, <1>x, <1>y, <1>z

\* A packet is queued.  An accepted frame is, while the sweeper sleeps, by a
\* receiver that does nothing else; so nobody is walking the request.
LEMMA FramesRoute ==
    ASSUME Known, Known', NEW f, FrameInv(f), NEW t \in Thread, Route(t)
    PROVE  FrameInv(f)' /\ (Waits(f)' <=> Waits(f))
<1>s. TypeInv /\ CallInv'
  BY DEF Known
<1>f. /\ stack \in Stacks /\ {"receiver", "sweeper"} = Thread
      /\ \A u \in Thread : Len(stack[u]) \in Nat /\ Len(stack'[u]) \in Nat
      /\ Queued \subseteq alive /\ alive \subseteq Req
      /\ \A x \in Req : pkts[x] \in Seq(QueuedPacket)
  BY ThreadFacts
<1>u. /\ UNCHANGED <<wire, reported, arrived>> /\ At(t, "route") /\ LockFree(t)
  BY DEF Route
<1>1. Top(t) = stack[t][1] /\ 1 \in 1..Len(stack[t]) /\ Top(t).pc = "route"
  BY <1>s, <1>u, AtFacts
<1>2. PICK q \in QueuedPacket, r \in Req, a \in Activation :
           /\ q = Head(Top(t).todo)
           /\ Is(a, "check", r, <<>>) /\ Replaced(t, a)
           /\ \A x \in Req \ {r} : pkts'[x] = pkts[x]
           /\ Joins(q, r) \/ Opens(q, r)
  BY <1>s, RouteShape
<1>3. OnlyAdds({a}) /\ Survives(t) /\ OthersKept(t) /\ stack'[t][1] = a
  BY <1>2, <1>f, ReplacedAdds, ShapesSurvive DEF Replaced
<1>4. /\ \A x \in Req \ {r} : Holds(x, f)' <=> Holds(x, f)
      /\ Holds(r, f)' <=> Holds(r, f) \/ q.buf = f
      /\ \/ alive' = alive /\ Queued' = Queued
         \/ /\ r \notin alive /\ alive' = alive \cup {r} /\ Unreferenced(r)
            /\ Queued' = Queued \cup {r}
  <2>1. CASE Joins(q, r)
    <3>1. /\ alive' = alive /\ Queued' = Queued /\ pkts'[r] = <<q>> \o pkts[r]
          /\ \E i \in 1..Len(reqs) : reqs[i] = r
      BY <2>1 DEF Joins, Queued
    <3>2. r \in alive
      BY <1>f, <1>s, <3>1, ReqsFacts DEF Queued, TypeInv
    <3>3. Listed(pkts'[r], f) <=> q.buf = f \/ Listed(pkts[r], f)
      BY <1>f, <3>1, ListedFacts
    <3> QED  BY <1>2, <3>1, <3>2, <3>3 DEF Holds
  <2>2. CASE Opens(q, r)
    <3>1. /\ r \notin alive /\ alive' = alive \cup {r} /\ Unreferenced(r)
          /\ reqs' = <<r>> \o reqs /\ pkts'[r] = <<q>>
      BY <2>2 DEF Opens
    <3>2. Queued' = Queued \cup {r}
      BY <1>s, <3>1, QueuedLinked
    <3>3. Listed(<<q>>, f) <=> q.buf = f
      BY <1>f, ListedFacts
    <3>4. Listed(pkts'[r], f) <=> q.buf = f
      BY <3>1, <3>3
    <3> QED  BY <1>2, <3>1, <3>2, <3>4 DEF Holds
  <2> QED  BY <1>2, <2>1, <2>2
<1>5. Settled(f)' <=> Settled(f)
  BY <1>u DEF Settled
<1>6. ASSUME NEW u \in Thread, NEW k \in 1..Len(stack'[u]), Carries(stack'[u][k], f)
      PROVE  u # t /\ stack'[u] = stack[u]
  <2>1. ~Carries(stack'[t][1], f)
    BY <1>2, <1>3 DEF Carries, Is
  <2> QED  BY <1>3, <1>f, <1>s, <1>6, <2>1, CarriedElsewhere
<1>7. Entered(f)' => Entered(f)
  <2>1. q.buf = f => Carries(stack[t][1], f)
    BY <1>1, <1>2 DEF Carries
  <2>2. q.buf = f => Entered(f)
    BY <1>1, <2>1 DEF Entered, Waits, Carried
  <2> QED  BY <1>4, <1>5, <1>6, <2>2 DEF Entered, Waits, Carried
<1>8. CASE q.buf = f
  <2>1. Carries(stack[t][1], f)
    BY <1>1, <1>2, <1>8 DEF Carries
  <2>2. /\ t = "receiver" /\ Len(stack[t]) = 1
        /\ ~Settled(f)
        /\ \A x \in Req : ~Holds(x, f)
    BY <1>1, <2>1 DEF FrameInv, CarriedAlone
  <2>3. Len(stack["sweeper"]) = 0
    BY <1>u, <2>2, ArpQueueAssumption DEF LockFree, Known, CallInv
  <2>4. \A u \in Thread : \A k \in 1..Len(stack'[u]) : stack'[u][k] = a
    BY <1>2, <1>3, <1>f, <2>2, <2>3 DEF OthersKept, Replaced
  <2>5. a.pc = "check"
    BY <1>2 DEF Is
  <2>6. CarriedAlone(f)'
    BY <2>4, <2>5 DEF CarriedAlone, Carries
  <2>7. HolderFits(f)'
    BY <1>5, <2>2 DEF HolderFits, Settled
  <2>8. ASSUME NEW u \in Thread, NEW k \in 1..Len(stack'[u]) PROVE ActInv(stack[u][k], f)'
    BY <2>4, <2>5 DEF ActInv
  <2>9. \A x, y \in Req : Holds(x, f)' /\ Holds(y, f)' => x = y
    BY <1>4, <2>2
  <2>10. Waits(f) /\ Waits(f)'
    BY <1>1, <1>4, <1>8, <2>1 DEF Waits, Carried
  <2> QED  BY <1>7, <1>u, <2>6, <2>7, <2>8, <2>9, <2>10 DEF FrameInv
<1>9. CASE q.buf # f
  <2>1. \A x \in Req : Holds(x, f)' <=> Holds(x, f)
    BY <1>4, <1>9
  <2>2. CarriedAlone(f)'
    BY <1>5, <1>6, <2>1 DEF FrameInv, CarriedAlone
  <2>3. HolderFits(f)'
    <3>1. \A x \in Req : Ending(x) => Ending(x)'
      BY <1>1, <1>3, <1>f, EndingKept DEF Ends
    <3>2. \A x \in Req : Holds(x, f) => (x \in Queued' <=> x \in Queued)
      BY <1>4 DEF Holds
    <3> QED  BY <1>u, <2>1, <3>1, <3>2 DEF FrameInv, HolderFits
  <2>4. ASSUME NEW u \in Thread, NEW k \in 1..Len(stack'[u]) PROVE ActInv(stack[u][k], f)'
    <3>1. CASE stack'[u][k] = a
      BY <1>2, <3>1 DEF ActInv, Is
    <3>2. ASSUME NEW j \in 1..Len(stack[u]), Alike(stack'[u][k], stack[u][j])
          PROVE  ActInv(stack[u][k], f)'
      <4>1. ActInv(stack[u][j], f)
        BY DEF FrameInv
      <4>2. stack[u][j].req # r \/ alive' = alive
        BY <1>4, <1>f, StackFacts DEF Unreferenced
      <4>3. stack'[u][k].req \in alive' =>
               /\ stack'[u][k].req \in alive
               /\ Holds(stack'[u][k].req, f) <=> Holds(stack[u][k].req, f)'
        BY <1>4, <1>f, <2>1, <3>2, <4>2 DEF Alike
      <4> QED  BY <1>u, <3>2, <4>1, <4>3 DEF Alike, ActInv, Walks, Settled
    <3> QED  BY <1>3, <3>1, <3>2 DEF OnlyAdds
  <2>5. Carried(f)' <=> Carried(f)
    <3>1. ~Carries(stack[t][1], f) /\ ~Carries(a, f)
      BY <1>1, <1>2, <1>9 DEF Carries, Is
    <3> QED  BY <1>3, <1>f, <3>1, CarriedKept
  <2> QED  BY <1>7, <1>u, <2>1, <2>2, <2>3, <2>4, <2>5 DEF FrameInv, Waits
<1> QED  BY <1>8, <1>9

\* A request is freed: whatever it held is settled.
LEMMA FramesDestroy ==
    ASSUME Known, Known', NEW f, FrameInv(f), NEW t \in Thread, Destroy(t)
    PROVE  /\ FrameInv(f)'
           /\ ~Settled(f) => (Waits(f)' <=> Waits(f))
<1>s. TypeInv /\ CallInv' /\ QueueInv
  BY DEF Known
<1>f. /\ stack \in Stacks /\ {"receiver", "sweeper"} = Thread
      /\ \A u \in Thread : Len(stack[u]) \in Nat /\ Len(stack'[u]) \in Nat
      /\ alive \subseteq Req
  BY ThreadFacts
<1>u. UNCHANGED <<wire, reported, arrived>> /\ At(t, "destroy")
  BY DEF Destroy
<1>1. Top(t) = stack[t][1] /\ 1 \in 1..Len(stack[t]) /\ Top(t).pc = "destroy"
  BY <1>s, <1>u, AtFacts
<1>2. PICK r \in Req : /\ r = Top(t).req
                       /\ alive' = alive \ {r}
                       /\ \A x \in Req \ {r} : pkts'[x] = pkts[x]
                       /\ Queued' = Queued \ {r}
  BY <1>s, DestroyFacts, QueuedDestroyed
<1>3. Popped(t)
  BY <1>s, BumpShape
<1>4. OnlyAdds({}) /\ Survives(t) /\ OthersKept(t)
  BY <1>3, <1>f, PoppedAdds, ShapesSurvive
<1>5. /\ \A x \in Req : Holds(x, f)' <=> x # r /\ Holds(x, f)
      /\ Settled(f)' <=> Settled(f)
  BY <1>2, <1>u DEF Holds, Settled
<1>6. ASSUME NEW u \in Thread, NEW k \in 1..Len(stack'[u]), Carries(stack'[u][k], f)
      PROVE  u # t /\ stack'[u] = stack[u]
  <2>1. Len(stack'[t]) > 0 => ~Carries(stack'[t][1], f)
    BY <1>3, CallerOf DEF Carries
  <2> QED  BY <1>4, <1>f, <1>s, <1>6, <2>1, CarriedElsewhere
<1>7. Entered(f)' => Entered(f)
  BY <1>5, <1>6 DEF Entered, Waits, Carried
<1>8. CarriedAlone(f)'
  BY <1>5, <1>6 DEF FrameInv, CarriedAlone
<1>9. HolderFits(f)'
  <2>1. \A x \in Req : Ending(x) /\ x # r => Ending(x)'
    BY <1>1, <1>2, <1>4, <1>f, EndingKept DEF Ends
  <2> QED  BY <1>2, <1>5, <1>u, <2>1 DEF FrameInv, HolderFits
<1>10. ASSUME NEW u \in Thread, NEW k \in 1..Len(stack'[u]) PROVE ActInv(stack[u][k], f)'
  <2>1. PICK j \in 1..Len(stack[u]) : Alike(stack'[u][k], stack[u][j])
    BY <1>4 DEF OnlyAdds
  <2>2. ActInv(stack[u][j], f)
    BY DEF FrameInv
  <2>3. stack'[u][k].req \in alive' =>
           /\ stack'[u][k].req \in alive
           /\ Holds(stack'[u][k].req, f) <=> Holds(stack[u][k].req, f)'
    BY <1>2, <1>5, <1>f
  <2> QED  BY <1>u, <2>1, <2>2, <2>3 DEF Alike, ActInv, Walks, Settled
<1>11. ASSUME ~Settled(f) PROVE Waits(f)' <=> Waits(f)
  <2>1. ~Holds(r, f)
    BY <1>1, <1>2, <1>11 DEF FrameInv, ActInv, Holds
  <2>2. Carried(f)' <=> Carried(f)
    BY <1>1, <1>4, <1>f, CarriedKept DEF Carries
  <2> QED  BY <1>5, <2>1, <2>2 DEF Waits
<1> QED  BY <1>5, <1>7, <1>8, <1>9, <1>10, <1>11, <1>u DEF FrameInv

\* Every step keeps track of every accepted frame.
LEMMA DeliveryNext ==
    ASSUME IdsNameArrivals, Known, Known', OwnInv, DeliveryInv, [Next]_vars
    PROVE  DeliveryInv'
<1> SUFFICES ASSUME NEW f \in Undertaken PROVE FrameInv(f)'
  BY DEF DeliveryInv, Undertaken
<1>f. FrameInv(f) /\ "sweeper" \in Thread
  BY DEF DeliveryInv, Thread
<1>1. ASSUME NEW t \in Thread, Step(t) PROVE FrameInv(f)'
  <2>1. CASE UseAfterFree(t)
    BY <1>f, <2>1 DEF UseAfterFree, memory, history, FrameInv, Entered, Waits, Carried, CarriedAlone,
                      HolderFits, Ending, ActInv, Walks, Holds, Settled, Queued
  <2> QED  BY <1>1, <1>f, <2>1, FramesDrain, FramesRoute, FramesGiveUp, FramesDestroy,
              LocalSteps DEF Step
<1>2. CASE UNCHANGED vars
  BY <1>f, <1>2 DEF vars, memory, history, FrameInv, Entered, Waits, Carried, CarriedAlone,
                    HolderFits, Ending, ActInv, Walks, Holds, Settled, Queued
<1> QED  BY <1>1, <1>2, <1>f, FramesHandleIp, FramesArpReply, FramesTick, LocalSteps
            DEF Next, Faulted

-----------------------------------------------------------------------------
(* The steps of Delivery.                                                  *)

\* The frames that Delivery calls pending.
Open == {f \in Undertaken \ (wire \cup reported) : Pending(f)}

OpenFact == \A f \in Undertaken : f \in Open <=> ~Settled(f) /\ Waits(f)

\* They are the ones that wait and are not settled.
LEMMA OpenIs == Known => OpenFact
<1> SUFFICES ASSUME Known, NEW f \in Undertaken PROVE Pending(f) <=> Waits(f)
  BY DEF OpenFact, Open, Settled
<1>1. \A t \in Thread : DOMAIN stack[t] = 1..Len(stack[t])
  BY StackFacts DEF Known, TypeInv, TypeOK, Stacks
<1>2. alive \subseteq Req
  BY DEF Known, TypeInv, TypeOK
<1> QED  BY <1>1, <1>2 DEF Pending, Waits, Carried, Carries, Holds, Listed

\* Nothing happens to the accepted frames.
LEMMA StepStutters ==
    ASSUME Known, Known',
           \A f \in Undertaken : ~Settled(f) => (Waits(f)' <=> Waits(f)),
           wire' \cap Undertaken = wire \cap Undertaken,
           reported' \cap Undertaken = reported \cap Undertaken,
           fault' = fault
    PROVE  UNCHANGED Router!vars
<1>1. OpenFact /\ OpenFact'
  BY OpenIs, PTL
<1>2. \A f \in Undertaken : Settled(f)' <=> Settled(f)
  BY DEF Settled
<1>3. Open' = Open
  BY <1>1, <1>2 DEF Open, OpenFact
<1> QED  BY <1>3 DEF Router!vars, Open

\* A received packet adds at most one frame, which was nowhere before.
LEMMA AcceptStep ==
    ASSUME IdsNameArrivals, Known, Known', DeliveryInv, fault = "none",
           NEW p \in Packets, HandleIp(p)
    PROVE  [Router!Next]_(Router!vars)
<1>s. TypeInv /\ arrived \subseteq Packets
  BY DEF Known, TypeInv, TypeOK
<1>f. /\ stack \in Stacks /\ {"receiver", "sweeper"} = Thread
      /\ \A u \in Thread : Len(stack[u]) \in Nat
  BY ThreadFacts
<1>u. /\ UNCHANGED <<alive, pkts, wire, reported, fault>>
      /\ p \notin arrived
  BY DEF HandleIp, memory
<1>1. \A f : \A r \in Req : Holds(r, f)' <=> Holds(r, f)
  BY <1>u DEF Holds
<1>2. CASE UNCHANGED stack
  <2>1. \A f \in Undertaken : Waits(f)' <=> Waits(f)
    BY <1>1, <1>2 DEF Waits, Carried
  <2> QED  BY <1>u, <2>1, StepStutters
<1>3. ASSUME NEW q \in handle_ip_packet(p), NEW a, q \in QueuedPacket,
             Is(a, "route", NULL, <<q>>), Started("receiver", a)
      PROVE  Router!Next
  <2> DEFINE g == q.buf
  <2>1. g \in Undertaken
    BY DEF Undertaken
  <2>2. ~Entered(g)
    <3> SUFFICES ASSUME Entered(g) PROVE FALSE
      OBVIOUS
    <3>1. PICK p2 \in arrived : p2.id = g.id
      BY <2>1 DEF DeliveryInv, FrameInv
    <3>2. g.id = p.id
      BY HandleIpFrames
    <3> QED  BY <1>s, <1>u, <3>1, <3>2 DEF IdsNameArrivals
  <2>3. /\ Len(stack'["receiver"]) = 1 /\ stack'["receiver"][1] = a
        /\ stack'["sweeper"] = stack["sweeper"]
        /\ Len(stack["receiver"]) = 0
    BY <1>3, <1>f, EmptySeq DEF Started, OthersKept
  <2>4. \A f : Carries(a, f) <=> f = g
    BY <1>3 DEF Carries, Is
  <2>5. \A f \in Undertaken : Carried(f)' <=> Carried(f) \/ f = g
    BY <1>f, <2>3, <2>4 DEF Carried
  <2>6. \A f \in Undertaken : Waits(f)' <=> Waits(f) \/ f = g
    BY <1>1, <2>5 DEF Waits
  <2>7. OpenFact /\ OpenFact'
    BY OpenIs, PTL
  <2>8. \A f \in Undertaken : Settled(f)' <=> Settled(f)
    BY <1>u DEF Settled
  <2>9. g \notin Open /\ ~Settled(g) /\ Open' = Open \cup {g}
    BY <2>1, <2>2, <2>6, <2>7, <2>8 DEF Open, OpenFact, Entered
  <2> HIDE DEF g
  <2>10. Router!Accept(g)
    BY <1>u, <2>1, <2>9 DEF Router!Accept, Open, Settled
  <2> QED  BY <1>u, <2>1, <2>10 DEF Router!Next
<1> QED  BY <1>2, <1>3, <1>s, HandleIpShape

\* Draining delivers the frame, unless it was delivered already or is one of
\* the router's own host unreachable errors.
LEMMA DeliverStep ==
    ASSUME Known, Known', OwnInv, DeliveryInv, fault = "none",
           NEW t \in Thread, Drain(t)
    PROVE  [Router!Next]_(Router!vars)
<1> DEFINE g == Head(Top(t).todo).buf
<1>u. UNCHANGED <<reported, fault>> /\ wire' = wire \cup {g}
  BY DEF Drain
<1>1. \A f \in Undertaken : /\ Waits(f)' <=> Waits(f)
                            /\ f = g => Waits(f) /\ f \notin reported
  BY FramesDrain DEF DeliveryInv
<1> HIDE DEF g
<1>2. CASE g \in wire \/ g \notin Undertaken
  BY <1>1, <1>2, <1>u, StepStutters
<1>3. CASE g \notin wire /\ g \in Undertaken
  <2>1. OpenFact /\ OpenFact'
    BY OpenIs, PTL
  <2>2. \A f \in Undertaken : Settled(f)' <=> Settled(f) \/ f = g
    BY <1>u DEF Settled
  <2>3. g \in Open /\ Open' = Open \ {g}
    <3>1. g \in Open
      BY <1>1, <1>3, <2>1 DEF OpenFact, Settled
    <3> QED  BY <1>1, <2>1, <2>2, <3>1 DEF OpenFact, Open
  <2>4. Router!Deliver(g)
    BY <1>3, <1>u, <2>3 DEF Router!Deliver, Open
  <2> QED  BY <1>3, <1>u, <2>4 DEF Router!Next
<1> QED  BY <1>2, <1>3

\* Reporting fails the frame, unless it was reported already or is an error
\* itself; running out of stack on the way is a crash.
LEMMA FailStep ==
    ASSUME Known, Known', OwnInv, DeliveryInv, fault = "none",
           NEW t \in Thread, GiveUp(t)
    PROVE  [Router!Next]_(Router!vars)
<1> DEFINE g == Head(Top(t).todo).buf
<1>u. /\ UNCHANGED wire
      /\ \/ reported' = reported \cup {g} /\ fault' = fault
         \/ reported' = reported /\ fault' = "stack_overflow"
  BY DEF GiveUp
<1>1. \A f \in Undertaken : /\ Waits(f)' <=> Waits(f)
                            /\ f = g => Waits(f) /\ f \notin wire
  BY FramesGiveUp DEF DeliveryInv
<1> HIDE DEF g
<1>2. CASE /\ reported' = reported \cup {g} /\ fault' = fault
           /\ g \in reported \/ g \notin Undertaken
  BY <1>1, <1>2, <1>u, StepStutters
<1>0. OpenFact /\ OpenFact'
  BY OpenIs, PTL
<1>3. CASE /\ reported' = reported \cup {g} /\ fault' = fault
           /\ g \notin reported /\ g \in Undertaken
  <2>2. \A f \in Undertaken : Settled(f)' <=> Settled(f) \/ f = g
    BY <1>3, <1>u DEF Settled
  <2>3. g \in Open /\ Open' = Open \ {g}
    <3>1. g \in Open
      BY <1>0, <1>1, <1>3 DEF OpenFact, Settled
    <3> QED  BY <1>0, <1>1, <2>2, <3>1 DEF OpenFact, Open
  <2>4. Router!Fail(g)
    BY <1>3, <1>u, <2>3 DEF Router!Fail, Open
  <2> QED  BY <1>3, <2>4 DEF Router!Next
<1>4. CASE reported' = reported /\ fault' = "stack_overflow"
  <2>1. \A f \in Undertaken : Settled(f)' <=> Settled(f)
    BY <1>4, <1>u DEF Settled
  <2>2. Open' = Open
    BY <1>0, <1>1, <2>1 DEF OpenFact, Open
  <2>3. Router!Crash
    BY <1>4, <1>u, <2>2 DEF Router!Crash, Open
  <2> QED  BY <2>3 DEF Router!Next
<1> QED  BY <1>2, <1>3, <1>4, <1>u

\* Every step of the queue and its threads is a step of Delivery, or nothing
\* happens to the accepted frames.
LEMMA Simulates ==
    ASSUME IdsNameArrivals, Known, Known', OwnInv, DeliveryInv, [Next]_vars
    PROVE  [Router!Next]_(Router!vars)
<1>1. ASSUME NEW p \in Packets, HandleIp(p) PROVE [Router!Next]_(Router!vars)
  BY <1>1, AcceptStep DEF HandleIp, Idle
<1>2. ASSUME NEW t \in Thread, Drain(t) PROVE [Router!Next]_(Router!vars)
  BY <1>2, DeliverStep DEF Drain, At
<1>3. ASSUME NEW t \in Thread, GiveUp(t) PROVE [Router!Next]_(Router!vars)
  BY <1>3, FailStep DEF GiveUp, At
<1>4. ASSUME NEW t \in Thread, UseAfterFree(t) PROVE [Router!Next]_(Router!vars)
  <2>1. /\ fault = "none" /\ fault' = "use_after_free"
        /\ UNCHANGED <<alive, pkts, stack, wire, reported>>
    BY <1>4 DEF UseAfterFree, memory, history
  <2>2. Open' = Open
    BY <2>1 DEF Open, Pending
  <2>3. Router!Crash
    BY <2>1, <2>2 DEF Router!Crash, Open
  <2> QED  BY <2>1, <2>3 DEF Router!Next
<1>5. ASSUME UNCHANGED <<wire, reported, fault>>,
             \A f \in Undertaken : ~Settled(f) => (Waits(f)' <=> Waits(f))
      PROVE  [Router!Next]_(Router!vars)
  BY <1>5, StepStutters
<1>6. ASSUME NEW t \in Thread,
             \/ Check(t) \/ Count(t) \/ Ask(t) \/ Bump(t) \/ LoopEnd(t)
             \/ t = "sweeper" /\ (SweepBegin \/ SweepStep)
      PROVE  [Router!Next]_(Router!vars)
  <2>1. UNCHANGED <<wire, reported, fault>>
    BY <1>6 DEF Check, Count, Ask, Bump, LoopEnd, SweepBegin, SweepStep, history
  <2>2. \A f \in Undertaken : Waits(f)' <=> Waits(f)
    BY <1>6, LocalSteps DEF DeliveryInv
  <2> QED  BY <1>5, <2>1, <2>2
<1>7. ASSUME NEW t \in Thread, Route(t) \/ Destroy(t) PROVE [Router!Next]_(Router!vars)
  <2>1. UNCHANGED <<wire, reported, fault>>
    BY <1>7 DEF Route, Destroy
  <2>2. \A f \in Undertaken : ~Settled(f) => (Waits(f)' <=> Waits(f))
    BY <1>7, FramesRoute, FramesDestroy DEF DeliveryInv
  <2> QED  BY <1>5, <2>1, <2>2
<1>8. ASSUME Tick \/ \E ad \in IP : HandleArpReply(ad) PROVE [Router!Next]_(Router!vars)
  <2>1. UNCHANGED <<wire, reported, fault>>
    BY <1>8 DEF Tick, HandleArpReply, history
  <2>2. \A f \in Undertaken : Waits(f)' <=> Waits(f)
    BY <1>8, FramesTick, FramesArpReply DEF DeliveryInv
  <2> QED  BY <1>5, <2>1, <2>2
<1>9. CASE UNCHANGED vars
  <2>1. UNCHANGED <<alive, pkts, stack, wire, reported, fault>>
    BY <1>9 DEF vars, memory, history
  <2>2. \A f \in Undertaken : Waits(f)' <=> Waits(f)
    BY <2>1 DEF Waits, Carried, Holds
  <2> QED  BY <1>5, <2>1, <2>2
<1> QED
  BY <1>1, <1>2, <1>3, <1>4, <1>6, <1>7, <1>8, <1>9 DEF Next, Step, Faulted, Thread

\* The queue and its two threads implement Delivery: whatever the threads do
\* to each other, until a fault no accepted frame is lost, none is delivered or
\* reported that was not accepted, and none is both sent to its next hop and
\* reported unreachable.  The receiver tells packets apart by their arrival.
THEOREM DeliveryImplemented ==
    ASSUME IdsNameArrivals
    PROVE  Spec => ImplementsDelivery
<1>1. Init => DeliveryInv
  BY DEF Init, DeliveryInv, FrameInv, Entered, Waits, Carried, CarriedAlone, HolderFits,
         ActInv, Holds, Settled, Thread
<1>2. Init => Router!Init
  BY DEF Init, Router!Init, Pending, Thread
<1>3. IdsNameArrivals /\ Known /\ Known' /\ OwnInv /\ DeliveryInv /\ [Next]_vars => DeliveryInv'
  BY DeliveryNext
<1>4. IdsNameArrivals /\ Known /\ Known' /\ OwnInv /\ DeliveryInv /\ [Next]_vars
        => [Router!Next]_(Router!vars)
  BY Simulates
<1>5. IdsNameArrivals
  OBVIOUS
<1>6. Spec => []DeliveryInv
  BY <1>1, <1>3, <1>5, KnownAlways, OwnAlways, PTL DEF Spec
<1> QED
  BY <1>2, <1>4, <1>5, <1>6, KnownAlways, OwnAlways, PTL
     DEF Spec, ImplementsDelivery, Router!Spec

-----------------------------------------------------------------------------
(* The table does not disturb the queue.                                   *)

\* A step of the cache is a step of the queue: a reply for an address that
\* nobody asked for leaves the queue as it is, and aging the table is done
\* in the critical section that begins a sweep.
LEMMA CacheStepIsQueueStep == [CacheNext]_cacheVars => [Next]_vars
<1> SUFFICES ASSUME [CacheNext]_cacheVars PROVE [Next]_vars
  OBVIOUS
<1>1. ASSUME NEW reply \in Replies, HandleReply(reply) PROVE [Next]_vars
  <2>1. reply.ip \in IP
    BY ArpCacheAssumption
  <2> QED  BY <1>1, <2>1 DEF HandleReply, Next
<1>2. CASE Timeout
  BY <1>2 DEF Timeout, Next
<1>3. CASE CacheTick
  BY <1>3 DEF CacheTick, Next
<1>4. ASSUME NEW p \in Packets, HandleIp(p) PROVE [Next]_vars
  BY <1>4 DEF Next
<1>5. ASSUME NEW t \in Thread, Step(t) PROVE [Next]_vars
  BY <1>5 DEF Next
<1>6. CASE SweepStep \/ Faulted
  BY <1>6 DEF Next
<1>7. CASE UNCHANGED cacheVars
  BY <1>7 DEF cacheVars
<1> QED  BY <1>1, <1>2, <1>3, <1>4, <1>5, <1>6, <1>7 DEF CacheNext

\* The cache as a whole implements the request queue: whatever ArpQueue's
\* theorems say of the queue and its two threads holds with the table, with
\* replies that were not asked for and with two replies for one address.
THEOREM CacheImplementsQueue == CacheSpec => Spec
<1>1. CacheInit => Init
  BY DEF CacheInit
<1> QED  BY <1>1, CacheStepIsQueueStep, PTL DEF CacheSpec, Spec

-----------------------------------------------------------------------------
(* The table.                                                              *)

\* A set of numbers that is not empty has a smallest member, and Min is one.
LEMMA MinOfNumbers ==
    ASSUME NEW S, S \subseteq Nat, S # {}
    PROVE  Min(S) \in S /\ \A y \in S : Min(S) <= y
<1>1. PICK m \in S : \A y \in S : m <= y
  BY SmallestNumber
<1> QED  BY <1>1 DEF Min

\* Aging moves a mapping on, never back, and stops one past the timeout.
LEMMA AgeGrows ==
    ASSUME NEW a \in Age
    PROVE  /\ Min({a + 1, SR_ARPCACHE_TO + 1}) \in Age
           /\ Min({a + 1, SR_ARPCACHE_TO + 1}) >= a
<1> DEFINE S == {a + 1, SR_ARPCACHE_TO + 1}
<1>1. a \in Nat /\ SR_ARPCACHE_TO \in Nat /\ a <= SR_ARPCACHE_TO + 1
  BY ArpCacheAssumption DEF Age
<1>2. S \subseteq Nat /\ S # {}
  BY <1>1
<1>3. Min(S) \in S /\ \A y \in S : Min(S) <= y
  BY <1>2, MinOfNumbers
<1> HIDE DEF S
<1>4. Min(S) = a + 1 \/ Min(S) = SR_ARPCACHE_TO + 1
  BY <1>3 DEF S
<1>5. Min(S) <= SR_ARPCACHE_TO + 1
  BY <1>3 DEF S
<1> QED  BY <1>1, <1>4, <1>5 DEF Age, S

\* An insertion takes a free slot and leaves the others alone.
LEMMA InsertFacts ==
    ASSUME NEW reply \in Replies, InsertEntry(reply)
    PROVE  \/ entries' = entries
           \/ \E s \in Slot \ DOMAIN entries, new \in Entry :
                 /\ DOMAIN entries' = DOMAIN entries \cup {s}
                 /\ entries'[s] = new
                 /\ \A i \in DOMAIN entries : entries'[i] = entries[i]
<1> DEFINE free == Slot \ DOMAIN entries
           new == [ip |-> reply.ip, mac |-> reply.mac, age |-> 0]
<1>1. new \in Entry
  BY ArpCacheAssumption DEF Entry, Age
<1>2. CASE free = {}
  BY <1>2 DEF InsertEntry
<1>3. CASE free # {}
  <2>1. free \subseteq Nat
    BY DEF Slot
  <2>2. Min(free) \in free
    BY <1>3, <2>1, MinOfNumbers
  <2>3. entries' = [i \in DOMAIN entries \cup {Min(free)} |->
                      IF i \in DOMAIN entries THEN entries[i] ELSE new]
    BY <1>3 DEF InsertEntry
  <2>4. /\ DOMAIN entries' = DOMAIN entries \cup {Min(free)}
        /\ entries'[Min(free)] = new
        /\ \A i \in DOMAIN entries : entries'[i] = entries[i]
    BY <2>2, <2>3
  <2> QED  BY <1>1, <2>2, <2>4
<1> QED  BY <1>2, <1>3

\* What a step of the cache does to the table.
LEMMA TableStep ==
    ASSUME CacheNext
    PROVE  \/ entries' = entries
           \/ \E reply \in Replies : InsertEntry(reply)
           \/ Timeout
           \/ CacheTick
BY DEF CacheNext, HandleReply

\* One step keeps the table well typed, and every mapping in it that is not
\* older than the timeout.
LEMMA TableKept ==
    ASSUME CacheTypeOK, [CacheNext]_cacheVars
    PROVE  /\ CacheTypeOK'
           /\ \A i \in DOMAIN entries :
                 \/ /\ i \in DOMAIN entries'
                    /\ entries'[i].ip = entries[i].ip
                    /\ entries'[i].mac = entries[i].mac
                    /\ entries'[i].age >= entries[i].age
                 \/ i \notin DOMAIN entries' /\ entries[i].age > SR_ARPCACHE_TO
<1>0. \A i \in DOMAIN entries :
        entries[i] \in Entry /\ i \in Slot /\ entries[i].age \in Int
  BY ArpCacheAssumption DEF CacheTypeOK, Entry, Age
<1>1. CASE entries' = entries
  BY <1>0, <1>1 DEF CacheTypeOK
<1>2. ASSUME NEW reply \in Replies, InsertEntry(reply), entries' # entries
      PROVE  /\ CacheTypeOK'
             /\ \A i \in DOMAIN entries : i \in DOMAIN entries' /\ entries'[i] = entries[i]
  <2>1. PICK s \in Slot \ DOMAIN entries, new \in Entry :
              /\ DOMAIN entries' = DOMAIN entries \cup {s}
              /\ entries'[s] = new
              /\ \A i \in DOMAIN entries : entries'[i] = entries[i]
    BY <1>2, InsertFacts
  <2> QED  BY <1>0, <2>1 DEF CacheTypeOK
<1>3. CASE Timeout
  <2> DEFINE kept == {i \in DOMAIN entries : entries[i].age <= SR_ARPCACHE_TO}
  <2>1. entries' = [i \in kept |-> entries[i]]
    BY <1>3 DEF Timeout, Restrict
  <2>2. DOMAIN entries' = kept /\ \A i \in kept : entries'[i] = entries[i]
    BY <2>1
  <2>3. CacheTypeOK'
    BY <1>0, <2>2 DEF CacheTypeOK
  <2> QED  BY <1>0, <2>2, <2>3, ArpCacheAssumption
<1>4. CASE CacheTick
  <2>1. ASSUME NEW i \in DOMAIN entries
        PROVE  LET e == [entries[i] EXCEPT !.age = Min({@ + 1, SR_ARPCACHE_TO + 1})]
               IN  /\ e \in Entry
                   /\ e.ip = entries[i].ip
                   /\ e.mac = entries[i].mac
                   /\ e.age >= entries[i].age
    <3> DEFINE a == entries[i].age
               b == Min({a + 1, SR_ARPCACHE_TO + 1})
    <3>1. entries[i] \in Entry /\ a \in Age
      BY <1>0 DEF Entry
    <3>2. b \in Age /\ b >= a
      BY <3>1, AgeGrows
    <3> HIDE DEF b
    <3>3. [entries[i] EXCEPT !.age = b] \in Entry
      BY <3>1, <3>2 DEF Entry
    <3> QED  BY <3>1, <3>2, <3>3 DEF Entry, b
  <2>2. entries' = [i \in DOMAIN entries |->
                      [entries[i] EXCEPT !.age = Min({@ + 1, SR_ARPCACHE_TO + 1})]]
    BY <1>4 DEF CacheTick
  <2>3. /\ DOMAIN entries' = DOMAIN entries
        /\ \A i \in DOMAIN entries : entries'[i] =
              [entries[i] EXCEPT !.age = Min({@ + 1, SR_ARPCACHE_TO + 1})]
    BY <2>2
  <2>4. CacheTypeOK'
    BY <1>0, <2>1, <2>3 DEF CacheTypeOK
  <2> QED  BY <2>1, <2>3, <2>4
<1>5. CASE UNCHANGED cacheVars
  BY <1>1, <1>5 DEF cacheVars
<1> QED
  <2>1. CASE CacheNext
    BY <1>0, <1>1, <1>2, <1>3, <1>4, <2>1, TableStep
  <2> QED  BY <1>5, <2>1

\* The table is always well typed: no insertion runs past the last slot,
\* however many replies arrive.
THEOREM TableTypeCorrect == CacheSpec => []CacheTypeOK
<1>1. CacheInit => CacheTypeOK
  BY DEF CacheInit, CacheTypeOK
<1>2. CacheTypeOK /\ [CacheNext]_cacheVars => CacheTypeOK'
  BY TableKept
<1> QED  BY <1>1, <1>2, PTL DEF CacheSpec

\* For a table of any size, any timeout and any sequence of replies: no mapping
\* is dropped before its time, and while there is room none is overwritten.
THEOREM MappingsCorrect == CacheSpec => MappingsKept
<1>1. CacheTypeOK /\ [CacheNext]_cacheVars =>
        [\A i \in DOMAIN entries :
            \/ MappingKept(i)
            \/ i \notin DOMAIN entries' /\ entries[i].age > SR_ARPCACHE_TO
            \/ /\ DOMAIN entries = Slot
               /\ i \in DOMAIN entries' /\ entries'[i].age = 0
               /\ \A j \in Slot \ {i} : MappingKept(j)]_cacheVars
  BY TableKept DEF MappingKept
<1> QED  BY <1>1, TableTypeCorrect, PTL DEF CacheSpec, MappingsKept
=============================================================================
