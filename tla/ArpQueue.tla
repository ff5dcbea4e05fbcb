------------------------------- MODULE ArpQueue -------------------------------
(***************************************************************************)
(* The ARP request queue of sr_arpcache.c and the two threads that work on *)
(* it: the receiver, which runs sr_handlepacket for one packet after the   *)
(* other, and the sweeper, which runs sr_arpcache_timeout once a second    *)
(* with the cache lock held.                                               *)
(*                                                                         *)
(* handle_arpreq is recursive: giving up on a request sends ICMP errors,   *)
(* which are routed, queued and passed to handle_arpreq again.  Each       *)
(* thread therefore has a call stack of activations; an activation's pc    *)
(* says which statement is next.  A critical section that takes and drops  *)
(* the lock within one function is one step; statements outside of the     *)
(* lock, and the reads and writes of a request they make, are steps of     *)
(* their own.                                                              *)
(*                                                                         *)
(* Wall-clock time is kept relative: only whether a full second has passed *)
(* since req->sent matters (due), and whether the second changed after a   *)
(* thread read the clock (late).                                           *)
(*                                                                         *)
(* Using a request after sr_arpreq_destroy freed it, and exhausting the C  *)
(* stack, are undefined: the model records the fault and stops there.      *)
(***************************************************************************)
EXTENDS Forwarding, FiniteSets, SequencesExt

CONSTANTS
    Packets,      \* the IP packets that may arrive, each at most once
    Req,          \* addresses calloc may give to a struct sr_arpreq
    NULL,
    MaxTries,     \* the 5 of handle_arpreq
    StackLimit    \* bound: activations a thread's stack has room for

ASSUME ArpQueueAssumption ==
    /\ Packets \subseteq Packet
    /\ NULL \notin Req \cup {"receiver", "sweeper"}
    /\ MaxTries \in Nat \ {0}
    /\ StackLimit \in Nat

VARIABLES
    reqs,     \* cache->requests, head first
    alive,    \* the requests allocated and not yet freed
    ip,       \* req->ip
    times,    \* req->times_sent
    due,      \* difftime(now, req->sent) >= 1.0
    pkts,     \* req->packets, head first
    lock,     \* the thread that holds cache->lock between two steps, or NULL
    stack,    \* the call stack of each thread, innermost activation first
    slept,    \* the sweeper's sleep(1.0) is over
    fault,    \* the first undefined behaviour met
    arrived,  \* the packets received so far
    wire,     \* the frames passed to sr_send_packet, their next hop resolved
    reported, \* the frames a host unreachable error was attempted for
    asked     \* the number of ARP requests really sent for a request

memory == <<reqs, alive, ip, times, due, pkts>>
history == <<arrived, wire, reported, asked>>
vars == <<memory, lock, stack, slept, fault, history>>

Thread == {"receiver", "sweeper"}

PC == {"route", "check", "count", "ask", "bump", "giveup", "destroy",
       "drain", "sweep"}

Activation == [pc : PC, req : Req \cup {NULL}, todo : Seq(QueuedPacket),
               late : BOOLEAN, n : Nat]

Act(pc, r, todo) ==
    [pc |-> pc, req |-> r, todo |-> todo, late |-> FALSE, n |-> 0]

Init ==
    /\ reqs = <<>>
    /\ alive = {}
    /\ ip = [r \in Req |-> NoIP]
    /\ times = [r \in Req |-> 0]
    /\ due = [r \in Req |-> TRUE]
    /\ pkts = [r \in Req |-> <<>>]
    /\ lock = NULL
    /\ stack = [t \in Thread |-> <<>>]
    /\ slept = FALSE
    /\ fault = "none"
    /\ arrived = {}
    /\ wire = {}
    /\ reported = {}
    /\ asked = [r \in Req |-> 0]

-----------------------------------------------------------------------------
(* Call stacks, lock and heap.                                             *)

Idle(t) == fault = "none" /\ stack[t] = <<>>

At(t, pc) == fault = "none" /\ stack[t] # <<>> /\ Head(stack[t]).pc = pc

Top(t) == Head(stack[t])

Return(t) == stack' = [stack EXCEPT ![t] = Tail(@)]

Become(t, a) == stack' = [stack EXCEPT ![t] = <<a>> \o Tail(@)]

BecomeAndCall(t, a, callee) ==
    stack' = [stack EXCEPT ![t] = <<callee>> \o (<<a>> \o Tail(@))]

\* The lock is recursive: its holder may take it again.
LockFree(t) == lock \in {NULL, t}

\* Memory calloc may return.  An address some thread still points to is not
\* reused here: that thread's next access is the fault the model looks for.
Unreferenced(r) ==
    \A t \in Thread : \A k \in DOMAIN stack[t] : stack[t][k].req # r

\* Where a walk along the queue for one of the positions in S stops.
First(S) == {i \in S : \A j \in S : i <= j}

\* Mutants of the search: only the head of the queue is looked at, or the
\* address is not compared.
PositionsFor_HeadOnly(a) == {i \in DOMAIN reqs : i = 1 /\ ip[reqs[i]] = a}

PositionsFor_Any(a) == DOMAIN reqs

\* The positions of the requests for address a: at most one, it is to be hoped.
PositionsFor(a) == {i \in DOMAIN reqs : ip[reqs[i]] = a}

PositionsOf(r) == {i \in DOMAIN reqs : reqs[i] = r}

-----------------------------------------------------------------------------
(* The receiver's entry points.                                            *)

\* An IP packet is received; at most one frame goes on to the queue.
HandleIp(p) ==
    /\ Idle("receiver")
    /\ p \in Packets \ arrived
    /\ arrived' = arrived \cup {p}
    /\ \/ /\ handle_ip_packet(p) = {}
          /\ UNCHANGED stack
       \/ \E q \in handle_ip_packet(p) :
            stack' = [stack EXCEPT !["receiver"] =
                                        <<Act("route", NULL, <<q>>)>>]
    /\ UNCHANGED <<memory, lock, slept, fault, wire, reported, asked>>

\* Mutant: the request is drained but stays on the queue.
HandleArpReply_KeepsLink(a) ==
    /\ Idle("receiver")
    /\ LockFree("receiver")
    /\ \E i \in First(PositionsFor(a)) :
         stack' = [stack EXCEPT !["receiver"] =
                        <<Act("drain", reqs[i], pkts[reqs[i]])>>]
    /\ UNCHANGED <<memory, lock, slept, fault, history>>

\* An ARP reply that resolves a: the request for a, if one is queued, is
\* detached by sr_arpcache_insert and its packets are then sent.
HandleArpReply(a) ==
    /\ Idle("receiver")
    /\ LockFree("receiver")
    /\ \E i \in First(PositionsFor(a)) :
         /\ reqs' = RemoveAt(reqs, i)
         /\ stack' = [stack EXCEPT !["receiver"] =
                        <<Act("drain", reqs[i], pkts[reqs[i]])>>]
    /\ UNCHANGED <<alive, ip, times, due, pkts, lock, slept, fault, history>>

Drain(t) ==
    /\ At(t, "drain")
    /\ Top(t).req \in alive
    /\ Top(t).todo # <<>>
    /\ wire' = wire \cup {Head(Top(t).todo).buf}
    /\ Become(t, Act("drain", Top(t).req, Tail(Top(t).todo)))
    /\ UNCHANGED <<memory, lock, slept, fault, arrived, reported, asked>>

-----------------------------------------------------------------------------
(* route_and_send, handle_arpreq and sr_arpreq_destroy, in either thread.  *)

\* sr_arpcache_queuereq: the critical section that finds or adds the request.
Route(t) ==
    /\ At(t, "route")
    /\ LockFree(t)
    /\ LET q == Head(Top(t).todo) IN
       \/ \E i \in First(PositionsFor(q.nh)) :
            /\ pkts' = [pkts EXCEPT ![reqs[i]] = <<q>> \o @]
            /\ Become(t, Act("check", reqs[i], <<>>))
            /\ UNCHANGED <<reqs, alive, ip, times, due, asked>>
       \/ /\ PositionsFor(q.nh) = {}
          /\ \E r \in Req \ alive :
               /\ Unreferenced(r)
               /\ alive' = alive \cup {r}
               /\ reqs' = <<r>> \o reqs
               /\ ip' = [ip EXCEPT ![r] = q.nh]
               /\ times' = [times EXCEPT ![r] = 0]
               /\ due' = [due EXCEPT ![r] = TRUE]
               /\ pkts' = [pkts EXCEPT ![r] = <<q>>]
               /\ asked' = [asked EXCEPT ![r] = 0]
               /\ Become(t, Act("check", r, <<>>))
    /\ UNCHANGED <<lock, slept, fault, arrived, wire, reported>>

\* handle_arpreq: read the clock and req->sent.
Check(t) ==
    LET r == Top(t).req IN
    /\ At(t, "check")
    /\ r \in alive
    /\ IF due[r] THEN Become(t, Act("count", r, <<>>)) ELSE Return(t)
    /\ UNCHANGED <<memory, lock, slept, fault, history>>

\* Mutants of the test of times_sent: it gives up when limit requests were
\* sent, and reports the packets todo.
CountUpTo(t, limit, todo) ==
    LET r == Top(t).req IN
    /\ At(t, "count")
    /\ r \in alive
    /\ Become(t, IF times[r] >= limit THEN Act("giveup", r, todo)
                                      ELSE [Top(t) EXCEPT !.pc = "ask"])
    /\ UNCHANGED <<memory, lock, slept, fault, history>>

Count_TooEarly(t) == CountUpTo(t, MaxTries - 1, pkts[Top(t).req])

Count_TooLate(t) == CountUpTo(t, MaxTries + 1, pkts[Top(t).req])

Count_SkipsHead(t) == CountUpTo(t, MaxTries, Tail(pkts[Top(t).req]))

\* Mutant: after the last attempt the request is left alone.
Count_NeverGivesUp(t) ==
    /\ At(t, "count")
    /\ Top(t).req \in alive
    /\ IF times[Top(t).req] >= MaxTries THEN Return(t)
       ELSE Become(t, [Top(t) EXCEPT !.pc = "ask"])
    /\ UNCHANGED <<memory, lock, slept, fault, history>>

\* handle_arpreq: read req->times_sent.
Count(t) ==
    LET r == Top(t).req IN
    /\ At(t, "count")
    /\ r \in alive
    /\ Become(t, IF times[r] >= MaxTries THEN Act("giveup", r, pkts[r])
                                         ELSE [Top(t) EXCEPT !.pc = "ask"])
    /\ UNCHANGED <<memory, lock, slept, fault, history>>

\* send_arp_request, req->sent = now, and the load of req->times_sent++.
Ask(t) ==
    LET r == Top(t).req IN
    /\ At(t, "ask")
    /\ r \in alive
    /\ asked' = [asked EXCEPT ![r] = IF pkts[r] = <<>> THEN @ ELSE @ + 1]
    /\ due' = [due EXCEPT ![r] = Top(t).late]
    /\ Become(t, [Act("bump", r, <<>>) EXCEPT !.n = times[r]])
    /\ UNCHANGED <<reqs, alive, ip, times, pkts, lock, slept, fault,
                   arrived, wire, reported>>

\* The store of req->times_sent++.
Bump(t) ==
    LET r == Top(t).req IN
    /\ At(t, "bump")
    /\ r \in alive
    /\ times' = [times EXCEPT ![r] = Top(t).n + 1]
    /\ Return(t)
    /\ UNCHANGED <<reqs, alive, ip, due, pkts, lock, slept, fault, history>>

\* One round of the loop that reports host unreachable to the senders: an
\* error that can be routed is a call of route_and_send.
GiveUp(t) ==
    /\ At(t, "giveup")
    /\ Top(t).req \in alive
    /\ Top(t).todo # <<>>
    /\ LET f == Head(Top(t).todo).buf
           errors == send_icmp_error("host_unreachable", f, NoIP)
           rest == Act("giveup", Top(t).req, Tail(Top(t).todo))
       IN  \/ /\ errors = {}
              /\ Become(t, rest)
              /\ reported' = reported \cup {f}
              /\ UNCHANGED fault
           \/ \E e \in errors :
              /\ Len(stack[t]) < StackLimit
              /\ BecomeAndCall(t, rest, Act("route", NULL, <<e>>))
              /\ reported' = reported \cup {f}
              /\ UNCHANGED fault
           \/ /\ errors # {}
              /\ Len(stack[t]) >= StackLimit
              /\ fault' = "stack_overflow"
              /\ UNCHANGED <<stack, reported>>
    /\ UNCHANGED <<memory, lock, slept, arrived, wire, asked>>

\* The loops that drain or report a request's packets end in its destruction.
LoopEnd(t) ==
    /\ At(t, "giveup") \/ At(t, "drain")
    /\ Top(t).req \in alive
    /\ Top(t).todo = <<>>
    /\ Become(t, Act("destroy", Top(t).req, <<>>))
    /\ UNCHANGED <<memory, lock, slept, fault, history>>

\* Mutant: the request is freed and stays on the queue.
Destroy_KeepsLink(t) ==
    LET r == Top(t).req IN
    /\ At(t, "destroy")
    /\ LockFree(t)
    /\ r \in alive
    /\ alive' = alive \ {r}
    /\ Return(t)
    /\ UNCHANGED <<reqs, ip, times, due, pkts, lock, slept, fault, history>>

\* sr_arpreq_destroy: take the request off the queue, if it is there, and
\* free it.  Freed memory has no contents; resetting it keeps states equal.
Destroy(t) ==
    LET r == Top(t).req IN
    /\ At(t, "destroy")
    /\ LockFree(t)
    /\ r \in alive
    /\ \/ PositionsOf(r) = {} /\ UNCHANGED reqs
       \/ \E i \in First(PositionsOf(r)) : reqs' = RemoveAt(reqs, i)
    /\ alive' = alive \ {r}
    /\ ip' = [ip EXCEPT ![r] = NoIP]
    /\ times' = [times EXCEPT ![r] = 0]
    /\ due' = [due EXCEPT ![r] = TRUE]
    /\ pkts' = [pkts EXCEPT ![r] = <<>>]
    /\ asked' = [asked EXCEPT ![r] = 0]
    /\ Return(t)
    /\ UNCHANGED <<lock, slept, fault, arrived, wire, reported>>

\* The thread dereferences a request that has been freed.
UseAfterFree(t) ==
    /\ fault = "none"
    /\ stack[t] # <<>>
    /\ Top(t).req \notin alive \cup {NULL}
    /\ Top(t).pc = "destroy" => LockFree(t)
    /\ fault' = "use_after_free"
    /\ UNCHANGED <<memory, lock, stack, slept, history>>

-----------------------------------------------------------------------------
(* The sweeper and the clock.                                              *)

\* The sweeper wakes up, takes the lock and looks at the head of the queue.
SweepBegin ==
    /\ Idle("sweeper")
    /\ slept
    /\ LockFree("sweeper")
    /\ lock' = "sweeper"
    /\ slept' = FALSE
    /\ stack' = [stack EXCEPT !["sweeper"] =
                    <<Act("sweep", IF reqs = <<>> THEN NULL ELSE Head(reqs),
                          <<>>)>>]
    /\ UNCHANGED <<memory, fault, history>>

\* req->next of a queued request.
NextReq(r) ==
    LET after == {reqs[i + 1] : i \in {k \in 1..(Len(reqs) - 1) : reqs[k] = r}}
    IN  IF after = {} THEN NULL ELSE CHOOSE x \in after : TRUE

\* One round of sr_arpcache_sweepreqs: capture req->next, then handle req.
\* At the end of the queue the lock is dropped and the sweeper sleeps.
SweepStep ==
    /\ At("sweeper", "sweep")
    /\ LET r == Top("sweeper").req IN
       \/ /\ r = NULL
          /\ lock' = NULL
          /\ Return("sweeper")
          /\ UNCHANGED <<memory, slept, fault, history>>
       \/ /\ r \in alive
          /\ BecomeAndCall("sweeper", Act("sweep", NextReq(r), <<>>),
                           Act("check", r, <<>>))
          /\ UNCHANGED <<memory, lock, slept, fault, history>>

\* The second changes.  A thread that has read the clock but not yet written
\* it to req->sent now holds a time that is a second old.
Tick ==
    /\ fault = "none"
    /\ due' = [r \in Req |-> TRUE]
    /\ stack' = [t \in Thread |-> [k \in DOMAIN stack[t] |->
                    IF stack[t][k].pc \in {"count", "ask"}
                    THEN [stack[t][k] EXCEPT !.late = TRUE]
                    ELSE stack[t][k]]]
    /\ slept' = (stack["sweeper"] = <<>>)
    /\ UNCHANGED <<reqs, alive, ip, times, pkts, lock, fault, history>>

\* After undefined behaviour the model makes no more claims.
Faulted == fault # "none" /\ UNCHANGED vars

Step(t) ==
    \/ Drain(t) \/ Route(t) \/ Check(t) \/ Count(t) \/ Ask(t) \/ Bump(t)
    \/ GiveUp(t) \/ LoopEnd(t) \/ Destroy(t) \/ UseAfterFree(t)

Next ==
    \/ \E p \in Packets : HandleIp(p)
    \/ \E a \in IP : HandleArpReply(a)
    \/ \E t \in Thread : Step(t)
    \/ SweepBegin
    \/ SweepStep
    \/ Tick
    \/ Faulted

Spec == Init /\ [][Next]_vars

\* Time passes and neither thread stops for ever.  The sweeper sleeps at
\* least a second between two sweeps, so a receiver that waits for the lock
\* gets it: strong fairness for the steps that take it.
Fairness ==
    /\ WF_vars(Tick)
    /\ WF_vars(SweepBegin)
    /\ WF_vars(SweepStep)
    /\ \A t \in Thread : WF_vars(Step(t))
    /\ SF_vars(Route("receiver"))
    /\ SF_vars(Destroy("receiver"))

FairSpec == Spec /\ Fairness

-----------------------------------------------------------------------------
(* Properties.                                                             *)

\* Type correctness of the queue, the requests and the call stacks.
TypeOK ==
    /\ reqs \in Seq(Req)
    /\ alive \subseteq Req
    /\ ip \in [Req -> IP \cup {NoIP}]
    /\ times \in [Req -> Nat]
    /\ due \in [Req -> BOOLEAN]
    /\ pkts \in [Req -> Seq(QueuedPacket)]
    /\ lock \in Thread \cup {NULL}
    /\ stack \in [Thread -> Seq(Activation)]
    /\ slept \in BOOLEAN
    /\ fault \in {"none", "use_after_free", "stack_overflow"}
    /\ arrived \subseteq Packets
    /\ wire \subseteq Frame
    /\ reported \subseteq Frame
    /\ asked \in [Req -> Nat]

\* An activation of route_and_send carries the frame it is to queue.
RouteHasPacket ==
    \A t \in Thread : \A k \in DOMAIN stack[t] :
        stack[t][k].pc = "route" => stack[t][k].todo # <<>>

\* The queue never holds two requests for one next hop: sr_arpcache_queuereq
\* searches and adds under one lock, and every packet for a next hop joins
\* the request that is there.
OneRequestPerNextHop ==
    \A i, j \in DOMAIN reqs : ip[reqs[i]] = ip[reqs[j]] => i = j

\* Whatever the threads do to each other's pointers, the queue itself only
\* links memory that is still allocated, holds no request twice, and every
\* request on it has a packet waiting (handle_arpreq takes the interface of
\* the first one).
QueueIntegrity ==
    /\ \A i, j \in DOMAIN reqs : reqs[i] = reqs[j] => i = j
    /\ \A i \in DOMAIN reqs : reqs[i] \in alive /\ pkts[reqs[i]] # <<>>

\* A packet waits under the request for its own next hop.
PacketsUnderTheirNextHop ==
    \A r \in alive : \A k \in DOMAIN pkts[r] : pkts[r][k].nh = ip[r]

Refers(t, r) == \E k \in DOMAIN stack[t] : stack[t][k].req = r

\* A request that an ARP reply detached belongs to the receiver alone: it is
\* allocated until the receiver frees it, is not on the queue, and the
\* sweeper has no pointer to it, so draining it without the lock is safe.
DrainedRequestIsOwned ==
    \A k \in DOMAIN stack["receiver"] :
        LET a == stack["receiver"][k] IN
        a.pc = "drain" =>
            /\ a.req \in alive
            /\ \A i \in DOMAIN reqs : reqs[i] # a.req
            /\ ~Refers("sweeper", a.req)

\* A frame is somewhere in the router: under an allocated request, or on its
\* way to the queue.
Pending(f) ==
    \/ \E r \in alive : \E k \in DOMAIN pkts[r] : pkts[r][k].buf = f
    \/ \E t \in Thread : \E k \in DOMAIN stack[t] :
         stack[t][k].pc = "route" /\ Head(stack[t][k].todo).buf = f

\* The frames the receiver undertakes to send.  (Host unreachable errors are
\* not among them: one that is queued on a request while the other thread is
\* already giving that request up is freed with it, unsent.)
Undertaken == {q.buf : q \in UNION {handle_ip_packet(p) : p \in Packets}}

\* A packet's id names the arrival: no two of the packets share one.
IdsNameArrivals == \A p, q \in Packets : p.id = q.id => p = q

Router == INSTANCE Delivery WITH
    Item      <- Undertaken,
    pending   <- {f \in Undertaken \ (wire \cup reported) : Pending(f)},
    delivered <- wire \cap Undertaken,
    failed    <- reported \cap Undertaken,
    crashed   <- (fault # "none")

\* The queue and its two threads implement Delivery: no accepted frame is
\* lost (sr_arpreq_destroy frees none that was neither drained nor reported,
\* although the loop that reports them walks a list read without the lock)
\* and none is both sent to its next hop and reported unreachable.
ImplementsDelivery == Router!Spec

\* Every frame the router accepted is eventually sent or reported.
FramesSettle == Router!Settles

\* Giving up is earned: whoever reports host unreachable for a request that
\* is still allocated has MaxTries ARP requests on the wire for it, even if
\* the two threads overwrote each other's times_sent.
GiveUpIsEarned ==
    \A t \in Thread : \A k \in DOMAIN stack[t] :
        LET a == stack[t][k] IN
        a.pc = "giveup" /\ a.req \in alive => asked[a.req] >= MaxTries

\* The race on times_sent can overshoot the limit by one and no more: each
\* thread has at most one increment under way.
TimesSentBounded ==
    \A r \in Req : times[r] <= MaxTries + 1

\* No route leads to an address of the router itself, as in every routing
\* table that comes with the program.
NoRouteToSelf == \A i \in DOMAIN rtable : rtable[i].dest \notin OwnIP

\* An error that cannot be delivered dies quietly: no error frame is ever
\* about another error frame of this router.
ErrorsDoNotCascade ==
    \A r \in alive : \A k \in DOMAIN pkts[r] :
        pkts[r][k].buf.about \notin ErrorKind

\* Every request is eventually resolved or given up, so the queue empties
\* again and again, unless a fault stopped the router.
QueueDrains == []<>(reqs = <<>> \/ fault # "none")

-----------------------------------------------------------------------------
(* What the comments and the README say that the code does not guarantee.  *)

\* "handle_arpreq may destroy req, so capture next first": the captured next
\* request is still allocated when the sweep moves on to it.
SweepCursorLive ==
    \A k \in DOMAIN stack["sweeper"] :
        stack["sweeper"][k].pc = "sweep" =>
            stack["sweeper"][k].req \in alive \cup {NULL}

\* The pointer sr_arpcache_queuereq returned stays valid while the receiver
\* passes it to handle_arpreq.
ReturnedRequestLive ==
    \A k \in DOMAIN stack["receiver"] :
        stack["receiver"][k].req \in alive \cup {NULL}

\* After five attempts handle_arpreq reports to every queued sender and
\* destroys the request: it does not start over on a request it is already
\* giving up.
GiveUpNotReentered ==
    \A t \in Thread : \A j, k \in DOMAIN stack[t] :
        /\ stack[t][j].pc = "giveup"
        /\ stack[t][k].pc = "giveup"
        /\ stack[t][j].req = stack[t][k].req
        => j = k

\* One ARP request per second: none is sent for a request that already had
\* one in the current second.
OneRequestPerSecond ==
    [][\A r \in Req : asked'[r] > asked[r] => due[r]]_vars

\* ARP requests are sent until five have been sent, not more.
AtMostMaxTries == \A r \in Req : asked[r] <= MaxTries

\* "All queued packets share the same next hop, hence the same outgoing
\* interface": the ARP request for them goes out of the interface of the
\* first, so a packet for another interface waits for an answer that its own
\* network was never asked for.
QueuedShareInterface ==
    \A r \in alive : \A j, k \in DOMAIN pkts[r] :
        pkts[r][j].iface = pkts[r][k].iface
=============================================================================
