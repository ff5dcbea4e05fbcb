-------------------------------- MODULE Network --------------------------------
(***************************************************************************)
(* Several routers that run this code, and the hosts around them.  What a  *)
(* router does with a packet is Forwarding, instantiated with its own      *)
(* table and interfaces; how a queued frame fares is what Delivery leaves  *)
(* open: it is sent to its next hop, or the next hop is given up and the   *)
(* sender told, as handle_arpreq does.                                     *)
(***************************************************************************)
EXTENDS Naturals, Sequences, FiniteSets

CONSTANTS
    Router,
    IP, NoIP, Id, Iface,   \* as in Forwarding
    addresses,             \* addresses[r]: the interfaces of router r
    Scenarios              \* what may be given: the tables of the routers, the
                           \* packets hosts send, [at, pkt], and whether a
                           \* next hop that is there may stay silent

ErrorKind == {"time_exceeded", "net_unreachable", "host_unreachable"}

ASSUME NetworkAssumption ==
    /\ DOMAIN addresses = Router
    /\ \A s \in Scenarios :
         /\ DOMAIN s.tables = Router
         /\ \A p \in s.packets : p.at \in Router /\ p.pkt.kind \notin ErrorKind
         /\ s.mayFail \in BOOLEAN

VARIABLES
    given,     \* the scenario
    messages,  \* frames under way: arrived at a router, or in its queue
    unsent,    \* packets the hosts have not sent yet
    taken      \* what hosts received

netVars == <<given, messages, unsent, taken>>

R(r) == INSTANCE Forwarding WITH rtable <- given.tables[r], ifip <- addresses[r]

\* Kinds of payload: those of Forwarding's packets, and what routers make.
\* "errors" counts how often an error was answered by an error.
Arrived(r, pkt, what, errors) ==
    [stage |-> "arrived", at |-> r, pkt |-> pkt, what |-> what, errors |-> errors]

\* A frame that is queued: if the router made it, its payload is new.
Queued(m, q) ==
    LET what == IF q.buf.kind = "forwarded" THEN m.what ELSE q.buf.kind
    IN  [stage |-> "queued", at |-> m.at, q |-> q, what |-> what,
         errors |-> IF q.buf.kind \in ErrorKind /\ m.what \in ErrorKind
                    THEN m.errors + 1 ELSE m.errors]

NetInit ==
    /\ given \in Scenarios
    /\ messages = {}
    /\ unsent = given.packets
    /\ taken = {}

-----------------------------------------------------------------------------
HostSends(p) ==
    /\ unsent' = unsent \ {p}
    /\ messages' = messages \cup {Arrived(p.at, p.pkt, p.pkt.kind, 0)}
    /\ UNCHANGED <<given, taken>>

\* A router handles a packet that came in: at most one frame is queued.
Receive(m) ==
    LET out == R(m.at)!handle_ip_packet(m.pkt) IN
    /\ m \in messages
    /\ m.stage = "arrived"
    /\ messages' = (messages \ {m}) \cup {Queued(m, q) : q \in out}
    /\ UNCHANGED <<given, unsent, taken>>

\* The interface, if any, that answers for an address asked for by router r:
\* one does not answer oneself.
Answering(r, a) ==
    {o \in (Router \ {r}) \X Iface :
        o[2] \in DOMAIN addresses[o[1]] /\ addresses[o[1]][o[2]] = a}

HostAddress(a) == \A r \in Router : \A i \in DOMAIN addresses[r] : addresses[r][i] # a

\* How the next router reads the frame.
PacketOf(m, in) ==
    [id |-> m.q.buf.id, in |-> in, src |-> m.q.buf.src, dst |-> m.q.buf.dst,
     ttl |-> m.q.buf.ttl,
     kind |-> IF m.what \in ErrorKind \cup {"echo_reply"} THEN "icmp" ELSE m.what]

\* The next hop answers: the frame arrives at the router or host that has
\* the address.
Deliver(m) ==
    /\ m \in messages
    /\ m.stage = "queued"
    /\ \/ \E o \in Answering(m.at, m.q.nh) :
            /\ messages' = (messages \ {m}) \cup
                               {Arrived(o[1], PacketOf(m, o[2]), m.what, m.errors)}
            /\ UNCHANGED taken
       \/ /\ HostAddress(m.q.nh)
          /\ messages' = messages \ {m}
          /\ taken' = taken \cup {[host |-> m.q.nh, what |-> m.what, frame |-> m.q.buf]}
    /\ UNCHANGED <<given, unsent>>

\* Mutant: the sender is told in the name of the destination.
GiveUp_FromTarget(m) ==
    LET out == R(m.at)!send_icmp_error("host_unreachable", m.q.buf, m.q.buf.dst) IN
    /\ m \in messages
    /\ m.stage = "queued"
    /\ given.mayFail \/ (Answering(m.at, m.q.nh) = {} /\ ~HostAddress(m.q.nh))
    /\ messages' = (messages \ {m}) \cup {Queued(m, q) : q \in out}
    /\ UNCHANGED <<given, unsent, taken>>

\* Nobody answers: the sender is told, if there is a way back.
GiveUp(m) ==
    LET out == R(m.at)!send_icmp_error("host_unreachable", m.q.buf, NoIP) IN
    /\ m \in messages
    /\ m.stage = "queued"
    /\ given.mayFail \/ (Answering(m.at, m.q.nh) = {} /\ ~HostAddress(m.q.nh))
    /\ messages' = (messages \ {m}) \cup {Queued(m, q) : q \in out}
    /\ UNCHANGED <<given, unsent, taken>>

Done == messages = {} /\ unsent = {} /\ UNCHANGED netVars

Move == \E m \in messages : Receive(m) \/ Deliver(m) \/ GiveUp(m)

NetNext == (\E p \in unsent : HostSends(p)) \/ Move \/ Done

\* Routers keep handling packets, and every queued frame is settled: that is
\* what FramesSettle of ArpQueue shows of one router.
NetSpec == NetInit /\ [][NetNext]_netVars /\ WF_netVars(Move)

-----------------------------------------------------------------------------
(* Properties.                                                             *)

\* Every packet dies out, with all that was sent because of it: neither a
\* loop in the tables, whatever the routes to the hosts are, nor errors that
\* are sent about errors keep the network busy for ever.
NetworkGetsQuiet == []<>(messages = {})

\* The routers answer errors with errors (nothing in handle_ip_packet or
\* handle_arpreq looks at what a packet is); but with routes to the routers'
\* own addresses that lead there, an error about an error ends the chain.
ErrorsAboutErrors == \A m \in messages : m.errors <= 1

Own(r) == {addresses[r][i] : i \in DOMAIN addresses[r]}

\* Each address is one router's; no router has a route to itself, and a route
\* to an address of another router, if there is one, leads to that router.
NeighbourRoutes(tables) ==
    /\ \A r, s \in Router : r # s => Own(r) \cap Own(s) = {}
    /\ \A r \in Router : \A k \in DOMAIN tables[r] :
         /\ tables[r][k].dest \notin Own(r)
         /\ \A s \in Router : tables[r][k].dest \in Own(s) =>
                tables[r][k].gw = NoIP \/ tables[r][k].gw \in Own(s)

\* The echo request of a host for a router, near or far, is answered.
PingsAnswered ==
    \A p \in UNION {s.packets : s \in Scenarios} :
        p \in given.packets /\ p.pkt.kind = "echo" /\ unsent = {} ~>
            \E t \in taken : /\ t.what = "echo_reply"
                             /\ t.frame.id = p.pkt.id
                             /\ t.frame.src = p.pkt.dst
                             /\ t.host = p.pkt.src
=============================================================================
