------------------------------- MODULE MCNetwork -------------------------------
(***************************************************************************)
(* Two kinds of scenario.  h1 - A - B - h2, with any routes to the hosts   *)
(* and next hops that may fall silent (C has no routes and takes no part); *)
(* and h1 - A - B - C with the right routes.  Routers are named by         *)
(* letters, their interfaces by the letter and a number, from left to      *)
(* right; the address of an interface is its name in capitals.             *)
(***************************************************************************)
EXTENDS Network

MCIP == {"h1", "h2", "A1", "A2", "B1", "B2", "C1", "C2"}

MCIface == {"a1", "a2", "b1", "b2", "c1", "c2"}

MCaddresses ==
    [r \in Router |-> CASE r = "A" -> [a1 |-> "A1", a2 |-> "A2"]
                        [] r = "B" -> [b1 |-> "B1", b2 |-> "B2"]
                        [] r = "C" -> [c1 |-> "C1", c2 |-> "C2"]]

Route(d, gw, i) == [dest |-> d, gw |-> gw, iface |-> i]

\* No route to a host, or one in either direction.
Routes(d, left, i, right, j) ==
    { <<>>, <<Route(d, left, i)>>, <<Route(d, right, j)>> }

\* The neighbour's addresses are reached through it, or not at all.
AnyHostRoutes ==
    { [r \in Router |-> CASE r = "A" -> t[1] \o t[2] \o t[5]
                          [] r = "B" -> t[3] \o t[4] \o t[6]
                          [] r = "C" -> <<>>] :
        t \in Routes("h1", "none", "a1", "B1", "a2")
              \X Routes("h2", "none", "a1", "B1", "a2")
              \X Routes("h1", "A2", "b1", "none", "b2")
              \X Routes("h2", "A2", "b1", "none", "b2")
              \X { <<>>, <<Route("B1", "none", "a2"), Route("B2", "B1", "a2")>> }
              \X { <<>>, <<Route("A2", "none", "b1"), Route("A1", "A2", "b1")>> } }

ASSUME MCNetworkAssumption == \A t \in AnyHostRoutes : NeighbourRoutes(t)

RightRoutes ==
    { [r \in Router |->
        CASE r = "A" -> << Route("h1", "none", "a1"), Route("B1", "none", "a2"),
                           Route("C1", "B1", "a2"), Route("C2", "B1", "a2") >>
          [] r = "B" -> << Route("h1", "A2", "b1"), Route("A2", "none", "b1"),
                           Route("C1", "none", "b2"), Route("C2", "C1", "b2") >>
          [] r = "C" -> << Route("h1", "B2", "c1"), Route("A2", "B2", "c1") >>] }

From(id, at, in, src, dst, ttl, kind) ==
    [at |-> at, pkt |-> [id |-> id, in |-> in, src |-> src, dst |-> dst,
                         ttl |-> ttl, kind |-> kind]]

\* A packet from one host to the other; the routes are as many in either
\* direction.  Network settles each frame by itself: packets that meet on one
\* request, and give-ups that nest, are the subject of ArpQueue.
Traffic == { From(1, "A", "a1", "h1", "h2", 4, "other") }

\* Pings of a near and a far address, and what traceroute sends.
PingsAndProbes ==
    { From(1, "A", "a1", "h1", "A1", 64, "echo"),
      From(2, "A", "a1", "h1", "C2", 64, "echo"),
      From(3, "A", "a1", "h1", "C2", 1, "other"),
      From(4, "A", "a1", "h1", "C2", 2, "other"),
      From(5, "A", "a1", "h1", "C2", 3, "echo") }

Scenario(t, packets, mayFail) ==
    [tables |-> t, packets |-> packets, mayFail |-> mayFail]

MCScenarios ==
    {Scenario(t, Traffic, TRUE) : t \in AnyHostRoutes}
      \cup
    {Scenario(t, PingsAndProbes, FALSE) : t \in RightRoutes}

\* With the right routes the n-th router on the way from h1 reports a packet
\* whose TTL was n, from the address the packet reached it at: what
\* traceroute relies on.  The probe that gets to the last router is an echo
\* request for it and is answered, so no error may come from there.
TracerouteNamesRouters ==
    given.tables \in RightRoutes =>
        \A t \in taken : \A p \in given.packets :
            t.what = "time_exceeded" /\ t.frame.id = p.pkt.id =>
                t.host = "h1" /\ t.frame.src = <<"A1", "B1", "C1">>[p.pkt.ttl]
=============================================================================
