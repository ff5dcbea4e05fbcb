------------------------------ MODULE MCArpQueue ------------------------------
(***************************************************************************)
(* Two networks behind the router.  h1 is a gateway: h3 is reached through *)
(* it.  h2 is directly attached (gw 0 in the table).  h4 can send but has  *)
(* no route back, so errors to it are dropped.                             *)
(***************************************************************************)
EXTENDS ArpQueue

MCIP == {"h1", "h2", "h3", "h4", "r1", "r2"}

MCIface == {"e1", "e2"}

MCifip == [i \in MCIface |-> IF i = "e1" THEN "r1" ELSE "r2"]

MCrtable == << [dest |-> "h1", gw |-> "h1",   iface |-> "e1"],
               [dest |-> "h2", gw |-> "none", iface |-> "e2"],
               [dest |-> "h3", gw |-> "h1",   iface |-> "e1"] >>

Pk(id, in, src, dst) ==
    [id |-> id, in |-> in, src |-> src, dst |-> dst, ttl |-> 64,
     kind |-> "other"]

\* Two flows in opposite directions: the error about either packet is queued
\* on the request the other packet waits for.
Crossing == { Pk(1, "e1", "h1", "h2"), Pk(2, "e2", "h2", "h3") }

ASSUME NoRouteToSelf /\ IdsNameArrivals

ReqSymmetry == Permutations(Req)
=============================================================================
