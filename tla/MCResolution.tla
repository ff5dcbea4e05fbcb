----------------------------- MODULE MCResolution -----------------------------
(***************************************************************************)
(* Three routers in a row, with a link on either side of the middle one.   *)
(* The first one also has a packet whose next hop is the far address of    *)
(* the middle one, which is not on its link.                               *)
(***************************************************************************)
EXTENDS Resolution

MCIface == {"a1", "b1", "b2", "c2"}

MCrouter == [i \in MCIface |-> CASE i = "a1" -> "A"
                                 [] i = "c2" -> "C"
                                 [] OTHER -> "B"]

MClink == [i \in MCIface |-> IF i \in {"a1", "b1"} THEN 1 ELSE 2]

MCPackets == { [id |-> 1, iface |-> "a1", nh |-> "b1"],
               [id |-> 2, iface |-> "a1", nh |-> "b2"],
               [id |-> 3, iface |-> "b1", nh |-> "a1"],
               [id |-> 4, iface |-> "b2", nh |-> "c2"],
               [id |-> 5, iface |-> "b2", nh |-> "c2"] }

\* The instance is one of those the theorem on FramesReachNextHop is about.
ASSUME RoutesAreLocal
=============================================================================
