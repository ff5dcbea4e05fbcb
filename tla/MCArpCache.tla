------------------------------ MODULE MCArpCache ------------------------------
(***************************************************************************)
(* Two packets that wait for the same next hop, h2; of their senders h1    *)
(* can be told, h4 cannot.  h2 replies any number of times, asked or not,  *)
(* into a table of two slots.                                              *)
(***************************************************************************)
EXTENDS ArpCache

MCIP == {"h1", "h2", "h4", "r1", "r2"}

MCIface == {"e1", "e2"}

MCifip == [i \in MCIface |-> IF i = "e1" THEN "r1" ELSE "r2"]

MCrtable == << [dest |-> "h1", gw |-> "h1",   iface |-> "e1"],
               [dest |-> "h2", gw |-> "none", iface |-> "e2"] >>

Pk(id, in, src, dst) ==
    [id |-> id, in |-> in, src |-> src, dst |-> dst, ttl |-> 64,
     kind |-> "other"]

MCPackets == { Pk(1, "e1", "h1", "h2"), Pk(2, "e2", "h4", "h2") }

MCReplies == { [ip |-> "h2", mac |-> "m2"] }
=============================================================================
