------------------------------ MODULE Delivery ------------------------------
(***************************************************************************)
(* What the router promises about the frames it accepts, without queues,   *)
(* threads or retries: a frame is pending until it is either delivered to  *)
(* its next hop or given up and reported to its sender, and never both.    *)
(* A crash ends the promise.                                               *)
(***************************************************************************)
CONSTANT Item

VARIABLES pending, delivered, failed, crashed

vars == <<pending, delivered, failed, crashed>>

Init ==
    /\ pending = {}
    /\ delivered = {}
    /\ failed = {}
    /\ crashed = FALSE

Accept(i) ==
    /\ i \notin pending \cup delivered \cup failed
    /\ pending' = pending \cup {i}
    /\ UNCHANGED <<delivered, failed>>

Deliver(i) ==
    /\ i \in pending
    /\ pending' = pending \ {i}
    /\ delivered' = delivered \cup {i}
    /\ UNCHANGED failed

Fail(i) ==
    /\ i \in pending
    /\ pending' = pending \ {i}
    /\ failed' = failed \cup {i}
    /\ UNCHANGED delivered

Crash == crashed' = TRUE /\ UNCHANGED <<pending, delivered, failed>>

Next ==
    /\ ~crashed
    /\ \/ Crash
       \/ /\ \E i \in Item : Accept(i) \/ Deliver(i) \/ Fail(i)
          /\ UNCHANGED crashed

Spec == Init /\ [][Next]_vars

\* Unless the router crashes, every accepted frame is settled.
Settles ==
    \A i \in Item : i \in pending ~> crashed \/ i \in delivered \cup failed
=============================================================================
