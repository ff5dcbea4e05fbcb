------------------------------ MODULE MCPacketIO ------------------------------
(***************************************************************************)
(* The receiver sends two frames and receives one that is longer than the  *)
(* log saves; the sweeper sends an ARP request, a frame with a header that *)
(* is refused and one that is too short.                                   *)
(***************************************************************************)
EXTENDS PacketIO, TLC

CONSTANTS a, b, other

Fr(id, by, len, header, dir) ==
    [id |-> id, by |-> by, len |-> len, header |-> header, dir |-> dir]

MCFrames ==
    { Fr(a, "receiver", 98, "ok", "out"), Fr(b, "receiver", 98, "ok", "out"),
      Fr(other, "receiver", 1514, "ok", "in"), Fr(other, "sweeper", 42, "ok", "out"),
      Fr(other, "sweeper", 70, "bad", "out"), Fr(other, "sweeper", 10, "ok", "out") }

\* The two frames of the receiver differ in nothing but their names.
Symmetry == Permutations({a, b})
=============================================================================
