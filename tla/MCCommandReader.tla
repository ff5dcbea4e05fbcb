---------------------------- MODULE MCCommandReader ----------------------------
(***************************************************************************)
(* The shortest command (a bare c_base), a longer one, the longest that is *)
(* taken, and two with lengths that are refused.  A reader out of step     *)
(* finds a length out of range.                                            *)
(***************************************************************************)
EXTENDS CommandReader

MCCommands == { [id |-> 1, len |-> 8], [id |-> 2, len |-> 11],
                [id |-> 3, len |-> 13], [id |-> 4, len |-> 14],
                [id |-> 5, len |-> -1] }
=============================================================================
