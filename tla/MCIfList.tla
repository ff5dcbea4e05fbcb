------------------------------- MODULE MCIfList -------------------------------
(***************************************************************************)
(* Files of up to three lines: complete ones, one with an extra word,      *)
(* blank ones, short ones and one with a word that is no address.  Then a  *)
(* server that announces both interfaces the files name, one of them, or   *)
(* one that is new or repeated, twice at most; six nodes hold all of it.   *)
(***************************************************************************)
EXTENDS IfList, TLC

Lines == { <<>>, <<"x">>, <<"y", "x">>, <<"x", "y", "x", "e1">>,
           <<"x", "x", "x", "e2">>, <<"y", "y", "x", "e2", "e1">>,
           <<"y", "e1", "x", "e2">> }

MCFiles == UNION {[1..n -> Lines] : n \in 0..3}

\* No address, or what an earlier call left in the same place.
MCStack == { <<"e1", "e1", "e1", "e1">>, <<"z", "z", "z", "z">>, <<"z", "z", "x", "e1">> }

MCOldTables == { <<>>, << <<"z", "z", "x", "e1">> >> }

MCHwInfo == { <<"e1">>, <<"e2", "e1">>, <<"e3">>, <<"e1", "e2", "e3">> }

NodeSymmetry == Permutations(Node)
=============================================================================
