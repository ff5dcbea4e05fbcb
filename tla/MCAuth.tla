-------------------------------- MODULE MCAuth --------------------------------
(***************************************************************************)
(* Keys of two characters, the same with an end of line as in the          *)
(* repository's auth_key or with more behind it, and an empty file.        *)
(*                                                                         *)
(* Blocks have six places; the length carries into its high word after     *)
(* every four octets and overflows at twelve, in the third block.  With    *)
(* the salts the key ends at every place of a block, and the octets are    *)
(* those padding consists of.                                              *)
(***************************************************************************)
EXTENDS Auth

Char == Octet \ {0, Newline}

FullKeys ==
    LET keys == [1..AUTH_KEY_LEN -> Char]
    IN  keys \cup {Append(k, Newline) : k \in keys}
             \cup {k \o <<Newline, 128>> : k \in keys}
             \cup {<<>>}

MCSalts ==
    UNION {[1..n -> {0, 128}] : n \in 0..3} \cup
    UNION {{[i \in 1..n |-> IF i < n THEN b ELSE c] : b, c \in {0, 128}} : n \in 4..11}

\* All of these fill the buffer, but for the empty file.
ASSUME MCAuthAssumption == KeysFull
=============================================================================
