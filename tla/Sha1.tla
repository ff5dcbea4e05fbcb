--------------------------------- MODULE Sha1 ---------------------------------
(***************************************************************************)
(* The SHA-1 context (sha1.c): octets collected into blocks, the bit count *)
(* in two words with a carry, the padding that may need one more block,    *)
(* and the flags that keep a digest from being used for another message.   *)
(*                                                                         *)
(* The compression function is taken as free: a digest is the sequence of  *)
(* the blocks that went into it, so that two digests are equal just when   *)
(* they must be.  The sizes are parameters: the code has blocks of 64      *)
(* octets, the last eight of the padded message being two words of 32      *)
(* bits; here a word of the length fills one place of a block.             *)
(***************************************************************************)
EXTENDS Naturals, Sequences

CONSTANTS
    Block,     \* places in a block
    LowMod,    \* Length_Low counts modulo this (2^32 in the code)
    HighMod    \* Length_High counts modulo this (2^32 in the code)

\* The first place of the length: 56 in the code.
LengthAt == Block - 2

ASSUME Sha1Assumption ==
    /\ Block \in Nat /\ Block > 3
    /\ LowMod \in Nat /\ LowMod > 0 /\ LowMod % 8 = 0
    /\ HighMod \in Nat /\ HighMod > 1

-----------------------------------------------------------------------------
(* The functions, on a context.                                            *)

\* A block that was never written holds what was on the stack: zeros here,
\* every place is written before it is read.
SHA1Reset ==
    [Length_Low |-> 0, Length_High |-> 0,
     Message_Block |-> [i \in 0..Block - 1 |-> 0], Message_Block_Index |-> 0,
     Message_Digest |-> <<>>, Computed |-> FALSE, Corrupted |-> FALSE]

SHA1ProcessMessageBlock(c) ==
    [c EXCEPT !.Message_Digest = Append(@, c.Message_Block),
              !.Message_Block_Index = 0]

\* Message_Block[Message_Block_Index++] = o
Put(c, o) ==
    [c EXCEPT !.Message_Block[c.Message_Block_Index] = o,
              !.Message_Block_Index = @ + 1]

\* The zeros from the index up to place n.
PutZeros(c, n) ==
    [c EXCEPT !.Message_Block =
                  [i \in DOMAIN @ |-> IF i \in c.Message_Block_Index..n - 1
                                      THEN 0 ELSE @[i]],
              !.Message_Block_Index = n]

\* Mutant: the count of bits may start again from zero.
CountOctet_Wraps(c) ==
    LET low == (c.Length_Low + 8) % LowMod
    IN  [c EXCEPT !.Length_Low = low,
                  !.Length_High = IF low = 0 THEN (@ + 1) % HighMod ELSE @]

\* Eight more bits; a message whose length needs a third word is too long.
CountOctet(c) ==
    LET low  == (c.Length_Low + 8) % LowMod
        high == IF low = 0 THEN (c.Length_High + 1) % HighMod ELSE c.Length_High
    IN  [c EXCEPT !.Length_Low = low,
                  !.Length_High = high,
                  !.Corrupted = low = 0 /\ high = 0]

\* One turn of the loop; after the length has overflowed there is no other.
InputOctet(c, o) ==
    LET d == CountOctet(Put(c, o))
    IN  IF c.Corrupted THEN c
        ELSE IF d.Message_Block_Index = Block THEN SHA1ProcessMessageBlock(d) ELSE d

SHA1Input(c, chunk) ==
    LET after[n \in 0..Len(chunk)] ==
            IF n = 0 THEN c ELSE InputOctet(after[n - 1], chunk[n])
    IN  IF chunk = <<>> THEN c
        ELSE IF c.Computed \/ c.Corrupted THEN [c EXCEPT !.Corrupted = TRUE]
        ELSE after[Len(chunk)]

\* Mutant: a block with just one place left before the length is full.
PadBody_OneLess(c) ==
    IF c.Message_Block_Index > LengthAt
    THEN PutZeros(SHA1ProcessMessageBlock(PutZeros(Put(c, 128), Block)), LengthAt)
    ELSE PutZeros(Put(c, 128), LengthAt)

\* The octet 0x80 and zeros up to the place of the length, in a second block
\* if the first has no room for both.
PadBody(c) ==
    IF c.Message_Block_Index > LengthAt - 1
    THEN PutZeros(SHA1ProcessMessageBlock(PutZeros(Put(c, 128), Block)), LengthAt)
    ELSE PutZeros(Put(c, 128), LengthAt)

SHA1PadMessage(c) ==
    LET d == PadBody(c)
    IN  SHA1ProcessMessageBlock(
            [d EXCEPT !.Message_Block[LengthAt] = d.Length_High,
                      !.Message_Block[LengthAt + 1] = d.Length_Low])

\* The context after the call, which returns 0 if the context is corrupted.
SHA1Result(c) ==
    IF c.Corrupted \/ c.Computed THEN c
    ELSE [SHA1PadMessage(c) EXCEPT !.Computed = TRUE]

-----------------------------------------------------------------------------
(* The reference.                                                          *)

\* The padding of FIPS 180-1, section 4: a 1 bit, the least number of zeros
\* that fills blocks up, and the length of the message in bits.
Padded(m) ==
    LET bits  == 8 * Len(m)
        zeros == CHOOSE k \in 0..Block - 1 : (Len(m) + 1 + k + 2) % Block = 0
    IN  m \o <<128>> \o [i \in 1..zeros |-> 0] \o <<bits \div LowMod, bits % LowMod>>

\* The digest of a message: the blocks of the padded message.
Digest(m) ==
    LET p == Padded(m)
    IN  [b \in 1..Len(p) \div Block |->
            [i \in 0..Block - 1 |-> p[(b - 1) * Block + i + 1]]]
=============================================================================
