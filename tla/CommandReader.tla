----------------------------- MODULE CommandReader -----------------------------
(***************************************************************************)
(* The loops of sr_read_from_server_expect (sr_vns_comm.c) that put the    *)
(* server's commands together from a stream of bytes: first the length,    *)
(* then the rest.  recv returns as many bytes as it likes, may be          *)
(* interrupted, and the connection may break or be closed at any point.    *)
(* Session takes a command for one message; this module shows it may.      *)
(***************************************************************************)
EXTENDS Integers, Sequences

CONSTANTS
    Commands,      \* what the server may send: [id, len]
    LengthBytes,   \* size of the length field, 4
    MaxLength,     \* longest command taken, 10000
    StrayLength,   \* what bytes that are not a length field make as one
    MaxSent        \* bound: commands the server sends

ASSUME CommandReaderAssumption ==
    /\ Commands \subseteq [id : Nat, len : Int]
    /\ LengthBytes \in Nat \ {0}
    /\ MaxLength \in Nat
    /\ StrayLength \in Int
    /\ MaxSent \in Nat

VARIABLES
    sent,        \* history: the commands sent
    wire,        \* bytes on their way
    connection,  \* "up", "closed" by the server, or "lost"
    pc,          \* "length", "body", or "failed" (-1 was returned)
    buf,         \* the bytes of the current command read so far
    received     \* the commands handed on, as their bytes

readerVars == <<sent, wire, connection, pc, buf, received>>

\* A byte is known by the command it belongs to and its place there.  The
\* server of a command with an absurd length sends no more than the length.
Bytes(c) ==
    [k \in 1..(IF c.len \in LengthBytes..MaxLength THEN c.len ELSE LengthBytes) |->
        <<c, k>>]

ReaderInit ==
    /\ sent = <<>>
    /\ wire = <<>>
    /\ connection = "up"
    /\ pc = "length"
    /\ buf = <<>>
    /\ received = <<>>

-----------------------------------------------------------------------------
(* The server and the network (external).                                  *)

ServerSends(c) ==
    /\ connection = "up"
    /\ Len(sent) < MaxSent
    /\ sent' = Append(sent, c)
    /\ wire' = wire \o Bytes(c)
    /\ UNCHANGED <<connection, pc, buf, received>>

\* The end of the stream, or a broken connection: what is under way when it
\* breaks may be gone.
ServerStops ==
    /\ connection = "up"
    /\ \/ connection' = "closed" /\ UNCHANGED wire
       \/ connection' = "lost" /\ wire' \in {wire, <<>>}
    /\ UNCHANGED <<sent, pc, buf, received>>

-----------------------------------------------------------------------------
(* The process.                                                            *)

\* ntohl of the first bytes read: the command's length if they are its length
\* field, and anything if the reader is out of step.
Length ==
    LET c == buf[1][1]
    IN  IF \A k \in 1..LengthBytes : buf[k] = <<c, k>> THEN c.len ELSE StrayLength

\* Mutant: the length field is not counted as a part of the command.
Wanted_WithoutField ==
    IF pc = "length" THEN LengthBytes - Len(buf) ELSE LengthBytes + Length - Len(buf)

\* How many bytes the next recv or read asks for.
Wanted ==
    IF pc = "length" THEN LengthBytes - Len(buf) ELSE Length - Len(buf)

Recv ==
    /\ pc \in {"length", "body"}
    /\ Wanted > 0
    /\ \E n \in 1..Wanted :
         /\ n <= Len(wire)
         /\ buf' = buf \o SubSeq(wire, 1, n)
         /\ wire' = SubSeq(wire, n + 1, Len(wire))
    /\ UNCHANGED <<sent, connection, pc, received>>

\* EINTR: tried again.  The end of the stream: 0 bytes, tried again too, for
\* ever.
RecvNothing ==
    /\ pc \in {"length", "body"}
    /\ Wanted > 0
    /\ wire = <<>>
    /\ connection \in {"up", "closed"}
    /\ UNCHANGED readerVars

RecvFails ==
    /\ pc \in {"length", "body"}
    /\ Wanted > 0
    /\ connection = "lost"
    /\ pc' = "failed"
    /\ UNCHANGED <<sent, wire, connection, buf, received>>

\* Mutant: the longest command is refused.
InRange_Strict(len) == len >= 0 /\ len < MaxLength

InRange(len) == len >= 0 /\ len <= MaxLength

\* The length is known: go on with the body, or close the socket.
CheckLength ==
    /\ pc = "length"
    /\ Wanted = 0
    /\ IF InRange(Length)
       THEN pc' = "body" /\ UNCHANGED connection
       ELSE pc' = "failed" /\ connection' = "closed"
    /\ UNCHANGED <<sent, wire, buf, received>>

\* The command is complete and goes to its handler.
HandOn ==
    /\ pc = "body"
    /\ Wanted <= 0
    /\ received' = Append(received, buf)
    /\ buf' = <<>>
    /\ pc' = "length"
    /\ UNCHANGED <<sent, wire, connection>>

Failed == pc = "failed" /\ UNCHANGED readerVars

Reader == Recv \/ RecvFails \/ CheckLength \/ HandOn

ReaderNext ==
    \/ \E c \in Commands : ServerSends(c)
    \/ ServerStops
    \/ Reader
    \/ RecvNothing
    \/ Failed

\* Bytes that have arrived are read: the loop does nothing else.
ReaderSpec == ReaderInit /\ [][ReaderNext]_readerVars /\ WF_readerVars(Reader)

-----------------------------------------------------------------------------
(* Properties.                                                             *)

\* The connection has done its part for a command as soon as it is sent.  A
\* session that ends takes with it what was not handed on.
Commanded == INSTANCE Channel WITH
    Message <- {Bytes(c) : c \in Commands},
    sent <- [i \in DOMAIN sent |-> Bytes(sent[i])],
    ended <- (pc = "failed")

\* However the bytes are cut up by recv, the reader implements Channel: the
\* commands come out whole and in order, and as long as it does not fail
\* every command that was sent comes out, those before the end of the stream
\* too.
ImplementsChannel == Commanded!Spec

\* The reader gives up only for a reason: the connection broke, or the next
\* command has a length out of range.  No sequence of short reads, and no end
\* of the stream, makes it take the middle of a command for a length.
FailsForCause ==
    pc = "failed" =>
        \/ connection = "lost"
        \/ /\ Len(received) < Len(sent)
           /\ sent[Len(received) + 1].len \notin 0..MaxLength
=============================================================================
