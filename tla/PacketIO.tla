------------------------------- MODULE PacketIO -------------------------------
(***************************************************************************)
(* How frames are sent and logged: sr_send_packet and sr_log_packet        *)
(* (sr_vns_comm.c) and the packet log (sr_dumper.c), called by the         *)
(* receiver and by the sweeper without a lock between them.                *)
(*                                                                         *)
(* Each fwrite to the log is one step: stdio locks the file for the call.  *)
(* A write to the socket is one step when the kernel has room for the      *)
(* whole message; otherwise it takes a part, and while the thread waits    *)
(* for room the other thread's write may get in.  At any point the write   *)
(* may come back with less than the message.  Writes to the log succeed:   *)
(* sr_dump ignores their result.                                           *)
(***************************************************************************)
EXTENDS Integers, Sequences

CONSTANTS
    FrameId,           \* tells frames of one kind apart
    Frames,            \* the frames that are sent or received
    Parts,             \* parts the kernel may split a message into
    PACKET_DUMP_SIZE,
    EthernetHeader     \* sizeof(struct sr_ethernet_hdr)

Thread == {"receiver", "sweeper"}

\* header: whether interface name and source address are those of one of the
\* router's interfaces; dir: frames that come in are only logged.
Frame == [id : FrameId, by : Thread, len : Nat, header : {"ok", "bad"},
          dir : {"in", "out"}]

ASSUME PacketIOAssumption ==
    /\ Frames \subseteq Frame
    /\ \A f \in Frames : f.dir = "in" => f.by = "receiver"
    /\ Parts \in Nat \ {0}
    /\ PACKET_DUMP_SIZE \in Nat
    /\ EthernetHeader \in Nat

VARIABLES
    call,     \* what each thread is doing: [pc, frame, left]
    stream,   \* the message parts the kernel has accepted: [frame, part]
    logfile,  \* what was written to sr->logfile
    logstate, \* "none" without -l, "open", or "closed"
    up,       \* the connection stands
    result,   \* what became of the frames: the return value of sr_send_packet
    ended,    \* main has left its loop
    fault     \* the log was written to after it had been closed

vars == <<call, stream, logfile, logstate, up, result, ended, fault>>

Idle == [pc |-> "idle"]

Init ==
    /\ call = [t \in Thread |-> Idle]
    /\ stream = <<>>
    /\ logfile = <<>>
    /\ logstate \in {"none", "open"}
    /\ up = TRUE
    /\ result = <<>>
    /\ ended = FALSE
    /\ fault = FALSE

-----------------------------------------------------------------------------
At(t, pc) == ~fault /\ call[t].pc = pc

Enter(t, pc, f) ==
    call' = [call EXCEPT ![t] = [pc |-> pc, frame |-> f, left |-> Parts]]

Return(t, f, r) ==
    /\ call' = [call EXCEPT ![t] = Idle]
    /\ result' = [g \in DOMAIN result \cup {f} |-> IF g = f THEN r ELSE result[g]]

\* A thread turns to a frame it has not handled yet.
Fresh(t, f) ==
    /\ At(t, "idle")
    /\ t = "receiver" => ~ended
    /\ f.by = t
    /\ f \notin DOMAIN result

\* Mutant: the frame is logged once its header has been checked.
Begin_LogsLast(t, f) ==
    /\ Fresh(t, f)
    /\ Enter(t, IF f.header = "bad" \/ logstate = "none" THEN "check" ELSE "log", f)
    /\ UNCHANGED <<stream, logfile, logstate, up, result, ended, fault>>

\* sr_send_packet up to the log, or the receipt of a frame.
Begin(t, f) ==
    /\ Fresh(t, f)
    /\ IF f.dir = "out" /\ f.len < EthernetHeader
       THEN Return(t, f, -1)
       ELSE /\ Enter(t, IF logstate = "none" THEN "check" ELSE "log", f)
            /\ UNCHANGED result
    /\ UNCHANGED <<stream, logfile, logstate, up, ended, fault>>

\* Both lengths of the record's header: what is saved of the packet.
Caplen(f) == IF f.len < PACKET_DUMP_SIZE THEN f.len ELSE PACKET_DUMP_SIZE

LoggedLen(f) == IF Caplen(f) < PACKET_DUMP_SIZE THEN Caplen(f) ELSE PACKET_DUMP_SIZE

Record(what, f) ==
    [what |-> what, frame |-> f, caplen |-> Caplen(f), len |-> LoggedLen(f)]

\* Mutant: a packet that is cut gets no header.
LogHeader_WholeOnly(t) ==
    /\ At(t, "log")
    /\ logstate = "open"
    /\ logfile' = IF call[t].frame.len > PACKET_DUMP_SIZE THEN logfile
                  ELSE Append(logfile, Record("header", call[t].frame))
    /\ call' = [call EXCEPT ![t].pc = "logdata"]
    /\ UNCHANGED <<stream, logstate, up, result, ended, fault>>

\* sr_dump: the header of the record ...
LogHeader(t) ==
    /\ At(t, "log")
    /\ logstate = "open"
    /\ logfile' = Append(logfile, Record("header", call[t].frame))
    /\ call' = [call EXCEPT ![t].pc = "logdata"]
    /\ UNCHANGED <<stream, logstate, up, result, ended, fault>>

\* ... and its data.
LogData(t) ==
    /\ At(t, "logdata")
    /\ logstate = "open"
    /\ logfile' = Append(logfile, Record("data", call[t].frame))
    /\ call' = [call EXCEPT ![t].pc = "check"]
    /\ UNCHANGED <<stream, logstate, up, result, ended, fault>>

\* sr->logfile still points to the file that main closed.
LogClosed(t) ==
    /\ At(t, "log") \/ At(t, "logdata")
    /\ logstate = "closed"
    /\ fault' = TRUE
    /\ UNCHANGED <<call, stream, logfile, logstate, up, result, ended>>

\* sr_ether_addrs_match_interface; a frame that came in goes on to
\* sr_handlepacket instead.
Check(t) ==
    LET f == call[t].frame IN
    /\ At(t, "check")
    /\ IF f.dir = "in" THEN Return(t, f, 0)
       ELSE IF f.header = "bad" THEN Return(t, f, -1)
       ELSE call' = [call EXCEPT ![t].pc = "write"] /\ UNCHANGED result
    /\ UNCHANGED <<stream, logfile, logstate, up, ended, fault>>

\* Part k of a message is the k-th from its start.
Taken(t, n) ==
    LET first == Parts - call[t].left + 1
    IN  [k \in 1..n |-> [frame |-> call[t].frame, part |-> first + k - 1]]

\* Mutant: only a negative result counts as an error, so that a short write is
\* taken for a complete one.
Write_Short(t) ==
    /\ At(t, "write")
    /\ up
    /\ \E n \in 1..call[t].left : stream' = stream \o Taken(t, n)
    /\ Return(t, call[t].frame, 0)
    /\ UNCHANGED <<logfile, logstate, up, ended, fault>>

\* The kernel takes the rest of the message, or a part of it.
Write(t) ==
    /\ At(t, "write")
    /\ up
    /\ \E n \in 1..call[t].left :
         /\ stream' = stream \o Taken(t, n)
         /\ IF n = call[t].left THEN Return(t, call[t].frame, 0)
            ELSE call' = [call EXCEPT ![t].left = @ - n] /\ UNCHANGED result
    /\ UNCHANGED <<logfile, logstate, up, ended, fault>>

\* write returns -1 or less than was asked for, on a connection that is gone or
\* on one that stands (a signal, no memory): what the kernel took stays taken,
\* the rest is not sent, and the socket goes on being used.
WriteFails(t) ==
    /\ At(t, "write")
    /\ Return(t, call[t].frame, -1)
    /\ UNCHANGED <<stream, logfile, logstate, up, ended, fault>>

-----------------------------------------------------------------------------
\* The connection breaks.
Disconnect ==
    /\ ~fault
    /\ up
    /\ up' = FALSE
    /\ UNCHANGED <<call, stream, logfile, logstate, result, ended, fault>>

\* main leaves its loop between two commands and sr_destroy_instance closes
\* the log; the sweeper runs on until the process is gone.
Destroy ==
    /\ At("receiver", "idle")
    /\ ~ended
    /\ ended' = TRUE
    /\ logstate' = IF logstate = "open" THEN "closed" ELSE logstate
    /\ UNCHANGED <<call, stream, logfile, up, result, fault>>

Stopped == (ended \/ fault) /\ UNCHANGED vars

Next ==
    \/ \E t \in Thread :
         \/ \E f \in Frames : Begin(t, f)
         \/ LogHeader(t) \/ LogData(t) \/ LogClosed(t)
         \/ Check(t) \/ Write(t) \/ WriteFails(t)
    \/ Disconnect
    \/ Destroy
    \/ Stopped

Spec == Init /\ [][Next]_vars

-----------------------------------------------------------------------------
(* Properties.                                                             *)

\* Element j of seq is what the thread of element i added just before it.
Precedes(seq, j, i) ==
    /\ j < i
    /\ seq[j].frame.by = seq[i].frame.by
    /\ \A k \in (j + 1)..(i - 1) : seq[k].frame.by # seq[i].frame.by

\* The frames sr_send_packet has returned an error for.
Refused == {f \in DOMAIN result : result[f] = -1}

\* A frame is reported as sent exactly when its last part was taken.
SuccessMeansSent ==
    \A f \in DOMAIN result :
        f.dir = "out" =>
            (result[f] = 0 <=> \E i \in DOMAIN stream :
                                  stream[i] = [frame |-> f, part |-> Parts])

\* The parts of a message follow one another among those of its thread, and a
\* message starts behind an incomplete one only if that one was refused.
BreaksReported ==
    \A i \in DOMAIN stream :
        IF stream[i].part = 1
        THEN \A j \in DOMAIN stream :
                Precedes(stream, j, i) =>
                    stream[j].part = Parts \/ stream[j].frame \in Refused
        ELSE \E j \in DOMAIN stream :
                /\ Precedes(stream, j, i)
                /\ stream[j] = [frame |-> stream[i].frame, part |-> stream[i].part - 1]

\* The results of sr_send_packet tell what is in the stream, although two
\* threads write to it without a lock and any write may come back short: 0 is
\* returned for the messages that are complete and for no others, and wherever
\* a thread has left one incomplete and gone on, it has returned -1 for it.
ResultTellsStream == SuccessMeansSent /\ BreaksReported

\* Each thread for itself keeps the log in step: the data of a frame comes after
\* its own header, and a header after the data of another.
OwnRecordsWhole ==
    \A i \in DOMAIN logfile :
        IF logfile[i].what = "header"
        THEN \A j \in DOMAIN logfile :
                Precedes(logfile, j, i) => logfile[j].what = "data"
        ELSE \E j \in DOMAIN logfile :
                /\ Precedes(logfile, j, i)
                /\ logfile[j] = Record("header", logfile[i].frame)

\* "problem with ethernet header, check log": whatever was refused for its
\* header, and whatever the server got a part of, is in the log by then.
LogShowsIt ==
    logstate = "open" =>
        \A f \in Frames :
            \/ f.len >= EthernetHeader /\ f \in DOMAIN result
            \/ \E i \in DOMAIN stream : stream[i].frame = f
            => \E i \in DOMAIN logfile : logfile[i] = Record("data", f)

-----------------------------------------------------------------------------
(* What the comments say that the code does not guarantee.                 *)

\* "Send a packet of length 'len' to the server": a frame that was sent is in
\* the stream in one piece.
SentInOnePiece ==
    \A f \in DOMAIN result :
        result[f] = 0 /\ f.dir = "out" =>
            \E i \in DOMAIN stream :
                /\ i + Parts - 1 <= Len(stream)
                /\ \A k \in 1..Parts : stream[i + k - 1] = [frame |-> f, part |-> k]

\* "Send a packet [...] to the server to be injected onto the wire": what the
\* server can read is a sequence of messages, at least those of one thread
\* taken alone.  After a short write the thread's next message starts where the
\* server still expects the rest of the one before.
OwnMessagesWhole ==
    \A i, j \in DOMAIN stream :
        stream[i].part = 1 /\ Precedes(stream, j, i) => stream[j].part = Parts

\* "Logging packets in tcpdump format": the log is a sequence of records.
LogIsTcpdump ==
    \A i \in DOMAIN logfile :
        IF logfile[i].what = "header"
        THEN i = 1 \/ logfile[i - 1].what = "data"
        ELSE i > 1 /\ logfile[i - 1] = Record("header", logfile[i].frame)

\* "length this packet (off wire)": the header of a record has the length the
\* packet had on the wire.
LoggedLenIsOffWire ==
    \A i \in DOMAIN logfile : logfile[i].len = logfile[i].frame.len

\* "Output a packet to the initialized dump file": the file that sr_dump is
\* given is open.
LogOpenWhenWritten == ~fault
=============================================================================
