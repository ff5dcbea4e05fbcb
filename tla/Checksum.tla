------------------------------- MODULE Checksum -------------------------------
(***************************************************************************)
(* cksum (sr_utils.c) and its use by the data path (sr_router.c): an IP    *)
(* header that passes several routers like this one, or an ICMP echo       *)
(* request that one of them answers, between two hosts that follow RFC     *)
(* 1071, over links that may damage a byte.                                *)
(*                                                                         *)
(* A message is the sequence of its bytes.  Header and echo message keep   *)
(* the fields the router changes in the same places: the TTL or the ICMP   *)
(* type and code in the first two bytes, the checksum in the next two; the *)
(* real offsets have the same parity, which is all a sum of words can see. *)
(***************************************************************************)
EXTENDS Naturals, Sequences

CONSTANTS
    Octets,     \* the bytes messages are made of
    Lengths,    \* lengths of messages
    PadLengths, \* zero bytes a short Ethernet frame may be filled up with
    MaxHops     \* bound: routers between the two hosts

Byte == 0..255

ASSUME ChecksumAssumption ==
    /\ Octets \subseteq Byte
    /\ Lengths \subseteq Nat /\ \A n \in Lengths : 4 <= n /\ n <= 65535
    /\ PadLengths \subseteq Nat /\ \A p \in PadLengths : p <= 60
    /\ MaxHops \in Nat

VARIABLES
    kind,     \* "header" or "echo"
    frame,    \* the bytes on the link, padding included
    len,      \* the length of the message proper
    sent,     \* history: the bytes as the last sender put them on the link
    by,       \* history: who that was, a "host" or a "router"
    hops,     \* history: routers passed
    at        \* "link", or what became of the message

vars == <<kind, frame, len, sent, by, hops, at>>

-----------------------------------------------------------------------------
(* cksum.                                                                  *)

\* The word at an odd position; a last odd byte is its high half.
Word(data, i) == data[i] * 256 + IF i < Len(data) THEN data[i + 1] ELSE 0

\* The loop that adds them up, as the sums after each byte.
Sums(data) ==
    LET sum[n \in 0..Len(data)] ==
            IF n = 0 THEN 0
            ELSE sum[n - 1] + IF n % 2 = 1 THEN Word(data, n) ELSE 0
    IN  sum

WordSum(data) == Sums(data)[Len(data)]

\* The loop that folds the carries back in.
folded[sum \in Nat] ==
    IF sum > 65535 THEN folded[(sum \div 65536) + (sum % 65536)] ELSE sum

\* Mutant: the odd byte is the low half of its word.
cksum_OddByteLow(data) ==
    LET n == Len(data)
        c == 65535 - folded[IF n % 2 = 0 THEN WordSum(data)
                            ELSE WordSum(SubSeq(data, 1, n - 1)) + data[n]]
    IN  IF c = 0 THEN 65535 ELSE c

\* As a number in network byte order; 0 is replaced by 0xffff.
cksum(data) ==
    LET c == 65535 - folded[WordSum(data)] IN IF c = 0 THEN 65535 ELSE c

-----------------------------------------------------------------------------
(* Hosts (external): RFC 1071, computed without folding.                   *)

Field(data) == data[3] * 256 + data[4]

WithSum(data, sum) == [data EXCEPT ![3] = sum \div 256, ![4] = sum % 256]

Rfc1071(data) ==
    LET s == WordSum(data)
    IN  IF s > 0 /\ s % 65535 = 0 THEN 0 ELSE 65535 - (s % 65535)

\* The words, checksum included, add up to all ones.
Valid(data) == WordSum(data) > 0 /\ WordSum(data) % 65535 = 0

Contents == {d \in UNION {[1..n -> Octets] : n \in Lengths} : d[3] = 0 /\ d[4] = 0}

EchoRequest == 8

Init ==
    /\ kind \in {"header", "echo"}
    /\ \E d \in Contents, p \in PadLengths :
         /\ IF kind = "echo"
            THEN d[1] = EchoRequest /\ d[2] = 0
            ELSE d[1] # 0 /\ Len(d) % 4 = 0 /\ p = 0
         /\ len = Len(d)
         /\ frame = WithSum(d, Rfc1071(d)) \o [k \in 1..p |-> 0]
    /\ sent = frame
    /\ by = "host"
    /\ hops = 0
    /\ at = "link"

\* A link damages one byte of a frame (at most once per link).
Damage ==
    /\ at = "link"
    /\ frame = sent
    /\ \E i \in DOMAIN frame, b \in Octets : frame' = [frame EXCEPT ![i] = b]
    /\ UNCHANGED <<kind, len, sent, by, hops, at>>

HostReceives ==
    /\ at = "link"
    /\ hops > 0
    /\ at' = IF Valid(SubSeq(frame, 1, len)) THEN "accepted" ELSE "rejected"
    /\ UNCHANGED <<kind, frame, len, sent, by, hops>>

-----------------------------------------------------------------------------
(* The router.                                                             *)

\* Mutant: the checksum is not looked at.
Verified_Always(data) == TRUE

\* Save the field, clear it, compute, compare.
Verified(data) == Field(data) = cksum(WithSum(data, 0))

Emit(data) ==
    /\ frame' = data
    /\ sent' = data
    /\ by' = "router"
    /\ hops' = hops + 1
    /\ UNCHANGED <<kind, len, at>>

Drop(why) == at' = why /\ UNCHANGED <<kind, frame, len, sent, by, hops>>

\* Mutant: the checksum is not computed again.
Forward_StaleSum(data) == [data EXCEPT ![1] = @ - 1]

\* The copy that handle_ip_packet forwards.
Forward(data) ==
    LET copy == WithSum([data EXCEPT ![1] = @ - 1], 0)
    IN  WithSum(copy, cksum(copy))

\* handle_ip_packet, as far as it depends on the checksum of the header.
HandleHeader ==
    /\ at = "link"
    /\ kind = "header"
    /\ hops < MaxHops
    /\ \/ ~Verified(frame) /\ Drop("dropped")
       \/ Verified(frame) /\ frame[1] <= 1 /\ Drop("expired")
       \/ Verified(frame) /\ frame[1] > 1 /\ Emit(Forward(frame))

\* Type and code become 0; the sum covers all that came in, padding included.
EchoReply(data) ==
    LET reply == WithSum([data EXCEPT ![1] = 0, ![2] = 0], 0)
    IN  WithSum(reply, cksum(reply))

\* The echo branch of handle_ip_packet, and send_icmp_echo_reply.
HandleEcho ==
    /\ at = "link"
    /\ kind = "echo"
    /\ hops = 0
    /\ \/ frame[1] # EchoRequest /\ Drop("ignored")
       \/ frame[1] = EchoRequest /\ ~Verified(frame) /\ Drop("dropped")
       \/ frame[1] = EchoRequest /\ Verified(frame) /\ Emit(EchoReply(frame))

Done == at # "link" /\ UNCHANGED vars

Next == Damage \/ HostReceives \/ HandleHeader \/ HandleEcho \/ Done

Spec == Init /\ [][Next]_vars

-----------------------------------------------------------------------------
(* Properties.                                                             *)

\* No intact header or echo reply that a router like this one sent is turned
\* down, by a host that checks as RFC 1071 says or by the next such router:
\* the folding, the odd byte, zero padding and the replacement of 0 by 0xffff
\* never make a difference to either.
OutputAccepted ==
    /\ at = "rejected" => frame # sent
    /\ at = "dropped" /\ by = "router" => frame # sent

\* A message that lost a byte on its last link is never forwarded with a
\* fresh checksum and never answered: the damage stays visible.
DamageNeverBlessed ==
    [][hops' # hops => frame = sent]_vars

\* The only intact messages the router takes for damaged are those whose
\* checksum is 0.
OnlyZeroSumLost ==
    at = "dropped" /\ frame = sent => Field(frame) = 0

-----------------------------------------------------------------------------
(* What the README says that the code does not do.                         *)

\* "Verify the IP checksum (header only)": a header whose checksum verifies
\* is not dropped for it.
IntactHeaderAccepted ==
    kind = "header" /\ at = "dropped" => ~Valid(frame)
=============================================================================
