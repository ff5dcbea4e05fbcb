# Simple Router: TLA+ verification project

The program is a user-space IPv4 router (`sr`): it opens a session with a VNS
server, receives Ethernet frames from it, answers ARP and ping, forwards IP
packets and resolves next hops with ARP. This project models its control in
TLA+, model-checks the modules with TLC and proves the central invariants with
TLAPS. File names below are relative to the repository.

## 1. Inventory

| Component | State | Operations | Talks to |
|---|---|---|---|
| ARP request queue (`sr_arpcache.c`, `handle_arpreq` in `sr_router.c`) | list of `sr_arpreq` (address, time and number of requests sent, queued packets), one recursive lock | `sr_arpcache_queuereq`, `sr_arpcache_insert`, `sr_arpreq_destroy`, `sr_arpcache_sweepreqs`, `handle_arpreq` | called by the receiver for each frame, by the sweeper thread once a second; calls back into the data path to send ICMP errors |
| ARP mapping table (`sr_arpcache.c`) | 100 slots with address, MAC, time added, valid | `sr_arpcache_insert`, `sr_arpcache_timeout`; `sr_arpcache_lookup` is never called | written by the receiver, aged by the sweeper |
| IP data path (`sr_router.c`) | none of its own | `sr_handlepacket`, `handle_ip_packet`, `handle_arp_packet`, `send_icmp_error`, `send_icmp_echo_reply`, `route_and_send` | reads routing table and interfaces, queues frames |
| ARP protocol (`sr_router.c`, filter in `sr_vns_comm.c`) | none of its own | `send_arp_request`, `send_arp_reply`, `handle_arp_packet`, `sr_arp_req_not_for_us` | other routers and hosts |
| Checksums (`sr_utils.c`) | none | `cksum` | data path |
| Process and session (`sr_main.c`, `sr_vns_comm.c`) | socket, stage of the session | handshake, command loop | the VNS server; starts the sweeper |
| Command stream (`sr_vns_comm.c`) | bytes read so far | the read loops of `sr_read_from_server_expect` | the server's byte stream |
| Packet output and log (`sr_vns_comm.c`, `sr_dumper.c`) | socket, log file | `sr_send_packet`, `sr_log_packet`, `sr_dump`, `sr_destroy_instance` | called by both threads without a lock |
| Routing table (`sr_rt.c`) | linked list | `sr_load_rt`, `sr_add_rt_entry` | loaded by main, read by the data path |
| Interface list (`sr_if.c`) | linked list | `sr_add_interface`, `sr_set_ether_*`, `sr_get_interface` | filled by VNSHWINFO, walked by both threads |
| SHA-1 and authentication (`sha1.c`, `sr_handle_auth_request`) | hash context, key file | `SHA1Reset`, `SHA1Input`, `SHA1Result` | the handshake |

What is hard: two threads share the request queue. The sweeper holds the lock
for a whole sweep; the receiver takes it only inside the cache functions, and
reads and writes requests in `handle_arpreq` without it. `handle_arpreq` is
recursive: giving up on a next hop sends ICMP errors, which are routed and
queued and call `handle_arpreq` again, on other requests or on the same one.
The server may send its commands in any order and stop at any time. The socket,
the packet log and the interface list are used by both threads without any lock.
Several of these routers in one network answer each other's errors.
`PROJECT.json` lists the hazards line by line.

What makes each part correct:

* queue: one request per next hop, only live requests linked, no accepted frame
  lost, or both sent and reported, giving up only after the full number of attempts,
  everything settled in the end;
* table: while there is room no mapping is overwritten, none is dropped early, and
  each expires;
* data path: what it queues is well formed for every table;
* ARP: frames go to the station that owns the next hop, whatever replies are
  lost, late or repeated;
* network: pings are answered, and whatever one packet causes dies out;
* checksums: what the router emits is accepted, what is damaged stays damaged;
* output and input: the results of sending tell what was sent, commands come out
  whole, what was refused or sent is in the log;
* lists and files: a walk stays on the list, the table is what the file says;
* digest: it is that of the whole message, or there is none;
* session: no packet before authentication, no service with routes to
  interfaces that do not exist, addresses on the right interfaces, an end
  when the server ends it.

## 2. Modules

| Module | Models | Notes |
|---|---|---|
| `Forwarding` | data path | pure operators; a pointer that may be NULL is a set of at most one element |
| `ArpQueue` (extends `Forwarding`) | request queue, both threads | see below |
| `ArpCache` (extends `ArpQueue`) | the cache as a whole: queue and mapping table composed | |
| `Delivery` | abstract promise of the router | sets of `pending`, `delivered`, `failed` frames: that a give-up which is re-entered reports a frame more than once does not show in them |
| `Network` (instantiates `Forwarding` per router) | several routers and hosts | a queued frame is delivered or given up, which is what `Delivery` leaves open |
| `Resolution` | ARP among routers | steps of a router are atomic |
| `Checksum` | `cksum` and its uses | bytes and 16-bit words |
| `Session` | `main`, handshake, command loop, interface addresses | the server is external |
| `CommandReader` | read loops | implements `Channel` |
| `Channel` | abstract promise of the command stream | |
| `PacketIO` | sending and logging by two threads | |
| `RouteFile` | routing table file, line by line | gives `Session` what a file does |
| `IfList` (extends `RouteFile`) | interface list as linked memory under two threads | starts once the table is loaded |
| `Sha1` | the hash context | pure operators; compression as a free constructor |
| `Auth` (extends `Sha1`) | authentication reply | |
| `MC*` | constants for TLC | |
| `ArpQueueProofs` | theorems of `ArpQueue`; lemmas on `Forwarding`, lists and stacks | section 4 |
| `ArpCacheProofs` (extends `ArpQueueProofs`) | `ArpQueue` implements `Delivery`; theorems of `ArpCache` | |
| `ResolutionProofs` | theorems of `Resolution` | |
| `RoutingProofs` | theorems of `RouteFile`, `IfList` and `Network` | |
| `ChecksumProofs` | theorems of `Checksum` | |
| `SessionProofs` | theorems of `Session` and `Auth`; lemmas on `Sha1` | |
| `PacketIOProofs` | theorems of `PacketIO` and `CommandReader` | |
| `FiniteInduction` | lemmas on loops: a property of every count, by the smallest one without it | |

**ArpQueue.** Every thread has a call stack of activations; an activation's
`pc` names the next statement: `route` (the critical section of
`sr_arpcache_queuereq`), `check`, `count`, `ask`, `bump`, `giveup`, `destroy`
(the statements of `handle_arpreq`, `sr_arpreq_destroy`), `drain` (the loop of
`handle_arp_packet`) and `sweep` (the loop of `sr_arpcache_sweepreqs`). A
function that takes and drops the lock is one step; each access outside of the
lock is a step of its own, the increment of `times_sent` a load and a store.
Requests are addresses in `Req`; `alive` says which are allocated. Access to a
freed request, and a stack deeper than `StackLimit`, set `fault`; behaviour
after that is undefined in C and the model stops (`Faulted`). Time is relative:
`due[r]` says that a second has passed since `req->sent`, `Tick` is the change
of the second, and `late` marks an activation that read the clock before it.

A frame counts as sent when it is passed to `sr_send_packet`. Memory allocation
is assumed to succeed. `calloc` does not hand out an address a thread still
points to: that thread's next access is the fault to be found.

**Session.** `pc` is the place in `sr_connect_to_server` or the main loop. A
command is one message; the field `ok` says whether its handler succeeds. The
connection is up, `closed` (recv returns 0; the read loop then spins, action
`Spin`) or `lost` (recv returns -1). `opened`, `authenticated`, `ready` and
`handled` record what has happened, for the properties. Routing table files are
sequences of interface names, or unreadable.

**Network.** Every router has its own instance of `Forwarding` (`R(r)`), with the
routing table of the scenario (`given`), which also fixes what the hosts send and
whether a next hop that exists may stay silent. A message has arrived at a router or is queued
there; `Deliver` is the next hop's answer, `GiveUp` the end of the attempts, with
the error the code sends. `what` is the kind of payload, `errors` how often an
error was answered with an error.

**Resolution.** `frames` holds every frame ever put on a link: one that is
handled stays and may be handled again or never, which is loss, delay and
duplication at once. A link shows each frame to all interfaces on it.

**Checksum.** Header and echo message have their changing fields and the checksum
at the start (same parity as the real offsets). Hosts compute the sum as a
remainder modulo 65535, which is a definition independent of the code's folding.
A link may damage one byte.

**PacketIO.** Each `fwrite` is a step (stdio locks the file for one call), each part
of a message the kernel accepts is a step. At any point the call may return with less
than the message (`WriteFails`), on a broken connection or on one that stands; the code
returns -1, does not send the rest and goes on using the socket. `result` is what
`sr_send_packet` returned; no caller looks at it. A write to the log after
`sr_destroy_instance` sets `fault`. On a build where `ssize_t` is wider than
`unsigned`, as on 64-bit systems, a failed write returns -1 as modelled.

**CommandReader.** Bytes carry their command and position, so that a reader out of
step is visible: what it takes for a length is then `StrayLength`, out of range in the
run and any number in the proofs. A closed stream makes `recv` return 0, which is a stutter
(`RecvNothing`) for ever.

**RouteFile.** The four local arrays of `sr_load_rt` are `fields`; they start with
what the stack held (`Stack`) and keep what a short line does not replace.

**IfList.** After `sr_load_rt` succeeded main handles VNSHWINFO and compares the list
with the interfaces the table names (`Verified`). Nodes are memory; a fresh one has no name and a `next` that points
nowhere until the code has written them, one write per step. The sweeper walks
while packets are queued; main runs on meanwhile.

**Sha1, Auth.** The context is a record with the fields of `SHA1Context`. A digest is
the sequence of blocks that were hashed. One place of a block stands for a word of
the length, so a block of 6 has 4 places before the length as the code's 64 has 56.
`Auth` adds the key file and the stack buffer, whose old content is any.

Where one module of proofs covers two models, one of them has names of its own for
its specification: `AuthSpec`, `ReaderSpec`, `NetSpec`.

Operators named `X_Something` next to an operator `X`, marked as mutants, are
plausible bugs used to show that each property can fail.

## 3. Runs

| Run | Instance | Shows |
|---|---|---|
| `queue_safety` | two crossing packets (h1 to h2, h2 to h3 behind h1), 4 requests, 5 attempts, stack of 8; 251 000 states | the safety invariants of the queue; `ArpQueue` implements `Delivery` |
| `cache` | two packets for one next hop, only one sender reachable; 2 attempts; replies of the next hop, repeated and unasked, 2 slots; 164 000 states | mappings are kept while there is room, and expire; the queue drains and frames settle |
| `session` | 2 interfaces, 7 commands of every kind and outcome; 148 000 states | session properties |
| `network` | two routers, all combinations of routes to two hosts, silent next hops; three routers in a row with the right routes, pings and probes; 47 000 states | traffic dies out, errors about errors end; pings answered, traceroute in order |
| `resolution` | three routers on two links, five packets, one for a next hop on the wrong link; 99 000 states | frames reach their next hop, answers were asked for |
| `checksum_path` | messages of 4, 7 and 8 bytes, a byte of padding, up to 2 routers; 512 000 states | output accepted, damage visible, only sum 0 lost |
| `packet_io` | frames of both threads, short, long and with a bad header, messages in 2 parts, writes that come back short; 2.6 million states | the results tell what is in the stream; each thread's records are whole; refused and sent frames are logged |
| `command_reader` | commands of the shortest and longest length and out of range; 16 000 states | whole commands in order, failure only for cause |
| `tables` | all files of up to three lines, complete, longer, short, blank or bad; then two VNSHWINFO with repeated and new names, 6 nodes; 189 000 states | table as the file says, not mixed; the sweeper's walk stays on the interface list |
| `auth` | all keys of full length, with and without line end, two requests, salts of 0 to 11 octets; 41 000 states | digest of the whole message or none; replies prove the key |
| `returned_request`, `giveup_reentered` | as `queue_safety` | a comment and a sentence of the README the code does not keep |

*Bounds.* The crossing packets are the smallest traffic in which the error
about one packet is queued on the request of another, so that nesting and
recursion occur; four requests are more than the two next hops need, because a
freed address is not reused while a thread points to it. With five attempts the
counter races are those of the code; `cache`, which checks liveness and needs many
more states, uses two, and the proofs cover every number. The stack limit of 8 lets
give-ups nest several deep, each request more than once, before it counts as
overflow. Two table slots let a reply come to a table that is empty, that has a mapping and room
for another, and that is full; that it is one mapping that is repeated does not
hide an overwritten slot, whose age would start again.
Seven commands allow the longest handshake (with template) and four commands after
it. In `auth` the length carries after 4 octets and overflows at 12, so that every
end position in a block meets every carry; the octets are those padding consists of.
Two parts per message are enough for another message to get in between; frames lie
on both sides of the size of an Ethernet header and of the dump size. A TTL of 4 lets
a packet go round a loop of two routers twice. `Req`, `Node` and the two frames of
the receiver in `packet_io` are symmetric; the runs with liveness use no symmetry.

*Fairness.* Time passes, and each thread keeps running (weak fairness of `Tick`
and of each thread's steps). The receiver's steps that take the lock are
strongly fair: the sweeper sleeps for a second between sweeps, so the lock is
free again and again. The arrival of packets and replies is not fair. In
`Session` and `CommandReader` the process keeps reading; the server owes nothing.
In `Network` the routers keep handling what has arrived and settle what is queued,
which is what `FramesSettle` shows of one router.

*Where the code differs from its documents.* Two disagreements have runs and
are listed with quotations under `findings`: the pointer returned by
`sr_arpcache_queuereq` can be freed while it is used, and giving up re-enters
itself without end when two silent hosts have packets for each other.

Others are stated at the end of their modules, without a run of their own; TLC
refutes each one when it is added to the configuration of the module:

* `SweepCursorLive` (`sr_arpcache.c:22`): the `next` the sweep captured can be freed;
* `OneRequestPerSecond` (`README.md:64`), `AtMostMaxTries` (`sr_arpcache.h:51`): two
  ARP requests in one second and a sixth request are possible;
* `QueuedShareInterface` (`sr_router.c:475`): packets of one request may have
  different interfaces (with two routes that name one gateway on two interfaces);
* `ReplyRecorded` (`sr_arpcache.c:107`): a reply is not recorded when the table is
  full; `FullTableMakesRoom` (`sr_arpcache.c:206`, "kick out a random entry if all
  entries full"): the random numbers are seeded and never drawn, the new mapping is
  dropped instead. `MappingsKept` allows either behaviour of a full table;
* `LookupFindsReply` (`sr_arpcache.h:15`): when a station has changed its hardware address
  (a second reply in `MCReplies`), the old mapping may be found instead of the new one;
* `IntactHeaderAccepted` (`README.md:35`): an intact header with checksum 0 is dropped;
* `SentInOnePiece` (`sr_vns_comm.c:557`), `LogIsTcpdump` (`sr_dumper.h:2`): messages of
  the two threads can be mixed in the stream and in the log;
* `OwnMessagesWhole` (`sr_vns_comm.c:557`): after a short write a thread's next message
  starts inside the old one, with one thread already. What holds is `ResultTellsStream`;
* `LoggedLenIsOffWire` (`sr_dumper.h:43`), `LogOpenWhenWritten` (`sr_dumper.c:50`): the log
  has wrong lengths for long packets and may be written to after it was closed.

`tests/test_errors.py:116` asks for longest prefix match ("Longest Prefix Match must
forward server2's traffic via the /24 route"); `README.md:47` describes an exact match of
the destination, and that is what `rt_exact_match` does. The models follow the code:
`Forwarding` and `FileDecides` compare addresses for equality and leave out the masks.

Three are read off the code: ICMP errors start with TTL 255 (`INIT_TTL`), not 64 as
`README.md:55` says; they quote a fixed 28 bytes, not the header and 8 bytes, as
`sr_router.c:384` says, when the header has options; and a key shorter than 64
characters is hashed together with uninitialised bytes (`sr_vns_comm.c:275`), which is
why `RepliesProveKey` is checked for keys of full length.

`ErrorsDoNotCascade` is about routing tables without routes to the router's own
addresses, like the ones in the repository, and so are the tables of `network`:
with such a route a router would send host unreachable errors to itself for ever.

## 4. Proofs

The theorems below hold for every value of the constants that the modules'
named assumptions allow: any routing table, topology, number of requests,
attempts, slots, frames. The properties are those TLC checks on
small instances; an inductive invariant that TLC cannot evaluate (`WireInv`, whose
offsets are unbounded) rests on its proof alone.

**The request queue** (`ArpQueueProofs`)

| Theorem | States | Inductive invariant, and why it is needed |
|---|---|---|
| `TypeCorrect` | `TypeOK` | adds `RouteHasPacket`: `Route` takes the head of `todo`. The lemmas on `Forwarding` supply that the data path queues only well-formed frames (TTL in range, next hop not 0) |
| `QueueCorrect` | `QueueIntegrity`, `OneRequestPerNextHop` | the conjunction itself, given the types. Threads may hold dangling pointers, but only `Route`, `HandleArpReply` and `Destroy` change the list, under the lock |
| `GivingUpIsEarned` | `GiveUpIsEarned` | `CountersInv`: an allocated request has a packet (so every attempt really sends), `times_sent` is at most the number of requests sent, and the store of an increment under way keeps it so |
| `NextHopsCorrect` | `PacketsUnderTheirNextHop` | itself, given the types |
| `DrainIsOwned` | `DrainedRequestIsOwned` | `OwnInv`: an allocated request off the queue is `Detached`, with the receiver at the bottom of its stack and no pointer of the sweeper to it. It rests on `CallInv`: the sweeper holds the lock for as long as it has a stack, so a reply cannot unlink what the sweeper is at |
| `TimesSentCorrect` | `TimesSentBounded` | `RaceInv`: at the limit only one thread can be between the test and the store of `times_sent`, above it none. The bound alone is not inductive: a second thread in that window would store one more |
| `NoCascade` | `ErrorsDoNotCascade` | `QuietInv`: no frame anywhere is about an error, and an error's source is an address of the router; so it covers the frames on the stacks too, where the next errors come from |

The lemmas `...Facts` say which activations a step of the stack adds, the lemmas
`...Shape` what each action does to its thread's stack in those terms; an
invariant about activations is then proved once per shape of step.

`NoCascade` assumes `NoRouteToSelf`. It is needed: with a route to an address of
its own the router sends host unreachable errors to itself. The routing tables
of the repository have none.

**Refinement** (`ArpCacheProofs`). `DeliveryImplemented`: `Spec =>
ImplementsDelivery`, that is, `ArpQueue` with both threads implements `Delivery`
under the mapping of `ArpQueue`. The invariant `FrameInv(f)`, for each frame `f`
the receiver undertakes to send, says where `f` can be: carried by the receiver
to the queue and nowhere else; on at most one allocated request; after it was
sent, only on a request that is off the queue; after it was reported, only on
one that somebody is giving up; and, for each loop over the packets of an
allocated request, every frame of that request is done or still ahead. The
steps that map to steps of `Delivery` are `HandleIp` (accept), `Drain` (deliver),
`GiveUp` (fail) and the faults (crash); all others stutter. The hypothesis
`IdsNameArrivals` says that an id names one arrival; ids exist only in the model,
to tell equal frames apart.

**The whole cache** (`ArpCacheProofs`). `CacheImplementsQueue`: `CacheSpec =>
Spec`, every step of the cache is one of the queue as far as the queue is
concerned, so all theorems above carry over to the composition.
`TableTypeCorrect` and the action property `MappingsCorrect` (`MappingsKept`: no
mapping is dropped early, and none overwritten while there is room)
cover every number of slots and every timeout. `sr_arpcache_insert` takes the
first free slot, a minimum; `MinOfNumbers` gets its existence from the
well-foundedness of the naturals.

**ARP** (`ResolutionProofs`). `AnswersCorrect` and `NextHopCorrect` for any
topology, with frames lost, late and repeated. `FrameInv` keeps for each
reply the interface it speaks for and the request it answers, and for each IP
frame that its router has an interface on the link of the next hop. `PacketInv`
keeps a packet either not yet routed, waiting, or sent. `NextHopCorrect` assumes
`RoutesAreLocal`. It is needed: the code records and uses a reply whatever
interface it came in on, so a router with two interfaces may overhear the answer
to another router's request and send its packets out of the wrong one. Nothing
in the code enforces it, and a correct routing table satisfies it.

**The session** (`SessionProofs`). `PacketsNeedSessionCorrect` by `HandshakeInv`,
how far the handshake is at each place of `main`; `ReadyCorrect` by `ReadyInv`:
"Ready" is said only in the loop, and the loop is left for good. The interface
list only grows, so a route that had its interface keeps it. `SessionTypeCorrect`
and `InterfacesCorrect` are about `sr_handle_hwinfo`, a loop over the entries of a
command: `HwLoop` names the list after each entry, and the lemmas show by induction
on the entries (`AddressesUpTo`) that all nodes but the last are as announced, and
that the last one has its address or is waiting for it. `InterfacesCorrect` assumes
`HwInfoComplete`, that each VNSHWINFO gives every interface an address and every
address after its interface. It is needed: `sr_set_ether_ip` writes to the last
node of the list, whichever that is. TLC evaluates the assumption on the run.

**The authentication reply** (`SessionProofs`). `After(c, m, n)` is what a context
`c` holds after the first `n` octets of message `m`: the blocks hashed, the open
block, the count in two words, and whether the count overflowed. `InputOctet`
takes `After(_, m, n)` to `After(_, m, n + 1)`; `SHA1Result` adds one block or two,
depending on the places left (`PadOneBlock`, `PadTwoBlocks`), and what comes out is
compared with the padded message place by place (`DigestByPlaces`). That gives
`CorruptionCorrect` and `DigestCorrect` for messages, blocks and words of every
size. `RepliesCorrect` assumes `KeysFull`, keys as long as the buffer; it is needed,
because the code hashes the whole buffer, also what `fgets` did not write.

**Packet output** (`PacketIOProofs`). `MessagesCorrect`, `RecordsCorrect` and
`LogCorrect`, for any frames, sizes and number of parts. `StreamInStep(t)` relates
where a thread is in its message to the last part it has in the stream, and
`LogInStep(t)` the same for the log; the other thread's parts in between do not
matter (`OthersLast`). Between two messages the last part ends one or is of a message
with result -1: a write that came back short, on whatever connection, leaves it there.
For the results, `FreshInCall` says that a frame has none before its call returns, so
that results are final (`ResultsFinal`), and `PartsAccounted` that what is in the stream
is of a frame with a result or of the one being written, up to where its call is; hence
an error is never returned for a message whose last part went out.
`LoggedBeforeUse` says that past the log a frame is in it.

**The command stream** (`PacketIOProofs`). `ReaderInv`: what was handed on are the
first commands sent, the buffer is the start of the next one (`BufInv`), and the wire
is the rest of the stream from there on (`WireInv`). The rest is described by where
each command starts in the stream (`Aligned`, with the offsets as an existential
witness that `ServerSends` extends by one), so that no sum over commands is needed;
a lost connection empties the wire. `FailsCorrect` is its last conjunct.
`ChannelImplemented` is the safety half of `ImplementsChannel`: initial states map to
initial states of `Channel`, and every step to a step of `Channel` or a stutter. What
the invariant is needed for is `HandOn`, where the bytes handed on must be one
command, the next one, and the whole of it.

**Tables and interfaces** (`RoutingProofs`). `TablesCorrect` by `LoadInv`: before the
first good line nothing has changed, and from then on every entry names a line
already read, the values that a short line leaves in the local arrays included.
`WalkCorrect` by `ListInv`: the nodes form one chain, of which only the last may
be unfinished, and the node the sweeper looks for is at or after its position
(`WalkAhead`), because `Verified` lets packets be queued only when every route has
its interface (`RoutesListed`). The chain is an existential witness that `Link`
extends by one node. `FileCorrect` by `FileInv`: the table has one entry for each
line read, that of its own line if it is complete and otherwise of an earlier one;
so the first entry for a destination stems from the first line for it.

**The network** (`RoutingProofs`). `ErrorChainsEnd` for any number of routers, any
routes to hosts and any packets, in every scenario with `NeighbourRoutes`: no router
has a route to itself, and a route to an address of another router leads to that
router. By `NetInv`: an error comes from an address of some router; an error about an
error is queued at the router that made it, for a neighbour, or has arrived there. So it
is neither forwarded nor, having one of the router's own addresses as its source,
reported again when it is given up: there is no route back to itself. The
assumption on the routes is needed: with routes between the routers that do not lead
to them, an error about an error can expire on its way and be reported in its turn.

**Checksums** (`ChecksumProofs`). For messages of every length up to 65535 bytes, any
padding and any number of routers. `SumFits`: the 32-bit sum cannot overflow.
`cksum` is shown to be the complement of the remainder modulo 65535, with 65535 for
0, and the sum of the words to change by less than 65535, and not by 0, when one
byte changes, at either parity. `ChecksumInv` then says that what the last sender put
on the link verifies (`SentIsGood`), and that the frame differs from it in one byte at most
(`OneByteDamaged`); `ChecksumOutputAccepted`, `ChecksumOnlyZeroSumLost` and the
action property `ChecksumDamageNeverBlessed` follow.

*Loops.* A loop over the bytes, octets or entries of a message is a recursive function
of the number of turns. The library's induction theorems cannot be used, as they take an
operator; `FiniteInduction` replaces them. `LoopExists` gives the values of a loop as
a function, and a property of all of them is proved from its smallest counterexample
(`SmallestNumber`, from the well-foundedness of the naturals).

*Only model-checked*, and why:

* liveness (`MappingsExpire`, `QueueDrains`, `FramesSettle`, `SessionEnds`,
  `NetworkGetsQuiet`, `PingsAnswered`, and of `ImplementsChannel` the fairness of
  `Channel`): out of the prover's reach;
* `TracerouteNamesRouters`: it names the addresses of the three routers in a row of
  `network`, so there is nothing more general in it to prove;
* `ErrorsAboutErrors` where routes to a router lead over another one, as in the row
  of three routers: `NeighbourRoutes` does not hold there, and only TLC's run covers it.

## 5. Not modelled

The compression function of SHA-1 (80 rounds on 32-bit words; `Sha1` takes it as
free), the payload ICMP errors quote, printing, the parsing of command line options and the choice of the user
name, `sr_arpcache_destroy` (no caller), allocation failure, an empty template
name, commands shorter than their own header, words of a routing table file longer
than the arrays they are copied to, failing writes to the log (the code ignores
them), the Python tests.

## 6. What could be added

The compression function of SHA-1 and the payload of ICMP errors are the parts of
the code a further module could take on. Of the proofs, `ErrorsAboutErrors` for
routers that reach each other over several hops is open: the chain of errors is then
bounded by what the routes back are, not by the neighbour that answers.

## 7. How to run

    tlc -workers 2 -config ArpQueueSafety.cfg MCArpQueue
    tlapm ArpQueueProofs.tla

Each run of `PROJECT.json` names its module and configuration; each module
`...Proofs` is checked like the second line.
