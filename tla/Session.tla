------------------------------- MODULE Session -------------------------------
(***************************************************************************)
(* The life of the router process: main (sr_main.c), the session with the  *)
(* VNS server (sr_vns_comm.c), the routing table file (sr_rt.c) and the    *)
(* interface list (sr_if.c).  The process loads its routing table,         *)
(* authenticates, opens a topology and then serves one command after the   *)
(* other until the server or an error ends the session.                    *)
(*                                                                         *)
(* The server is external: it may send the commands of its protocol in any *)
(* order, and may close or lose the connection at any time.  A command is  *)
(* one message here; the loops that read its bytes show only in what       *)
(* happens when the bytes stop coming.                                     *)
(***************************************************************************)
EXTENDS Naturals, Sequences

CONSTANTS
    Iface,        \* interface names
    IP,           \* IP addresses of interfaces
    NoIP,         \* the ip field that malloc left unset
    Command,      \* the commands the server may send: records with a type
    Table,        \* contents of routing table files: the interface of each line
    MaxCommands,  \* bound: commands the server sends
    MaxInbox,     \* bound: commands on their way to the process
    Unreadable    \* a file that is missing or does not parse

\* The entries of VNSHWINFO; only interface names and addresses matter.
HwInfoEntry ==
    [key : {"HWINTERFACE"}, value : Iface] \cup
    [key : {"HWETHIP"}, value : IP] \cup
    [key : {"HWSPEED", "HWSUBNET", "HWETHER", "HWMASK", "HWFIXEDIP"}, value : {"ignored"}]

\* What the commands of vnscommand.h carry, as far as their handlers look at
\* it.  "ok" is the outcome of the handler: for VNS_AUTH_STATUS what the
\* server decided, otherwise whether file and socket could be written.
AuthRequestCommand == [type : {"VNS_AUTH_REQUEST"}, ok : BOOLEAN]

AuthStatusCommand == [type : {"VNS_AUTH_STATUS"}, ok : BOOLEAN]

RtableCommand ==
    [type : {"VNS_RTABLE"}, ok : {TRUE}, table : Table \cup {Unreadable}] \cup
    [type : {"VNS_RTABLE"}, ok : {FALSE}]

HwInfoCommand == [type : {"VNSHWINFO"}, hw : Seq(HwInfoEntry)]

\* long: there is room for an ARP header; arpForOther: it is an ARP request
\* for another address.
PacketCommand ==
    [type : {"VNSPACKET"}, iface : Iface, long : BOOLEAN, arpForOther : BOOLEAN]

CloseCommand == [type : {"VNSCLOSE"}]

BannerCommand == [type : {"VNSBANNER"}]

\* A command whose length is out of range has no content to speak of.
TooLongCommand == [type : {"toolong"}]

ASSUME SessionAssumption ==
    /\ Command \subseteq AuthRequestCommand \cup AuthStatusCommand \cup RtableCommand
                        \cup HwInfoCommand \cup PacketCommand \cup CloseCommand
                        \cup BannerCommand \cup TooLongCommand
    /\ MaxCommands \in Nat
    /\ MaxInbox \in Nat \ {0}
    /\ Table \subseteq Seq(Iface)
    /\ NoIP \notin IP
    /\ Unreadable \notin Table

\* Where main is: one of the reads of sr_connect_to_server, the main loop, or
\* the end (exit status 1, exit status 0, or an assertion that failed).
Ended == {"failed", "finished", "aborted"}

PC == {"start", "auth_request", "auth_status", "rtable", "loop"} \cup Ended

VARIABLES
    pc,
    template,       \* -T was given, with a name
    rtarg,          \* the file named with -r
    files,          \* the routing table files
    routing_table,  \* sr->routing_table: the interface of each entry
    if_list,        \* sr->if_list: [name, ip] records
    inbox,          \* commands sent by the server and not yet read
    sent,           \* number of commands sent by the server
    connection,     \* "up", "closed" by the server, or "lost" (recv fails)
    opened,         \* VNSOPEN or VNS_OPEN_TEMPLATE was sent
    sweeping,       \* sr_init has started the sweeper
    authenticated,  \* history: the server accepted our reply
    ready,          \* history: "Ready to process packets" was printed
    handled         \* history: packets were passed to sr_handlepacket

server == <<inbox, sent, connection>>
config == <<template, rtarg>>
progress == <<opened, sweeping, authenticated, ready, handled>>
vars == <<pc, config, files, routing_table, if_list, server, progress>>

File == {"rtable", "rtable.vrhost"}

Init ==
    /\ pc = "start"
    /\ template \in BOOLEAN
    /\ rtarg \in File
    /\ files \in [File -> Table \cup {Unreadable}]
    /\ routing_table = <<>>
    /\ if_list = <<>>
    /\ inbox = <<>>
    /\ sent = 0
    /\ connection = "up"
    /\ opened = FALSE
    /\ sweeping = FALSE
    /\ authenticated = FALSE
    /\ ready = FALSE
    /\ handled = FALSE

-----------------------------------------------------------------------------
(* Pure parts.                                                             *)

\* sr_load_rt on a readable file: the first line read clears the old table,
\* so a file without lines keeps it.
sr_load_rt(contents) ==
    IF contents = <<>> THEN routing_table ELSE contents

\* Mutant: the server's refusal is not noticed.
sr_handle_auth_status_AlwaysOk(c) == TRUE

\* sr_handle_auth_status returns what the server decided.
sr_handle_auth_status(c) == c.ok

\* Mutant: the address goes to the first interface of the list.
HwEntry_First(list, e) ==
    CASE e.key = "HWINTERFACE" -> Append(list, [name |-> e.value, ip |-> NoIP])
      [] e.key = "HWETHIP" -> [list EXCEPT ![1].ip = e.value]
      [] OTHER -> list

\* HWINTERFACE appends to the list; HWETHIP sets the address of its last
\* element (sr_set_ether_ip asserts there is one); other keys do not matter.
HwEntry(list, e) ==
    CASE e.key = "HWINTERFACE" -> Append(list, [name |-> e.value, ip |-> NoIP])
      [] e.key = "HWETHIP" -> [list EXCEPT ![Len(list)].ip = e.value]
      [] OTHER -> list

sr_handle_hwinfo(hw) ==
    LET list[n \in 0..Len(hw)] ==
            IF n = 0 THEN if_list ELSE HwEntry(list[n - 1], hw[n])
    IN  list[Len(hw)]

\* Is the address of an interface set before there is one?
HwAssertFails(hw) ==
    if_list = <<>> /\ \E i \in DOMAIN hw :
        /\ hw[i].key \in {"HWETHIP", "HWETHER"}
        /\ \A j \in 1..(i - 1) : hw[j].key # "HWINTERFACE"

Names(list) == {list[k].name : k \in DOMAIN list}

\* Mutant: the check is content with one good entry.
Verified_Some(list) ==
    /\ list # <<>>
    /\ \E k \in DOMAIN routing_table : routing_table[k] \in Names(list)

\* sr_verify_routing_table(sr) = 0.
Verified(list) ==
    /\ list # <<>>
    /\ routing_table # <<>>
    /\ \A k \in DOMAIN routing_table : routing_table[k] \in Names(list)

-----------------------------------------------------------------------------
(* The server (external).                                                  *)

Connected == pc \notin {"start"} \cup Ended /\ connection = "up"

ServerSends(c) ==
    /\ Connected
    /\ sent < MaxCommands
    /\ Len(inbox) < MaxInbox
    /\ inbox' = Append(inbox, c)
    /\ sent' = sent + 1
    /\ UNCHANGED <<pc, config, files, routing_table, if_list, connection,
                   progress>>

\* The connection is closed in order, or lost: recv then returns -1.
ServerStops ==
    /\ Connected
    /\ connection' \in {"closed", "lost"}
    /\ UNCHANGED <<pc, config, files, routing_table, if_list, inbox, sent,
                   progress>>

-----------------------------------------------------------------------------
(* The process.                                                            *)

\* main up to the first read: without -T the table is loaded now, and the
\* process exits if that or the connection fails.
Start ==
    /\ pc = "start"
    /\ \/ /\ ~template
          /\ files[rtarg] = Unreadable
          /\ pc' = "failed"
          /\ UNCHANGED routing_table
       \/ /\ template \/ files[rtarg] # Unreadable
          /\ routing_table' = IF template THEN <<>> ELSE sr_load_rt(files[rtarg])
          /\ pc' \in {"auth_request", "failed"}
    /\ UNCHANGED <<config, files, if_list, server, progress>>

\* Mutant: a table that cannot be read is not noticed.
EnterLoop_Unchecked(fs) ==
    /\ pc' = "loop"
    /\ routing_table' = sr_load_rt(fs[rtarg])
    /\ sweeping' = TRUE

\* After the session is open main loads the table, again or for the first
\* time, starts the sweeper and enters its loop.  Either branch of main reads
\* the file named with -r; fs are the files at that time.
EnterLoop(fs) ==
    IF fs[rtarg] = Unreadable
    THEN pc' = "failed" /\ UNCHANGED <<routing_table, sweeping>>
    ELSE /\ pc' = "loop"
         /\ routing_table' = sr_load_rt(fs[rtarg])
         /\ sweeping' = TRUE

\* A command is read.  Its field ok, where it has one, says whether its
\* handler succeeds: whether the server accepts us, for VNS_AUTH_STATUS, and
\* whether files and sends work, for the others.
Reading(c) ==
    /\ inbox # <<>>
    /\ c = Head(inbox)
    /\ inbox' = Tail(inbox)
    /\ UNCHANGED <<config, sent, connection>>

\* sr_read_from_server_expect in the handshake: any command but the expected
\* one ends the session, VNSCLOSE included (its return value 0 is not 1).
Unexpected(c) ==
    /\ \/ pc = "auth_request" /\ c.type # "VNS_AUTH_REQUEST"
       \/ pc = "auth_status" /\ c.type # "VNS_AUTH_STATUS"
       \/ pc = "rtable" /\ c.type # "VNS_RTABLE"
    /\ Reading(c)
    /\ pc' = "failed"
    /\ UNCHANGED <<files, routing_table, if_list, progress>>

\* The command's length is out of range.
TooLong(c) ==
    /\ c.type = "toolong"
    /\ pc = "loop"
    /\ Reading(c)
    /\ pc' = "finished"
    /\ UNCHANGED <<files, routing_table, if_list, progress>>

\* sr_handle_auth_request reads the key and sends the reply.
AuthRequest(c) ==
    /\ c.type = "VNS_AUTH_REQUEST"
    /\ pc \in {"auth_request", "loop"}
    /\ Reading(c)
    /\ pc' = IF pc = "loop" THEN IF c.ok THEN "loop" ELSE "finished"
                            ELSE IF c.ok THEN "auth_status" ELSE "failed"
    /\ UNCHANGED <<files, routing_table, if_list, progress>>

\* sr_handle_auth_status.  In the handshake the open command follows at once;
\* with a template the server must then send the routing table.
AuthStatus(c) ==
    /\ c.type = "VNS_AUTH_STATUS"
    /\ Reading(c)
    /\ \/ /\ pc = "loop"
          /\ pc' = IF sr_handle_auth_status(c) THEN "loop" ELSE "finished"
          /\ UNCHANGED <<authenticated, opened, routing_table, sweeping>>
       \/ /\ pc = "auth_status"
          /\ ~sr_handle_auth_status(c)
          /\ pc' = "failed"
          /\ UNCHANGED <<authenticated, opened, routing_table, sweeping>>
       \/ /\ pc = "auth_status"
          /\ sr_handle_auth_status(c)
          /\ authenticated' = c.ok
          /\ \/ /\ pc' = "failed"          \* send fails
                /\ UNCHANGED <<opened, routing_table, sweeping>>
             \/ /\ opened' = TRUE
                /\ IF template
                   THEN pc' = "rtable" /\ UNCHANGED <<routing_table, sweeping>>
                   ELSE EnterLoop(files)
    /\ UNCHANGED <<files, if_list, ready, handled>>

\* sr_handle_rtable writes the file rtable.<host>, and no more than that: in
\* the loop the table in use does not change.
Rtable(c) ==
    /\ c.type = "VNS_RTABLE"
    /\ pc \in {"rtable", "loop"}
    /\ Reading(c)
    /\ \/ /\ c.ok
          /\ files' = [files EXCEPT !["rtable.vrhost"] = c.table]
          /\ IF pc = "rtable" THEN EnterLoop([files EXCEPT !["rtable.vrhost"] = c.table])
             ELSE UNCHANGED <<pc, routing_table, sweeping>>
       \/ /\ ~c.ok
          /\ pc' = IF pc = "rtable" THEN "failed" ELSE "finished"
          /\ UNCHANGED <<files, routing_table, sweeping>>
    /\ UNCHANGED <<if_list, opened, authenticated, ready, handled>>

\* VNSHWINFO: take over the interfaces, then check them against the table.
HwInfo(c) ==
    /\ c.type = "VNSHWINFO"
    /\ pc = "loop"
    /\ Reading(c)
    /\ IF HwAssertFails(c.hw)
       THEN pc' = "aborted" /\ UNCHANGED <<if_list, ready>>
       ELSE /\ if_list' = sr_handle_hwinfo(c.hw)
            /\ pc' = IF Verified(if_list') THEN "loop" ELSE "finished"
            /\ ready' = (ready \/ Verified(if_list'))
    /\ UNCHANGED <<files, routing_table, opened, sweeping, authenticated, handled>>

\* VNSPACKET.  sr_arp_req_not_for_us asserts that the interface exists for
\* any frame long enough to hold an ARP header, and drops ARP requests for
\* other addresses; everything else goes to sr_handlepacket.
VnsPacket(c) ==
    /\ c.type = "VNSPACKET"
    /\ pc = "loop"
    /\ Reading(c)
    /\ IF c.long /\ c.iface \notin Names(if_list)
       THEN pc' = "aborted" /\ UNCHANGED handled
       ELSE /\ handled' = (handled \/ ~(c.long /\ c.arpForOther))
            /\ UNCHANGED pc
    /\ UNCHANGED <<files, routing_table, if_list, opened, sweeping,
                   authenticated, ready>>

\* Mutant: VNSCLOSE is read like any other command.
Close_Ignored(c) ==
    /\ c.type = "VNSCLOSE"
    /\ pc = "loop"
    /\ Reading(c)
    /\ UNCHANGED <<pc, files, routing_table, if_list, progress>>

\* VNSCLOSE ends the loop; banners and unknown commands are only printed.
Close(c) ==
    /\ c.type = "VNSCLOSE"
    /\ pc = "loop"
    /\ Reading(c)
    /\ pc' = "finished"
    /\ UNCHANGED <<files, routing_table, if_list, progress>>

Banner(c) ==
    /\ c.type = "VNSBANNER"
    /\ pc = "loop"
    /\ Reading(c)
    /\ UNCHANGED <<pc, files, routing_table, if_list, progress>>

\* recv fails, perhaps with commands that were sent and never arrive: the
\* read returns -1.
RecvFails ==
    /\ pc \in {"auth_request", "auth_status", "rtable", "loop"}
    /\ connection = "lost"
    /\ pc' = IF pc = "loop" THEN "finished" ELSE "failed"
    /\ UNCHANGED <<config, files, routing_table, if_list, server, progress>>

\* recv returns 0 at the end of the stream: the loop that waits for more
\* bytes goes round for ever.
Spin ==
    /\ pc \in {"auth_request", "auth_status", "rtable", "loop"}
    /\ inbox = <<>>
    /\ connection = "closed"
    /\ UNCHANGED vars

Terminated == pc \in Ended /\ UNCHANGED vars

Handle(c) ==
    \/ Unexpected(c) \/ TooLong(c) \/ AuthRequest(c) \/ AuthStatus(c)
    \/ Rtable(c) \/ HwInfo(c) \/ VnsPacket(c) \/ Close(c) \/ Banner(c)

Process == Start \/ RecvFails \/ \E c \in Command : Handle(c)

Next ==
    \/ \E c \in Command : ServerSends(c)
    \/ ServerStops
    \/ Process
    \/ Spin
    \/ Terminated

Spec == Init /\ [][Next]_vars

\* The process is a single thread that keeps reading.
FairSpec == Spec /\ WF_vars(Process)

-----------------------------------------------------------------------------
(* Properties.                                                             *)

\* Type correctness of the process's own state.
SessionTypeOK ==
    /\ pc \in PC
    /\ files \in [File -> Table \cup {Unreadable}]
    /\ routing_table \in Table \cup {<<>>}
    /\ \A k \in DOMAIN if_list :
          if_list[k] \in [name : Iface, ip : IP \cup {NoIP}]
    /\ sent \in 0..MaxCommands
    /\ connection \in {"up", "closed", "lost"}

\* No packet reaches sr_handlepacket before the server accepted us, the
\* topology was opened and the sweeper that resolves next hops was started,
\* in whatever order the server sends its commands.
PacketsNeedSession == handled => authenticated /\ opened /\ sweeping

\* From the moment the router says it is ready, and as long as it serves
\* commands, every route leads to an interface it has, whatever interfaces
\* and tables the server sends later.
ReadyMeansConsistent ==
    ready /\ pc = "loop" =>
        /\ routing_table # <<>>
        /\ \A k \in DOMAIN routing_table : routing_table[k] \in Names(if_list)

\* Entry j of a VNSHWINFO is the address of the interface in entry i.
AddressOf(hw, i, j) ==
    /\ i < j
    /\ hw[i].key = "HWINTERFACE"
    /\ hw[j].key = "HWETHIP"
    /\ \A k \in (i + 1)..j : hw[k].key # "HWINTERFACE"

HwInfos == {c.hw : c \in {x \in Command : x.type = "VNSHWINFO"}}

\* What the protocol asks of a server: each interface comes with an address,
\* and each address after its interface.
HwInfoComplete ==
    \A hw \in HwInfos : \A i \in DOMAIN hw :
        /\ hw[i].key = "HWINTERFACE" => \E j \in DOMAIN hw : AddressOf(hw, i, j)
        /\ hw[i].key = "HWETHIP" => \E j \in DOMAIN hw : AddressOf(hw, j, i)

\* The interfaces announced by the server with their addresses.
Announced ==
    UNION {{[name |-> hw[p[1]].value, ip |-> hw[p[2]].value] :
                p \in {q \in (DOMAIN hw) \X (DOMAIN hw) : AddressOf(hw, q[1], q[2])}} :
            hw \in HwInfos}

\* Each interface got the address that was announced for it, although an
\* address is always given to the last interface of the list and the list
\* may already hold interfaces, the same ones too.
InterfaceAddresses ==
    \A k \in DOMAIN if_list : if_list[k] \in Announced

\* A close command or a lost connection ends the process.
SessionEnds ==
    /\ (connection = "lost") ~> pc \in Ended
    /\ (\E k \in DOMAIN inbox : inbox[k].type = "VNSCLOSE") ~> pc \in Ended
=============================================================================
