-------------------------------- MODULE IfList --------------------------------
(***************************************************************************)
(* The interface list (sr_if.c) as linked memory.  Once the routing table  *)
(* is loaded the session starts: main appends to the list while            *)
(* it handles VNSHWINFO and checks the table against it, and the sweeper   *)
(* walks the list for every frame it sends (sr_get_interface).  No lock    *)
(* protects it, and a node that comes from malloc is linked in before it   *)
(* is filled in.                                                           *)
(*                                                                         *)
(* What keeps the two apart is indirect: the sweeper has nothing to send   *)
(* before a packet was queued, none is queued before its interface is      *)
(* known, and then the table has been checked against the list, which only *)
(* grows at its end.                                                       *)
(***************************************************************************)
EXTENDS RouteFile

CONSTANTS
    Node,        \* memory for struct sr_if
    NULL,
    HwInfo,      \* what a VNSHWINFO may announce: sequences of names
    MaxHwInfo    \* bound: VNSHWINFO commands

\* What malloc leaves in a node: no name, and a next pointer to nowhere.
Garbage == "garbage"

ASSUME IfListAssumption ==
    /\ NULL \notin Node
    /\ Garbage \notin Word \cup Node \cup {NULL}
    /\ \A h \in HwInfo : h \in Seq(Word) /\ h # <<>>
    /\ MaxHwInfo \in Nat

VARIABLES
    if_list,  \* sr->if_list
    next,     \* next pointers
    name,     \* names
    alloc,    \* nodes allocated
    todo,     \* names main has still to add
    node,     \* the node main is filling in, or NULL
    infos,    \* VNSHWINFO commands so far
    ended,    \* main has left its loop
    queued,   \* packets are waiting for an ARP reply
    walk      \* the sweeper in sr_get_interface: [pos, for], or NULL

list == <<if_list, next, name, alloc>>
listVars == <<list, todo, node, infos, ended, queued, walk>>
vars == <<loadVars, listVars>>

Init ==
    /\ LoadInit
    /\ if_list = NULL
    /\ next = [n \in Node |-> Garbage]
    /\ name = [n \in Node |-> Garbage]
    /\ alloc = {}
    /\ todo = <<>>
    /\ node = NULL
    /\ infos = 0
    /\ ended = FALSE
    /\ queued = FALSE
    /\ walk = NULL

-----------------------------------------------------------------------------
(* main.                                                                   *)

\* main is in its loop; a table that cannot be loaded ends the process.
MainIdle == status = "loaded" /\ ~ended /\ todo = <<>>

\* The interfaces the routing table names.
Routes == {routing_table[i][4] : i \in DOMAIN routing_table}

ReceiveHwInfo(h) ==
    /\ MainIdle
    /\ infos < MaxHwInfo
    /\ todo' = h
    /\ infos' = infos + 1
    /\ UNCHANGED <<loadVars, list, node, ended, queued, walk>>

LastNode == CHOOSE n \in alloc : next[n] = NULL

\* Mutant: a new interface goes to the head of the list.
LinkNode_First(n) == if_list' = n /\ UNCHANGED next

\* The empty list is a case of its own; otherwise to the end of the list.
LinkNode(n) ==
    IF if_list = NULL
    THEN if_list' = n /\ UNCHANGED next
    ELSE next' = [next EXCEPT ![LastNode] = n] /\ UNCHANGED if_list

\* sr_add_interface: allocate a node and link it in ...
Link ==
    /\ todo # <<>>
    /\ node = NULL
    /\ \E n \in Node \ alloc :
         /\ alloc' = alloc \cup {n}
         /\ node' = n
         /\ LinkNode(n)
    /\ UNCHANGED <<loadVars, name, todo, infos, ended, queued, walk>>

\* ... then copy the name and end the list (the other way round for the first
\* interface).
CopyName ==
    /\ node # NULL
    /\ name[node] = Garbage
    /\ node = if_list => next[node] = NULL
    /\ name' = [name EXCEPT ![node] = Head(todo)]
    /\ UNCHANGED <<loadVars, if_list, next, alloc>>
    /\ UNCHANGED <<todo, node, infos, ended, queued, walk>>

EndList ==
    /\ node # NULL
    /\ next[node] = Garbage
    /\ node # if_list => name[node] # Garbage
    /\ next' = [next EXCEPT ![node] = NULL]
    /\ UNCHANGED <<loadVars, if_list, name, alloc>>
    /\ UNCHANGED <<todo, node, infos, ended, queued, walk>>

Listed == {name[n] : n \in alloc} \ {Garbage}

\* Mutant: the interfaces are not checked against the routing table.
Verified_Always == TRUE

\* sr_verify_routing_table, of a list that is not empty.
Verified == routing_table # <<>> /\ Routes \subseteq Listed

\* The next entry of the command; after the last one main checks the table
\* and leaves its loop if a route has no interface.
Added ==
    /\ node # NULL
    /\ name[node] # Garbage /\ next[node] # Garbage
    /\ node' = NULL
    /\ todo' = Tail(todo)
    /\ ended' = (todo' = <<>> /\ ~Verified)
    /\ UNCHANGED <<loadVars, list, infos, queued, walk>>

\* A packet is queued (route_and_send), if there is a route whose interface is
\* known.
Queue ==
    /\ MainIdle
    /\ ~queued
    /\ Routes \cap Listed # {}
    /\ queued' = TRUE
    /\ UNCHANGED <<loadVars, list, todo, node, infos, ended, walk>>

\* An ARP reply empties the queue; the sweeper holds the lock while it walks.
Resolve ==
    /\ MainIdle
    /\ queued
    /\ walk = NULL
    /\ queued' = FALSE
    /\ UNCHANGED <<loadVars, list, todo, node, infos, ended, walk>>

-----------------------------------------------------------------------------
(* The sweeper.                                                            *)

\* It looks for the interface of a queued packet, or of the route an error
\* takes.
WalkBegin ==
    /\ queued
    /\ walk = NULL
    /\ \E i \in Routes : walk' = [pos |-> if_list, for |-> i]
    /\ UNCHANGED <<loadVars, list, todo, node, infos, ended, queued>>

\* Compare the name: return, or follow next.
WalkStep ==
    /\ walk # NULL
    /\ walk.pos \in Node
    /\ walk' = IF name[walk.pos] = walk.for THEN NULL
               ELSE [walk EXCEPT !.pos = next[walk.pos]]
    /\ UNCHANGED <<loadVars, list, todo, node, infos, ended, queued>>

Stopped == (ended \/ status = "failed") /\ UNCHANGED vars

Next ==
    \/ sr_load_rt /\ UNCHANGED listVars
    \/ \E h \in HwInfo : ReceiveHwInfo(h)
    \/ Link \/ CopyName \/ EndList \/ Added
    \/ Queue \/ Resolve
    \/ WalkBegin \/ WalkStep
    \/ Stopped

Spec == Init /\ [][Next]_vars

-----------------------------------------------------------------------------
(* Properties.                                                             *)

\* The sweeper never follows a pointer that malloc left in a node, and never
\* misses the interface it looks for, although main may be linking in the
\* interfaces of another VNSHWINFO at any point of its walk.
WalkStaysOnList == walk # NULL => walk.pos \in Node

=============================================================================
