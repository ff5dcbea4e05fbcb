---------------------------- MODULE SessionProofs ----------------------------
(***************************************************************************)
(* The session for every set of commands, files and interfaces, and for    *)
(* every order in which the server may send its commands; and the answer   *)
(* to an authentication request for salts and keys of every length.        *)
(***************************************************************************)
EXTENDS Session, Auth, FiniteInduction, SequenceTheorems

\* How far the handshake got at each place main can be at, and that a packet
\* is handled only after all of it.
HandshakeInv ==
    /\ pc \in PC
    /\ pc \in {"rtable", "loop"} => authenticated /\ opened
    /\ pc = "loop" => sweeping
    /\ handled => authenticated /\ opened /\ sweeping
    /\ authenticated => pc \notin {"start", "auth_request", "auth_status"}

\* "Ready" is only ever said in the loop, and the loop is left for good.
ReadyInv ==
    /\ pc \in PC
    /\ ready => pc \in {"loop"} \cup Ended
    /\ ready /\ pc = "loop" =>
          /\ routing_table # <<>>
          /\ \A k \in DOMAIN routing_table : routing_table[k] \in Names(if_list)

\* A status command carries the server's decision.
LEMMA StatusIsBoolean ==
    ASSUME NEW c \in Command, c.type = "VNS_AUTH_STATUS"
    PROVE  c.ok \in BOOLEAN
BY SessionAssumption DEF AuthRequestCommand, AuthStatusCommand, RtableCommand,
    HwInfoCommand, PacketCommand, CloseCommand, BannerCommand, TooLongCommand

\* Both invariants hold at the start.
LEMMA SessionInit == Init => HandshakeInv /\ ReadyInv
BY DEF Init, HandshakeInv, ReadyInv, PC, Ended

\* The steps that do not handle a command.
LEMMA OtherStepsKeep ==
    ASSUME HandshakeInv, ReadyInv,
           \/ \E c \in Command : ServerSends(c)
           \/ ServerStops \/ Start \/ RecvFails \/ Spin \/ Terminated
           \/ UNCHANGED vars
    PROVE  HandshakeInv' /\ ReadyInv'
<1> USE DEF HandshakeInv, ReadyInv, PC, Ended, progress
<1>1. ASSUME NEW c \in Command, ServerSends(c) PROVE HandshakeInv' /\ ReadyInv'
  BY <1>1 DEF ServerSends
<1>2. CASE ServerStops
  BY <1>2 DEF ServerStops
<1>3. CASE Start
  BY <1>3 DEF Start
<1>4. CASE RecvFails
  BY <1>4 DEF RecvFails
<1>5. CASE Spin \/ Terminated \/ UNCHANGED vars
  BY <1>5 DEF Spin, Terminated, vars
<1> QED  BY <1>1, <1>2, <1>3, <1>4, <1>5

\* The commands of the handshake.
LEMMA HandshakeKeeps ==
    ASSUME HandshakeInv, ReadyInv, NEW c \in Command,
           Unexpected(c) \/ AuthRequest(c) \/ AuthStatus(c) \/ Rtable(c)
    PROVE  HandshakeInv' /\ ReadyInv'
<1> USE DEF HandshakeInv, ReadyInv, PC, Ended, progress
<1>1. CASE Unexpected(c)
  BY <1>1 DEF Unexpected
<1>2. CASE AuthRequest(c)
  BY <1>2 DEF AuthRequest
<1>3. CASE AuthStatus(c)
  <2>1. c.ok \in BOOLEAN
    BY <1>3, StatusIsBoolean DEF AuthStatus
  <2>2. UNCHANGED <<if_list, ready, handled>>
    BY <1>3 DEF AuthStatus
  <2>3. CASE /\ pc = "loop"
             /\ pc' \in {"loop", "finished"}
             /\ UNCHANGED <<authenticated, opened, routing_table, sweeping>>
    BY <2>2, <2>3
  <2>4. CASE /\ pc = "auth_status"
             /\ pc' = "failed"
             /\ UNCHANGED <<authenticated, opened, routing_table, sweeping>>
    BY <2>2, <2>4
  <2>5. CASE /\ pc = "auth_status"
             /\ authenticated'
             /\ pc' = "failed"
             /\ UNCHANGED <<opened, routing_table, sweeping>>
    BY <2>2, <2>5
  <2>6. CASE /\ pc = "auth_status"
             /\ authenticated' /\ opened'
             /\ pc' \in {"rtable", "failed"}
             /\ UNCHANGED <<routing_table, sweeping>>
    BY <2>2, <2>6
  <2>7. CASE /\ pc = "auth_status"
             /\ authenticated' /\ opened' /\ sweeping'
             /\ pc' = "loop"
    BY <2>2, <2>7
  <2> QED  BY <1>3, <2>1, <2>3, <2>4, <2>5, <2>6, <2>7
           DEF AuthStatus, EnterLoop, sr_handle_auth_status
<1>4. CASE Rtable(c)
  <2>1. UNCHANGED <<if_list, opened, authenticated, ready, handled>>
    BY <1>4 DEF Rtable
  <2>2. CASE /\ pc = "rtable"
             /\ pc' = "failed"
             /\ UNCHANGED <<routing_table, sweeping>>
    BY <2>1, <2>2
  <2>3. CASE pc = "rtable" /\ pc' = "loop" /\ sweeping'
    BY <2>1, <2>3
  <2>4. CASE /\ pc = "loop"
             /\ pc' \in {"loop", "finished"}
             /\ UNCHANGED <<routing_table, sweeping>>
    BY <2>1, <2>4
  <2> QED  BY <1>4, <2>2, <2>3, <2>4 DEF Rtable, EnterLoop
<1> QED  BY <1>1, <1>2, <1>3, <1>4

\* The commands of the loop.
LEMMA LoopKeeps ==
    ASSUME HandshakeInv, ReadyInv, NEW c \in Command,
           TooLong(c) \/ HwInfo(c) \/ VnsPacket(c) \/ Close(c) \/ Banner(c)
    PROVE  HandshakeInv' /\ ReadyInv'
<1> USE DEF HandshakeInv, ReadyInv, PC, Ended, progress
<1>1. CASE TooLong(c) \/ Close(c)
  BY <1>1 DEF TooLong, Close
<1>2. CASE Banner(c)
  BY <1>2 DEF Banner
<1>3. CASE HwInfo(c)
  <2>1. pc = "loop" /\ UNCHANGED <<routing_table, opened, sweeping, authenticated, handled>>
    BY <1>3 DEF HwInfo
  <2>2. CASE pc' = "aborted"
    BY <2>1, <2>2
  <2>3. CASE pc' = "finished"
    BY <2>1, <2>3
  <2>4. CASE pc' = "loop" /\ Verified(if_list')
    <3>1. /\ routing_table # <<>>
          /\ \A k \in DOMAIN routing_table : routing_table[k] \in Names(if_list')
      BY <2>4 DEF Verified
    <3> QED  BY <2>1, <2>4, <3>1 DEF Names
  <2> QED  BY <1>3, <2>2, <2>3, <2>4 DEF HwInfo
<1>4. CASE VnsPacket(c)
  BY <1>4 DEF VnsPacket
<1> QED  BY <1>1, <1>2, <1>3, <1>4

\* Every step keeps both invariants.
LEMMA SessionNext == HandshakeInv /\ ReadyInv /\ [Next]_vars => HandshakeInv' /\ ReadyInv'
BY OtherStepsKeep, HandshakeKeeps, LoopKeeps DEF Next, Process, Handle

\* Whatever the server sends, and in whatever order, a packet reaches
\* sr_handlepacket only after the server accepted us, the topology was opened
\* and the sweeper was started.
THEOREM PacketsNeedSessionCorrect == Spec => []PacketsNeedSession
<1>1. HandshakeInv => PacketsNeedSession
  BY DEF HandshakeInv, PacketsNeedSession
<1> QED  BY <1>1, SessionInit, SessionNext, PTL DEF Spec

\* Once the router has said that it is ready, and while it serves commands,
\* it has routes and each of them leads to an interface it has, whatever
\* tables and interfaces the server sends afterwards.
THEOREM ReadyCorrect == Spec => []ReadyMeansConsistent
<1>1. ReadyInv => ReadyMeansConsistent
  BY DEF ReadyInv, ReadyMeansConsistent
<1> QED  BY <1>1, SessionInit, SessionNext, PTL DEF Spec

-----------------------------------------------------------------------------
(* The interfaces of a VNSHWINFO, entry by entry.                          *)

Interface == [name : Iface, ip : IP \cup {NoIP}]

\* Types of what the handlers take from a command.
LEMMA CommandFacts ==
    ASSUME NEW c \in Command
    PROVE  /\ c.type = "VNSHWINFO" => c.hw \in Seq(HwInfoEntry) /\ c.hw \in HwInfos
           /\ c.type = "VNS_RTABLE" /\ c.ok => c.table \in Table \cup {Unreadable}
<1>1. c.type = "VNSHWINFO" => c \in HwInfoCommand
  BY SessionAssumption DEF AuthRequestCommand, AuthStatusCommand, RtableCommand,
      HwInfoCommand, PacketCommand, CloseCommand, BannerCommand, TooLongCommand
<1>2. c.type = "VNS_RTABLE" => c \in RtableCommand
  BY SessionAssumption DEF AuthRequestCommand, AuthStatusCommand, RtableCommand,
      HwInfoCommand, PacketCommand, CloseCommand, BannerCommand, TooLongCommand
<1>3. c.type = "VNSHWINFO" => c.hw \in Seq(HwInfoEntry)
  BY <1>1 DEF HwInfoCommand
<1>4. c.type = "VNSHWINFO" => c.hw \in HwInfos
  BY DEF HwInfos
<1> QED  BY <1>2, <1>3, <1>4 DEF RtableCommand

\* What one entry does to the list.
LEMMA HwEntryFacts ==
    ASSUME NEW list \in Seq(Interface), NEW e \in HwInfoEntry
    PROVE  /\ HwEntry(list, e) \in Seq(Interface)
           /\ e.key = "HWINTERFACE" =>
                /\ Len(HwEntry(list, e)) = Len(list) + 1
                /\ HwEntry(list, e)[Len(list) + 1] = [name |-> e.value, ip |-> NoIP]
                /\ \A k \in 1..Len(list) : HwEntry(list, e)[k] = list[k]
           /\ e.key = "HWETHIP" /\ Len(list) >= 1 =>
                /\ Len(HwEntry(list, e)) = Len(list)
                /\ HwEntry(list, e)[Len(list)] = [name |-> list[Len(list)].name, ip |-> e.value]
                /\ \A k \in 1..(Len(list) - 1) : HwEntry(list, e)[k] = list[k]
           /\ e.key \notin {"HWINTERFACE", "HWETHIP"} => HwEntry(list, e) = list
<1>0. Len(list) \in Nat /\ list \in [1..Len(list) -> Interface]
  BY LenProperties
<1>1. CASE e.key = "HWINTERFACE"
  <2>1. HwEntry(list, e) = Append(list, [name |-> e.value, ip |-> NoIP])
    BY <1>1 DEF HwEntry
  <2>2. [name |-> e.value, ip |-> NoIP] \in Interface
    BY <1>1 DEF HwInfoEntry, Interface
  <2> QED  BY <1>0, <1>1, <2>1, <2>2, AppendProperties
<1>2. CASE e.key = "HWETHIP"
  <2>1. HwEntry(list, e) = [list EXCEPT ![Len(list)].ip = e.value]
    BY <1>2 DEF HwEntry
  <2>2. e.value \in IP
    BY <1>2 DEF HwInfoEntry
  <2>3. CASE Len(list) = 0
    <3>1. HwEntry(list, e) = list
      BY <1>0, <2>1, <2>3
    <3> QED  BY <1>2, <2>3, <3>1
  <2>4. CASE Len(list) >= 1
    <3>1. list[Len(list)] \in Interface /\ Len(list) \in 1..Len(list)
      BY <1>0, <2>4
    <3> DEFINE new == [list[Len(list)] EXCEPT !.ip = e.value]
    <3>2. new \in Interface /\ new = [name |-> list[Len(list)].name, ip |-> e.value]
      BY <2>2, <3>1 DEF Interface
    <3>3. HwEntry(list, e) = [list EXCEPT ![Len(list)] = new]
      BY <2>1
    <3> HIDE DEF new
    <3>4. /\ HwEntry(list, e) \in Seq(Interface) /\ Len(HwEntry(list, e)) = Len(list)
          /\ \A k \in 1..Len(list) :
                HwEntry(list, e)[k] = IF k = Len(list) THEN new ELSE list[k]
      BY <3>1, <3>2, <3>3, ExceptSeq
    <3> QED  BY <1>0, <1>2, <3>1, <3>2, <3>4
  <2> QED  BY <1>0, <2>3, <2>4
<1>3. CASE e.key \notin {"HWINTERFACE", "HWETHIP"}
  BY <1>3 DEF HwEntry
<1> QED  BY <1>1, <1>2, <1>3

\* The lists after each entry.
HwLoop(hw, g) ==
    /\ g \in [0..Len(hw) -> Seq(Interface)]
    /\ g[0] = if_list
    /\ \A n \in 1..Len(hw) : g[n] = HwEntry(g[n - 1], hw[n])

IsHwLoop(hw, g) ==
    g = [n \in 0..Len(hw) |-> IF n = 0 THEN if_list ELSE HwEntry(g[n - 1], hw[n])]

LEMMA HwLoopExists ==
    ASSUME NEW hw \in Seq(HwInfoEntry), if_list \in Seq(Interface)
    PROVE  \E g : IsHwLoop(hw, g)
<1> DEFINE N == Len(hw)
           S == Seq(Interface)
           F == [n \in 1..N |-> [s \in S |-> HwEntry(s, hw[n])]]
<1>1. N \in Nat /\ \A n \in 1..N : hw[n] \in HwInfoEntry
  BY LenProperties, ElementOfSeq
<1>2. \A n \in 1..N : \A s \in S : F[n][s] \in S
  <2> SUFFICES ASSUME NEW n \in 1..N, NEW s \in S PROVE HwEntry(s, hw[n]) \in S
    OBVIOUS
  <2> QED  BY <1>1, HwEntryFacts
<1>3. PICK g : LoopUpTo(N, S, if_list, F, g)
  <2>1. if_list \in S
    OBVIOUS
  <2> HIDE DEF F, N, S
  <2> QED  BY <1>1, <1>2, <2>1, LoopExists
<1>4. ASSUME NEW k \in 1..N PROVE g[k] = HwEntry(g[k - 1], hw[k])
  <2>1. k - 1 \in 0..N /\ g[k - 1] \in S /\ g[k] = F[k][g[k - 1]]
    <3> HIDE DEF N, F, S
    <3> QED  BY <1>1, <1>3 DEF LoopUpTo
  <2> QED  BY <2>1
<1>5. g = [n \in 0..N |-> IF n = 0 THEN if_list ELSE HwEntry(g[n - 1], hw[n])]
  <2>1. DOMAIN g = 0..N /\ g = [n \in 0..N |-> g[n]] /\ g[0] = if_list
    <3> HIDE DEF N, F, S
    <3> QED  BY <1>3 DEF LoopUpTo
  <2>2. \A n \in 0..N : n = 0 \/ n \in 1..N
    BY <1>1
  <2> QED  BY <1>4, <2>1, <2>2
<1> QED  BY <1>5 DEF IsHwLoop

LEMMA HwLoopFacts ==
    ASSUME NEW hw \in Seq(HwInfoEntry), if_list \in Seq(Interface)
    PROVE  \E g : HwLoop(hw, g) /\ sr_handle_hwinfo(hw) = g[Len(hw)]
<1> DEFINE N == Len(hw)
           g == CHOOSE f : IsHwLoop(hw, f)
           S == {n \in 0..N : g[n] \in Seq(Interface)}
<1>1. sr_handle_hwinfo(hw) = g[N]
  BY DEF sr_handle_hwinfo, IsHwLoop
<1>2. IsHwLoop(hw, g)
  BY HwLoopExists
<1> HIDE DEF g
<1>3. N \in Nat /\ \A n \in 1..N : hw[n] \in HwInfoEntry
  BY LenProperties, ElementOfSeq
<1>4. /\ DOMAIN g = 0..N /\ g = [n \in 0..N |-> g[n]]
      /\ g[0] = if_list
      /\ \A n \in 1..N : g[n] = HwEntry(g[n - 1], hw[n])
  BY <1>2, <1>3 DEF IsHwLoop
<1>5. ASSUME NEW n \in 0..(N - 1), n \in S PROVE n + 1 \in S
  <2>1. n + 1 \in 1..N /\ n + 1 \in 0..N /\ (n + 1) - 1 = n
    BY <1>3
  <2>2. g[n + 1] = HwEntry(g[n], hw[n + 1]) /\ hw[n + 1] \in HwInfoEntry
    BY <1>3, <1>4, <2>1
  <2>3. g[n + 1] \in Seq(Interface)
    BY <1>5, <2>2, HwEntryFacts
  <2> QED  BY <2>1, <2>3
<1>6. \A n \in 0..N : n \in S
  <2>1. 0 \in S
    BY <1>3, <1>4
  <2> HIDE DEF S
  <2> QED  BY <1>3, <1>5, <2>1, UpTo
<1>7. HwLoop(hw, g)
  BY <1>4, <1>6 DEF HwLoop
<1> QED  BY <1>1, <1>7

-----------------------------------------------------------------------------
(* The addresses.                                                          *)

\* After n entries: all interfaces but the last are as announced, and the
\* last one is the list's from before, or it has the name of the last
\* interface announced and, if an address came after that, that address.
AddressesUpTo(hw, n, list) ==
    /\ \A k \in 1..(Len(list) - 1) : list[k] \in Announced
    /\ \/ /\ list = if_list
          /\ \A k \in 1..n : hw[k].key # "HWINTERFACE"
       \/ \E i \in 1..n :
             /\ hw[i].key = "HWINTERFACE"
             /\ \A k \in (i + 1)..n : hw[k].key # "HWINTERFACE"
             /\ Len(list) >= 1
             /\ list[Len(list)].name = hw[i].value
             /\ \/ list[Len(list)] \in Announced
                \/ \A k \in (i + 1)..n : hw[k].key # "HWETHIP"

LEMMA AddressesStep ==
    ASSUME HwInfoComplete, NEW hw \in HwInfos, hw \in Seq(HwInfoEntry),
           InterfaceAddresses, if_list \in Seq(Interface),
           NEW n \in 0..(Len(hw) - 1), NEW list \in Seq(Interface), AddressesUpTo(hw, n, list)
    PROVE  AddressesUpTo(hw, n + 1, HwEntry(list, hw[n + 1]))
<1> DEFINE e == hw[n + 1]
           new == HwEntry(list, e)
<1>0. /\ Len(hw) \in Nat /\ n \in Nat /\ n + 1 \in 1..Len(hw) /\ DOMAIN hw = 1..Len(hw)
      /\ Len(list) \in Nat /\ Len(if_list) \in Nat /\ DOMAIN if_list = 1..Len(if_list)
  BY LenProperties
<1>1. e \in HwInfoEntry
  BY <1>0, ElementOfSeq
<1>2. /\ new \in Seq(Interface)
      /\ e.key = "HWINTERFACE" =>
            /\ Len(new) = Len(list) + 1
            /\ new[Len(list) + 1] = [name |-> e.value, ip |-> NoIP]
            /\ \A k \in 1..Len(list) : new[k] = list[k]
      /\ e.key = "HWETHIP" /\ Len(list) >= 1 =>
            /\ Len(new) = Len(list)
            /\ new[Len(list)] = [name |-> list[Len(list)].name, ip |-> e.value]
            /\ \A k \in 1..(Len(list) - 1) : new[k] = list[k]
      /\ e.key \notin {"HWINTERFACE", "HWETHIP"} => new = list
  BY <1>1, HwEntryFacts
<1>3. \A k \in 1..(Len(list) - 1) : list[k] \in Announced
  BY DEF AddressesUpTo
<1> DEFINE Before == list = if_list /\ \A k \in 1..n : hw[k].key # "HWINTERFACE"
           Latest(i) == /\ hw[i].key = "HWINTERFACE"
                        /\ \A k \in (i + 1)..n : hw[k].key # "HWINTERFACE"
                        /\ Len(list) >= 1
                        /\ list[Len(list)].name = hw[i].value
                        /\ \/ list[Len(list)] \in Announced
                           \/ \A k \in (i + 1)..n : hw[k].key # "HWETHIP"
<1>4. Before \/ \E i \in 1..n : Latest(i)
  BY DEF AddressesUpTo
<1> SUFFICES AddressesUpTo(hw, n + 1, new)
  OBVIOUS
<1> HIDE DEF e, new
<1>5. CASE e.key = "HWINTERFACE"
  <2>1. \A k \in 1..Len(list) : list[k] \in Announced
    <3>1. CASE Before
      BY <1>0, <3>1 DEF InterfaceAddresses
    <3>2. ASSUME NEW i \in 1..n, Latest(i) PROVE list[Len(list)] \in Announced
      <4>1. i \in DOMAIN hw
        BY <1>0
      <4>2. PICK j \in DOMAIN hw : AddressOf(hw, i, j)
        BY <3>2, <4>1 DEF HwInfoComplete
      <4>3. /\ i \in Nat /\ j \in Nat /\ i < j /\ hw[j].key = "HWETHIP"
            /\ \A k \in (i + 1)..j : hw[k].key # "HWINTERFACE"
        BY <1>0, <4>2 DEF AddressOf
      <4>4. j <= n
        <5>1. n + 1 \notin (i + 1)..j
          BY <1>5, <4>3 DEF e
        <5> QED  BY <1>0, <4>3, <5>1
      <4>5. j \in (i + 1)..n
        BY <1>0, <4>3, <4>4
      <4> QED  BY <3>2, <4>3, <4>5
    <3>3. CASE \E i \in 1..n : Latest(i)
      <4>1. list[Len(list)] \in Announced
        BY <3>2, <3>3
      <4> QED  BY <1>0, <1>3, <4>1
    <3> QED  BY <1>4, <3>1, <3>3
  <2>2. Len(new) = Len(list) + 1 /\ Len(new) - 1 = Len(list)
    BY <1>0, <1>2, <1>5
  <2>3. \A k \in 1..(Len(new) - 1) : new[k] \in Announced
    BY <1>2, <1>5, <2>1, <2>2
  <2>4. new[Len(new)].name = hw[n + 1].value
    BY <1>2, <1>5, <2>2 DEF e
  <2>5. /\ n + 1 \in 1..(n + 1) /\ hw[n + 1].key = "HWINTERFACE" /\ Len(new) >= 1
        /\ \A k \in ((n + 1) + 1)..(n + 1) : FALSE
    BY <1>0, <1>5, <2>2 DEF e
  <2> QED  BY <2>3, <2>4, <2>5 DEF AddressesUpTo
<1>6. CASE e.key = "HWETHIP"
  <2>1. PICK j \in DOMAIN hw : AddressOf(hw, j, n + 1)
    BY <1>0, <1>6 DEF HwInfoComplete, e
  <2>2. ~Before
    <3>1. j \in 1..n /\ hw[j].key = "HWINTERFACE"
      BY <1>0, <2>1 DEF AddressOf
    <3> QED  BY <3>1
  <2>3. PICK i \in 1..n : Latest(i)
    BY <1>4, <2>2
  <2>4. AddressOf(hw, i, n + 1) /\ i \in DOMAIN hw /\ n + 1 \in DOMAIN hw
    <3>1. i \in DOMAIN hw /\ n + 1 \in DOMAIN hw /\ i \in Nat /\ i < n + 1
      BY <1>0
    <3>2. /\ hw[n + 1].key = "HWETHIP"
          /\ hw[i].key = "HWINTERFACE"
          /\ \A k \in (i + 1)..n : hw[k].key # "HWINTERFACE"
      BY <1>6, <2>3 DEF e
    <3>3. ASSUME NEW k \in (i + 1)..(n + 1) PROVE hw[k].key # "HWINTERFACE"
      <4>1. k = n + 1 \/ k \in (i + 1)..n
        BY <1>0, <3>1
      <4> QED  BY <3>2, <4>1
    <3> QED  BY <3>1, <3>2, <3>3 DEF AddressOf
  <2>5. [name |-> hw[i].value, ip |-> hw[n + 1].value] \in Announced
    <3> DEFINE A == {[name |-> hw[p[1]].value, ip |-> hw[p[2]].value] :
                        p \in {q \in (DOMAIN hw) \X (DOMAIN hw) : AddressOf(hw, q[1], q[2])}}
    <3>1. <<i, n + 1>> \in {q \in (DOMAIN hw) \X (DOMAIN hw) : AddressOf(hw, q[1], q[2])}
      BY <2>4
    <3>2. [name |-> hw[i].value, ip |-> hw[n + 1].value] \in A
      BY <3>1
    <3>3. A \subseteq Announced
      BY DEF Announced
    <3> QED  BY <3>2, <3>3
  <2>6. /\ Len(new) = Len(list) /\ Len(new) >= 1
        /\ new[Len(new)] = [name |-> hw[i].value, ip |-> hw[n + 1].value]
        /\ \A k \in 1..(Len(new) - 1) : new[k] = list[k]
    BY <1>2, <1>6, <2>3 DEF e
  <2>7. new[Len(new)].name = hw[i].value /\ new[Len(new)] \in Announced
    BY <2>5, <2>6
  <2>8. /\ i \in 1..(n + 1) /\ hw[i].key = "HWINTERFACE"
        /\ \A k \in (i + 1)..(n + 1) : hw[k].key # "HWINTERFACE"
    BY <1>0, <2>3, <2>4 DEF AddressOf
  <2>9. \A k \in 1..(Len(new) - 1) : new[k] \in Announced
    BY <1>3, <2>6
  <2> QED  BY <2>6, <2>7, <2>8, <2>9 DEF AddressesUpTo
<1>7. CASE e.key \notin {"HWINTERFACE", "HWETHIP"}
  <2>1. new = list /\ hw[n + 1].key \notin {"HWINTERFACE", "HWETHIP"}
    BY <1>2, <1>7 DEF e
  <2>2. CASE Before
    <3>1. \A k \in 1..(n + 1) : hw[k].key # "HWINTERFACE"
      BY <1>0, <2>1, <2>2
    <3> QED  BY <1>3, <2>1, <2>2, <3>1 DEF AddressesUpTo
  <2>3. ASSUME NEW i \in 1..n, Latest(i) PROVE AddressesUpTo(hw, n + 1, new)
    <3>1. /\ i \in 1..(n + 1)
          /\ \A k \in (i + 1)..(n + 1) : k = n + 1 \/ k \in (i + 1)..n
      BY <1>0
    <3>2. \A k \in (i + 1)..(n + 1) : hw[k].key # "HWINTERFACE"
      BY <2>1, <2>3, <3>1
    <3>3. \/ new[Len(new)] \in Announced
          \/ \A k \in (i + 1)..(n + 1) : hw[k].key # "HWETHIP"
      BY <2>1, <2>3, <3>1
    <3>4. Len(new) >= 1 /\ new[Len(new)].name = hw[i].value /\ hw[i].key = "HWINTERFACE"
      BY <2>1, <2>3
    <3>5. \A k \in 1..(Len(new) - 1) : new[k] \in Announced
      BY <1>3, <2>1
    <3> QED  BY <3>1, <3>2, <3>3, <3>4, <3>5 DEF AddressesUpTo
  <2> QED  BY <1>4, <2>2, <2>3
<1> QED  BY <1>5, <1>6, <1>7

\* So a command that announces all its interfaces with their addresses leaves
\* all of them with theirs.
LEMMA HwInfoAddresses ==
    ASSUME HwInfoComplete, NEW hw \in HwInfos, hw \in Seq(HwInfoEntry),
           InterfaceAddresses, if_list \in Seq(Interface)
    PROVE  /\ sr_handle_hwinfo(hw) \in Seq(Interface)
           /\ \A k \in DOMAIN sr_handle_hwinfo(hw) : sr_handle_hwinfo(hw)[k] \in Announced
<1> DEFINE N == Len(hw)
<1>1. PICK g : HwLoop(hw, g) /\ sr_handle_hwinfo(hw) = g[N]
  BY HwLoopFacts
<1> DEFINE S == {n \in 0..N : AddressesUpTo(hw, n, g[n])}
           list == g[N]
<1>2. N \in Nat /\ DOMAIN hw = 1..N
  BY LenProperties
<1>3. 0 \in S
  <2>1. g[0] = if_list /\ Len(if_list) \in Nat /\ DOMAIN if_list = 1..Len(if_list)
    BY <1>1, LenProperties DEF HwLoop
  <2>2. \A k \in 1..(Len(if_list) - 1) : if_list[k] \in Announced
    BY <2>1 DEF InterfaceAddresses
  <2>3. AddressesUpTo(hw, 0, g[0])
    BY <2>1, <2>2 DEF AddressesUpTo
  <2> QED  BY <1>2, <2>3
<1>4. ASSUME NEW n \in 0..(N - 1), n \in S PROVE n + 1 \in S
  <2>1. n \in 0..N /\ n + 1 \in 1..N /\ n + 1 \in 0..N /\ (n + 1) - 1 = n
    BY <1>2
  <2>2. g[n] \in Seq(Interface) /\ g[n + 1] = HwEntry(g[n], hw[n + 1])
    BY <1>1, <2>1 DEF HwLoop
  <2>3. AddressesUpTo(hw, n + 1, HwEntry(g[n], hw[n + 1]))
    BY <1>4, <2>2, AddressesStep
  <2> QED  BY <2>1, <2>2, <2>3
<1>5. AddressesUpTo(hw, N, list)
  <2>1. \A n \in 0..N : n \in S
    <3> HIDE DEF S
    <3> QED  BY <1>2, <1>3, <1>4, UpTo
  <2> QED  BY <1>2, <2>1
<1>6. list \in Seq(Interface) /\ Len(list) \in Nat /\ DOMAIN list = 1..Len(list)
  BY <1>1, <1>2, LenProperties DEF HwLoop
<1> HIDE DEF list
<1>7. CASE list = if_list
  BY <1>1, <1>6, <1>7 DEF InterfaceAddresses, list
<1>8. ASSUME NEW i \in 1..N, hw[i].key = "HWINTERFACE",
             \/ list[Len(list)] \in Announced
             \/ \A k \in (i + 1)..N : hw[k].key # "HWETHIP"
      PROVE  list[Len(list)] \in Announced
  <2>1. PICK j \in DOMAIN hw : AddressOf(hw, i, j)
    BY <1>2, <1>8 DEF HwInfoComplete
  <2>2. j \in (i + 1)..N /\ hw[j].key = "HWETHIP"
    BY <1>2, <2>1 DEF AddressOf
  <2> QED  BY <1>8, <2>2
<1>9. CASE list # if_list
  <2>1. list[Len(list)] \in Announced
    BY <1>5, <1>8, <1>9 DEF AddressesUpTo
  <2>2. \A k \in 1..(Len(list) - 1) : list[k] \in Announced
    BY <1>5 DEF AddressesUpTo
  <2>3. \A k \in DOMAIN list : list[k] \in Announced
    BY <1>6, <2>1, <2>2
  <2> QED  BY <1>1, <1>6, <2>3 DEF list
<1> QED  BY <1>7, <1>9

-----------------------------------------------------------------------------
(* Types and addresses as invariants.                                      *)

\* SessionTypeOK, with the list of interfaces as the sequence it is.
TypeInv == SessionTypeOK /\ rtarg \in File /\ if_list \in Seq(Interface)

LEMMA HwInfoType ==
    ASSUME NEW hw \in Seq(HwInfoEntry), if_list \in Seq(Interface)
    PROVE  sr_handle_hwinfo(hw) \in Seq(Interface)
<1>1. PICK g : HwLoop(hw, g) /\ sr_handle_hwinfo(hw) = g[Len(hw)]
  BY HwLoopFacts
<1>2. Len(hw) \in Nat
  BY LenProperties
<1> QED  BY <1>1, <1>2 DEF HwLoop

LEMMA InterfacesType == if_list \in Seq(Interface) => \A k \in DOMAIN if_list : if_list[k] \in Interface
BY LenProperties, ElementOfSeq

LEMMA TypeNext ==
    ASSUME TypeInv, [Next]_vars
    PROVE  TypeInv'
<1> USE DEF TypeInv, SessionTypeOK, PC, Ended, server, config
<1>1. ASSUME NEW c \in Command, ServerSends(c) PROVE TypeInv'
  BY <1>1, SessionAssumption DEF ServerSends
<1>2. CASE ServerStops
  BY <1>2 DEF ServerStops
<1>3. CASE Start
  BY <1>3 DEF Start, sr_load_rt, File
<1>4. CASE RecvFails
  BY <1>4 DEF RecvFails
<1>5. CASE Spin \/ Terminated \/ UNCHANGED vars
  BY <1>5 DEF Spin, Terminated, vars
<1>6. ASSUME NEW fs, fs \in [File -> Table \cup {Unreadable}], EnterLoop(fs)
      PROVE  routing_table' \in Table \cup {<<>>} /\ pc' \in PC
  BY <1>6 DEF EnterLoop, sr_load_rt
<1>7. ASSUME NEW c \in Command, Unexpected(c) \/ TooLong(c) \/ AuthRequest(c) \/ Close(c) \/ Banner(c)
      PROVE  TypeInv'
  BY <1>7 DEF Unexpected, TooLong, AuthRequest, Close, Banner, Reading, config
<1>8. ASSUME NEW c \in Command, AuthStatus(c) PROVE TypeInv'
  <2>1. UNCHANGED <<files, if_list, sent, connection, rtarg>>
    BY <1>8 DEF AuthStatus, Reading, config
  <2>2. routing_table' \in Table \cup {<<>>} /\ pc' \in PC
    <3>1. CASE EnterLoop(files)
      BY <1>6, <3>1
    <3>2. CASE ~EnterLoop(files)
      BY <1>8, <3>2 DEF AuthStatus
    <3> QED  BY <3>1, <3>2
  <2> QED  BY <2>1, <2>2
<1>9. ASSUME NEW c \in Command, Rtable(c) PROVE TypeInv'
  <2>1. UNCHANGED <<if_list, sent, connection, rtarg>> /\ c.type = "VNS_RTABLE"
    BY <1>9 DEF Rtable, Reading, config
  <2> DEFINE fs == [files EXCEPT !["rtable.vrhost"] = c.table]
  <2>2. CASE /\ c.ok /\ files' = fs
             /\ IF pc = "rtable" THEN EnterLoop(fs)
                ELSE UNCHANGED <<pc, routing_table, sweeping>>
    <3>1. fs \in [File -> Table \cup {Unreadable}]
      BY <2>1, <2>2, CommandFacts DEF File
    <3> HIDE DEF fs
    <3>2. routing_table' \in Table \cup {<<>>} /\ pc' \in PC
      BY <1>6, <2>2, <3>1
    <3> QED  BY <2>1, <2>2, <3>1, <3>2
  <2>3. CASE pc' \in {"failed", "finished"} /\ UNCHANGED <<files, routing_table>>
    BY <2>1, <2>3
  <2> QED  BY <1>9, <2>2, <2>3 DEF Rtable
<1>10. ASSUME NEW c \in Command, HwInfo(c) PROVE TypeInv'
  <2>1. UNCHANGED <<files, routing_table, sent, connection, rtarg>> /\ pc' \in PC
    BY <1>10 DEF HwInfo, Reading, config
  <2>2. if_list' \in Seq(Interface)
    <3>1. c.hw \in Seq(HwInfoEntry)
      BY <1>10, CommandFacts DEF HwInfo
    <3>2. sr_handle_hwinfo(c.hw) \in Seq(Interface)
      BY <3>1, HwInfoType
    <3> QED  BY <1>10, <3>2 DEF HwInfo
  <2>3. \A k \in DOMAIN if_list' : if_list'[k] \in Interface
    BY <2>2, LenProperties, ElementOfSeq
  <2> QED  BY <2>1, <2>2, <2>3 DEF Interface
<1>11. ASSUME NEW c \in Command, VnsPacket(c) PROVE TypeInv'
  BY <1>11 DEF VnsPacket, Reading, config
<1> QED  BY <1>1, <1>2, <1>3, <1>4, <1>5, <1>7, <1>8, <1>9, <1>10, <1>11
         DEF Next, Process, Handle

LEMMA TypeAlways == Spec => []TypeInv
<1>1. Init => TypeInv
  <2> SUFFICES ASSUME Init PROVE TypeInv
    OBVIOUS
  <2>1. if_list = <<>> /\ if_list \in Seq(Interface)
    BY DEF Init
  <2>2. sent \in 0..MaxCommands
    BY SessionAssumption DEF Init
  <2> QED  BY <2>1, <2>2 DEF Init, TypeInv, SessionTypeOK, PC
<1> QED  BY <1>1, TypeNext, PTL DEF Spec

\* For every set of commands, files and interfaces the process keeps its
\* types: in particular it never uses a table that could not be read.
THEOREM SessionTypeCorrect == Spec => []SessionTypeOK
<1>1. TypeInv => SessionTypeOK
  BY DEF TypeInv
<1> QED  BY <1>1, TypeAlways, PTL

LEMMA AddressesNext ==
    ASSUME HwInfoComplete, TypeInv, InterfaceAddresses, [Next]_vars
    PROVE  InterfaceAddresses'
<1>1. ASSUME NEW c \in Command, HwInfo(c) PROVE InterfaceAddresses'
  <2>1. c.hw \in Seq(HwInfoEntry) /\ c.hw \in HwInfos
    BY <1>1, CommandFacts DEF HwInfo
  <2>2. \A k \in DOMAIN sr_handle_hwinfo(c.hw) : sr_handle_hwinfo(c.hw)[k] \in Announced
    BY <2>1, HwInfoAddresses DEF TypeInv
  <2>3. if_list' = if_list \/ if_list' = sr_handle_hwinfo(c.hw)
    BY <1>1 DEF HwInfo
  <2>4. \A k \in DOMAIN if_list' : if_list'[k] \in Announced
    BY <2>2, <2>3 DEF InterfaceAddresses
  <2> QED  BY <2>4 DEF InterfaceAddresses, Announced, HwInfos, AddressOf
<1>2. CASE UNCHANGED if_list
  BY <1>2 DEF InterfaceAddresses, Announced, HwInfos, AddressOf
<1>3. UNCHANGED if_list \/ \E c \in Command : HwInfo(c)
  BY DEF Next, Process, Handle, ServerSends, ServerStops, Start, RecvFails, Spin,
         Terminated, Unexpected, TooLong, AuthRequest, AuthStatus, Rtable, VnsPacket,
         Close, Banner, vars
<1> QED  BY <1>1, <1>2, <1>3

\* If every VNSHWINFO gives each interface in it an address, and each address
\* after its interface (HwInfoComplete), then each interface of the list has the address announced for it,
\* however often and in whatever portions the server announces them.
THEOREM InterfacesCorrect ==
    ASSUME HwInfoComplete
    PROVE  Spec => []InterfaceAddresses
<1>1. Init => InterfaceAddresses
  BY DEF Init, InterfaceAddresses
<1>2. TypeInv /\ InterfaceAddresses /\ [Next]_vars => InterfaceAddresses'
  BY AddressesNext
<1> QED  BY <1>1, <1>2, TypeAlways, PTL DEF Spec

-----------------------------------------------------------------------------
(* The SHA-1 context.                                                      *)

Places == 0..(Block - 1)

Context ==
    [Length_Low : Nat, Length_High : Nat, Message_Block : [Places -> Nat],
     Message_Block_Index : Nat, Message_Digest : Seq([Places -> Nat]),
     Computed : BOOLEAN, Corrupted : BOOLEAN]

\* The first n octets of m went in: q whole blocks and r octets of another
\* one, and their bits are counted in two words.
Took(c, m, n, q, r) ==
    /\ n = q * Block + r
    /\ c.Message_Block_Index = r
    /\ Len(c.Message_Digest) = q
    /\ \A b \in 1..q : \A i \in Places : c.Message_Digest[b][i] = m[(b - 1) * Block + i + 1]
    /\ \A i \in 0..(r - 1) : c.Message_Block[i] = m[q * Block + i + 1]

Counted(c, n) ==
    /\ c.Length_Low < LowMod /\ c.Length_High < HighMod
    /\ 8 * n = c.Length_High * LowMod + c.Length_Low

\* The context after n octets of m: they are all in it, unless there are too
\* many to count.
After(c, m, n) ==
    /\ c \in Context
    /\ ~c.Computed
    /\ IF 8 * n < LowMod * HighMod
       THEN /\ ~c.Corrupted
            /\ Counted(c, n)
            /\ \E q \in Nat, r \in Places : Took(c, m, n, q, r)
       ELSE c.Corrupted

LEMMA SizesFacts ==
    /\ Block \in Nat /\ Block > 3
    /\ LowMod \in Nat /\ LowMod > 0 /\ LowMod % 8 = 0
    /\ HighMod \in Nat /\ HighMod > 1
BY Sha1Assumption

\* A block after Put and after SHA1ProcessMessageBlock.
LEMMA PutFacts ==
    ASSUME NEW c \in Context, NEW o \in Nat
    PROVE  LET d == Put(c, o)
           IN  /\ d \in Context
               /\ d.Message_Block_Index = c.Message_Block_Index + 1
               /\ d.Message_Block = [c.Message_Block EXCEPT ![c.Message_Block_Index] = o]
               /\ d.Length_Low = c.Length_Low /\ d.Length_High = c.Length_High
               /\ d.Message_Digest = c.Message_Digest
               /\ d.Computed = c.Computed /\ d.Corrupted = c.Corrupted
<1> DEFINE i == c.Message_Block_Index
           block == [c.Message_Block EXCEPT ![i] = o]
<1>1. i \in Nat /\ c.Message_Block \in [Places -> Nat]
  BY DEF Context
<1>2. block \in [Places -> Nat]
  BY <1>1
<1>3. Put(c, o) = [c EXCEPT !.Message_Block = block, !.Message_Block_Index = i + 1]
  BY DEF Put
<1> HIDE DEF block
<1> DEFINE d == [c EXCEPT !.Message_Block = block, !.Message_Block_Index = i + 1]
<1>4. d \in Context
  <2>1. i + 1 \in Nat
    BY <1>1
  <2>2. ASSUME NEW j \in Nat PROVE [c EXCEPT !.Message_Block = block, !.Message_Block_Index = j] \in Context
    BY <1>2 DEF Context
  <2> QED  BY <2>1, <2>2
<1>5. d.Computed = c.Computed /\ d.Corrupted = c.Corrupted
  BY DEF Context
<1>6. /\ d.Message_Block = block /\ d.Message_Block_Index = i + 1
      /\ d.Length_Low = c.Length_Low /\ d.Length_High = c.Length_High
      /\ d.Message_Digest = c.Message_Digest
  BY DEF Context
<1> HIDE DEF d
<1> QED  BY <1>3, <1>4, <1>5, <1>6 DEF block, d

LEMMA CountFacts ==
    ASSUME NEW c \in Context, ~c.Corrupted, NEW n \in Nat, Counted(c, n)
    PROVE  LET d == CountOctet(c)
           IN  /\ d \in Context
               /\ d.Message_Block_Index = c.Message_Block_Index
               /\ d.Message_Block = c.Message_Block
               /\ d.Message_Digest = c.Message_Digest
               /\ d.Computed = c.Computed
               /\ IF 8 * (n + 1) < LowMod * HighMod
                  THEN ~d.Corrupted /\ Counted(d, n + 1)
                  ELSE d.Corrupted
<1> DEFINE l == c.Length_Low
           h == c.Length_High
           low == (l + 8) % LowMod
           high == IF low = 0 THEN (h + 1) % HighMod ELSE h
           d == CountOctet(c)
<1>1. l \in Nat /\ h \in Nat /\ l < LowMod /\ h < HighMod /\ 8 * n = h * LowMod + l
  BY DEF Counted, Context
<1>2. PICK k \in Nat : LowMod = 8 * k /\ k > 0
  BY SizesFacts
<1>3. PICK j \in Nat : l = 8 * j
  <2>1. l = 8 * (n - h * k) /\ n - h * k \in Int
    BY <1>1, <1>2
  <2>2. n - h * k >= 0
    BY <1>1, <2>1
  <2> QED  BY <2>1, <2>2
<1>4. j + 1 <= k
  BY <1>1, <1>2, <1>3
<1>5. low = IF j + 1 = k THEN 0 ELSE l + 8
  <2>1. CASE j + 1 = k
    <3>1. l + 8 = LowMod
      BY <1>2, <1>3, <2>1
    <3> QED  BY <2>1, <3>1, SizesFacts
  <2>2. CASE j + 1 # k
    <3>1. l + 8 < LowMod /\ l + 8 \in Nat
      BY <1>1, <1>2, <1>3, <1>4, <2>2
    <3> QED  BY <2>2, <3>1, SizesFacts
  <2> QED  BY <2>1, <2>2
<1>6. high = IF j + 1 = k THEN IF h + 1 = HighMod THEN 0 ELSE h + 1 ELSE h
  <2>1. (h + 1) % HighMod = IF h + 1 = HighMod THEN 0 ELSE h + 1
    BY <1>1, SizesFacts
  <2>2. l + 8 # 0
    BY <1>1
  <2> HIDE DEF l, h
  <2> QED  BY <1>5, <2>1, <2>2
<1>7. /\ d \in Context
      /\ d.Length_Low = low /\ d.Length_High = high
      /\ d.Corrupted = (low = 0 /\ high = 0)
      /\ d.Message_Block_Index = c.Message_Block_Index
      /\ d.Message_Block = c.Message_Block
      /\ d.Message_Digest = c.Message_Digest
      /\ d.Computed = c.Computed
  <2>1. low \in Nat /\ high \in Nat
    BY <1>1, <1>5, <1>6
  <2> HIDE DEF low, high
  <2>2. d = [c EXCEPT !.Length_Low = low, !.Length_High = high, !.Corrupted = low = 0 /\ high = 0]
    BY DEF CountOctet, low, high
  <2> QED  BY <2>1, <2>2 DEF Context
<1> HIDE DEF low, high, d, l, h
<1>8. HighMod \in Nat /\ LowMod \in Nat
  BY SizesFacts
<1>9. CASE j + 1 = k /\ h + 1 = HighMod
  <2>1. 8 * (n + 1) = (h + 1) * LowMod
    BY <1>1, <1>2, <1>3, <1>9
  <2>2. 8 * (n + 1) = LowMod * HighMod
    BY <1>8, <1>9, <2>1
  <2>3. d.Corrupted
    BY <1>5, <1>6, <1>7, <1>9
  <2> QED  BY <1>7, <1>8, <2>2, <2>3 DEF d
<1>10. CASE j + 1 = k /\ h + 1 # HighMod
  <2>1. 8 * (n + 1) = (h + 1) * LowMod
    BY <1>1, <1>2, <1>3, <1>10
  <2>2. low = 0 /\ high = h + 1 /\ h + 1 < HighMod /\ high # 0
    BY <1>1, <1>5, <1>6, <1>8, <1>10
  <2>3. Counted(d, n + 1)
    BY <1>1, <1>2, <1>7, <1>8, <2>1, <2>2 DEF Counted
  <2>4. 8 * (n + 1) < LowMod * HighMod
    <3>1. (h + 1) * LowMod < HighMod * LowMod
      BY <1>1, <1>2, <1>8, <2>2
    <3> QED  BY <1>1, <1>8, <2>1, <3>1
  <2> QED  BY <1>7, <2>2, <2>3, <2>4 DEF d
<1>11. CASE j + 1 # k
  <2>1. low = l + 8 /\ high = h /\ low # 0 /\ l + 8 < LowMod
    BY <1>1, <1>2, <1>3, <1>4, <1>5, <1>6, <1>11
  <2>2. 8 * (n + 1) = h * LowMod + (l + 8)
    BY <1>1, <1>8
  <2>3. Counted(d, n + 1)
    BY <1>1, <1>7, <2>1, <2>2 DEF Counted
  <2>4. 8 * (n + 1) < LowMod * HighMod
    <3>1. h * LowMod + (l + 8) < (h + 1) * LowMod
      BY <1>1, <1>8, <2>1
    <3>2. (h + 1) * LowMod <= HighMod * LowMod
      BY <1>1, <1>8
    <3> QED  BY <1>1, <1>8, <2>2, <3>1, <3>2
  <2> QED  BY <1>7, <2>1, <2>3, <2>4 DEF d
<1> QED  BY <1>9, <1>10, <1>11

LEMMA ProcessFacts ==
    ASSUME NEW c \in Context
    PROVE  LET d == SHA1ProcessMessageBlock(c)
           IN  /\ d \in Context
               /\ d.Message_Block_Index = 0 /\ d.Message_Block = c.Message_Block
               /\ d.Message_Digest = Append(c.Message_Digest, c.Message_Block)
               /\ d.Length_Low = c.Length_Low /\ d.Length_High = c.Length_High
               /\ d.Computed = c.Computed /\ d.Corrupted = c.Corrupted
<1> DEFINE digest == Append(c.Message_Digest, c.Message_Block)
<1>1. digest \in Seq([Places -> Nat])
  BY DEF Context
<1> DEFINE d == [c EXCEPT !.Message_Digest = digest, !.Message_Block_Index = 0]
<1>2. SHA1ProcessMessageBlock(c) = d
  BY DEF SHA1ProcessMessageBlock
<1> HIDE DEF digest
<1>3. d \in Context
  BY <1>1 DEF Context
<1>4. d.Computed = c.Computed /\ d.Corrupted = c.Corrupted
  BY DEF Context
<1>5. /\ d.Message_Digest = digest /\ d.Message_Block_Index = 0
      /\ d.Message_Block = c.Message_Block
      /\ d.Length_Low = c.Length_Low /\ d.Length_High = c.Length_High
  BY DEF Context
<1> HIDE DEF d
<1> QED  BY <1>2, <1>3, <1>4, <1>5 DEF digest

\* A full block goes to the digest.
LEMMA BlockDone ==
    ASSUME NEW c \in Context, NEW m, NEW n \in Nat, NEW q \in Nat,
           Took(c, m, n, q, Block)
    PROVE  Took(SHA1ProcessMessageBlock(c), m, n, q + 1, 0)
<1> DEFINE d == SHA1ProcessMessageBlock(c)
<1>1. /\ d.Message_Block_Index = 0
      /\ d.Message_Digest = Append(c.Message_Digest, c.Message_Block)
  BY ProcessFacts
<1> HIDE DEF d
<1>2. c.Message_Digest \in Seq([Places -> Nat]) /\ c.Message_Block \in [Places -> Nat]
  BY DEF Context
<1>3. /\ n = q * Block + Block /\ Len(c.Message_Digest) = q
      /\ \A b \in 1..q : \A i \in Places : c.Message_Digest[b][i] = m[(b - 1) * Block + i + 1]
      /\ \A i \in 0..(Block - 1) : c.Message_Block[i] = m[q * Block + i + 1]
  BY DEF Took
<1>4. /\ Len(d.Message_Digest) = q + 1
      /\ \A b \in 1..q : d.Message_Digest[b] = c.Message_Digest[b]
      /\ d.Message_Digest[q + 1] = c.Message_Block
  BY <1>1, <1>2, <1>3, AppendProperties
<1>5. n = (q + 1) * Block + 0
  BY <1>3, SizesFacts
<1>6. ASSUME NEW b \in 1..(q + 1), NEW i \in Places
      PROVE  d.Message_Digest[b][i] = m[(b - 1) * Block + i + 1]
  <2>1. CASE b \in 1..q
    <3>1. c.Message_Digest[b][i] = m[(b - 1) * Block + i + 1]
      BY <1>3, <2>1, Zenon
    <3>2. d.Message_Digest[b] = c.Message_Digest[b]
      BY <1>4, <2>1, Zenon
    <3> QED  BY <3>1, <3>2, Zenon
  <2>2. CASE b = q + 1
    <3>1. b - 1 = q
      BY <2>2
    <3> QED  BY <1>3, <1>4, <2>2, <3>1 DEF Places
  <2> QED  BY <2>1, <2>2
<1>7. Took(d, m, n, q + 1, 0)
  <2>1. \A i \in 0..(0 - 1) : d.Message_Block[i] = m[(q + 1) * Block + i + 1]
    OBVIOUS
  <2>2. \A b \in 1..(q + 1) : \A i \in Places : d.Message_Digest[b][i] = m[(b - 1) * Block + i + 1]
    BY <1>6
  <2> QED  BY <1>1, <1>4, <1>5, <2>1, <2>2, Zenon DEF Took
<1> QED  BY <1>7 DEF d

\* Another octet goes to the block.
LEMMA PutTook ==
    ASSUME NEW c \in Context, NEW m, NEW n \in Nat, NEW q \in Nat, NEW r \in Places,
           Took(c, m, n, q, r), NEW o \in Nat, o = m[n + 1]
    PROVE  Took(Put(c, o), m, n + 1, q, r + 1)
<1> DEFINE d == Put(c, o)
<1>0. Block \in Nat /\ r \in Nat /\ r < Block
  BY SizesFacts DEF Places
<1>1. /\ n = q * Block + r /\ c.Message_Block_Index = r /\ Len(c.Message_Digest) = q
      /\ \A b \in 1..q : \A i \in Places : c.Message_Digest[b][i] = m[(b - 1) * Block + i + 1]
      /\ \A i \in 0..(r - 1) : c.Message_Block[i] = m[q * Block + i + 1]
      /\ c.Message_Block \in [Places -> Nat]
  BY DEF Took, Context
<1>2. /\ d.Message_Block_Index = r + 1
      /\ d.Message_Block = [c.Message_Block EXCEPT ![r] = o]
      /\ d.Message_Digest = c.Message_Digest
  BY <1>1, PutFacts
<1> HIDE DEF d
<1>3. ASSUME NEW i \in 0..((r + 1) - 1) PROVE d.Message_Block[i] = m[q * Block + i + 1]
  <2>1. CASE i = r
    <3>1. q * Block + i + 1 = n + 1
      BY <1>0, <1>1, <2>1
    <3> QED  BY <1>1, <1>2, <2>1, <3>1
  <2>2. CASE i # r
    <3>1. i \in 0..(r - 1) /\ i \in Places
      BY <1>0, <2>2 DEF Places
    <3> QED  BY <1>1, <1>2, <2>2, <3>1
  <2> QED  BY <2>1, <2>2
<1>4. n + 1 = q * Block + (r + 1)
  BY <1>0, <1>1
<1>5. Took(d, m, n + 1, q, r + 1)
  BY <1>1, <1>2, <1>3, <1>4 DEF Took
<1> QED  BY <1>5 DEF d

\* One turn of the loop of SHA1Input.
LEMMA OctetTaken ==
    ASSUME NEW c, NEW m, NEW n \in Nat, After(c, m, n), NEW o \in Nat, o = m[n + 1]
    PROVE  After(InputOctet(c, o), m, n + 1)
<1> DEFINE p == Put(c, o)
           d == CountOctet(p)
           e == SHA1ProcessMessageBlock(d)
<1>0. /\ c \in Context /\ ~c.Computed /\ LowMod \in Nat /\ HighMod \in Nat /\ Block \in Nat
      /\ LowMod * HighMod \in Nat
  BY SizesFacts DEF After
<1>1. InputOctet(c, o) = IF c.Corrupted THEN c ELSE IF d.Message_Block_Index = Block THEN e ELSE d
  BY DEF InputOctet
<1>2. CASE ~(8 * n < LowMod * HighMod)
  <2>1. c.Corrupted /\ ~(8 * (n + 1) < LowMod * HighMod)
    BY <1>0, <1>2 DEF After
  <2>2. InputOctet(c, o) = c
    BY <1>1, <2>1
  <2> QED  BY <1>0, <2>1, <2>2 DEF After
<1>3. CASE 8 * n < LowMod * HighMod
  <2>1. ~c.Corrupted /\ Counted(c, n)
    BY <1>3 DEF After
  <2>2. PICK q \in Nat, r \in Places : Took(c, m, n, q, r)
    BY <1>3 DEF After
  <2>3. Took(p, m, n + 1, q, r + 1)
    BY <1>0, <2>2, PutTook
  <2>4. p \in Context /\ ~p.Corrupted /\ ~p.Computed /\ Counted(p, n)
    <3>1. /\ p \in Context /\ p.Computed = c.Computed /\ p.Corrupted = c.Corrupted
          /\ p.Length_Low = c.Length_Low /\ p.Length_High = c.Length_High
      BY <1>0, PutFacts
    <3> QED  BY <1>0, <2>1, <3>1 DEF Counted
  <2> HIDE DEF p
  <2>5. /\ d \in Context /\ ~d.Computed
        /\ d.Message_Block_Index = p.Message_Block_Index
        /\ d.Message_Block = p.Message_Block /\ d.Message_Digest = p.Message_Digest
        /\ IF 8 * (n + 1) < LowMod * HighMod
           THEN ~d.Corrupted /\ Counted(d, n + 1) ELSE d.Corrupted
    BY <2>4, CountFacts
  <2> HIDE DEF d
  <2>6. Took(d, m, n + 1, q, r + 1) /\ d.Message_Block_Index = r + 1
    BY <2>3, <2>5 DEF Took
  <2>7. r + 1 \in Nat /\ r + 1 <= Block
    BY <1>0 DEF Places
  <2>8. CASE r + 1 = Block
    <3>1. InputOctet(c, o) = e
      BY <1>1, <2>1, <2>6, <2>8
    <3>2. /\ e \in Context /\ ~e.Computed /\ e.Corrupted = d.Corrupted
          /\ e.Length_Low = d.Length_Low /\ e.Length_High = d.Length_High
      BY <2>5, ProcessFacts
    <3>3. Took(e, m, n + 1, q + 1, 0)
      BY <2>5, <2>6, <2>8, BlockDone
    <3> HIDE DEF e
    <3>4. q + 1 \in Nat /\ 0 \in Places
      BY SizesFacts DEF Places
    <3>5. Counted(d, n + 1) => Counted(e, n + 1)
      BY <3>2 DEF Counted
    <3> QED  BY <2>5, <3>1, <3>2, <3>3, <3>4, <3>5 DEF After
  <2>9. CASE r + 1 # Block
    <3>1. InputOctet(c, o) = d
      BY <1>1, <2>1, <2>6, <2>9
    <3>2. r + 1 \in Places
      BY <1>0, <2>7, <2>9 DEF Places
    <3> QED  BY <2>5, <2>6, <3>1, <3>2 DEF After
  <2> QED  BY <2>8, <2>9
<1> QED  BY <1>2, <1>3

LEMMA InputOctetType ==
    ASSUME NEW c \in Context, NEW o \in Nat
    PROVE  InputOctet(c, o) \in Context
<1> DEFINE p == Put(c, o)
           d == CountOctet(p)
<1>1. p \in Context
  BY PutFacts
<1> HIDE DEF p
<1>2. d \in Context
  <2> DEFINE low == (p.Length_Low + 8) % LowMod
             high == IF low = 0 THEN (p.Length_High + 1) % HighMod ELSE p.Length_High
  <2>1. p.Length_Low \in Nat /\ p.Length_High \in Nat
    BY <1>1 DEF Context
  <2>2. low \in Nat /\ high \in Nat
    BY <2>1, SizesFacts
  <2>3. d = [p EXCEPT !.Length_Low = low, !.Length_High = high, !.Corrupted = low = 0 /\ high = 0]
    BY DEF CountOctet
  <2> HIDE DEF low, high, d
  <2> QED  BY <1>1, <2>2, <2>3 DEF Context
<1> HIDE DEF d
<1>3. SHA1ProcessMessageBlock(d) \in Context
  BY <1>2, ProcessFacts
<1> QED  BY <1>2, <1>3 DEF InputOctet, p, d

\* The contexts after each octet of a chunk.
IsInput(c, chunk, g) ==
    g = [n \in 0..Len(chunk) |-> IF n = 0 THEN c ELSE InputOctet(g[n - 1], chunk[n])]

LEMMA InputExists ==
    ASSUME NEW c \in Context, NEW chunk \in Seq(Nat)
    PROVE  \E g : IsInput(c, chunk, g)
<1> DEFINE N == Len(chunk)
           F == [n \in 1..N |-> [s \in Context |-> InputOctet(s, chunk[n])]]
<1>1. N \in Nat /\ \A n \in 1..N : chunk[n] \in Nat
  BY LenProperties, ElementOfSeq
<1>2. \A n \in 1..N : \A s \in Context : F[n][s] \in Context
  <2> SUFFICES ASSUME NEW n \in 1..N, NEW s \in Context PROVE InputOctet(s, chunk[n]) \in Context
    OBVIOUS
  <2> QED  BY <1>1, InputOctetType
<1>3. PICK g : LoopUpTo(N, Context, c, F, g)
  <2> HIDE DEF F, N
  <2> QED  BY <1>1, <1>2, LoopExists
<1>4. ASSUME NEW k \in 1..N PROVE g[k] = InputOctet(g[k - 1], chunk[k])
  <2>1. k - 1 \in 0..N /\ g[k - 1] \in Context /\ g[k] = F[k][g[k - 1]]
    <3> HIDE DEF N, F
    <3> QED  BY <1>1, <1>3 DEF LoopUpTo
  <2> QED  BY <2>1
<1>5. g = [n \in 0..N |-> IF n = 0 THEN c ELSE InputOctet(g[n - 1], chunk[n])]
  <2>1. DOMAIN g = 0..N /\ g = [n \in 0..N |-> g[n]] /\ g[0] = c
    <3> HIDE DEF N, F
    <3> QED  BY <1>3 DEF LoopUpTo
  <2>2. \A n \in 0..N : n = 0 \/ n \in 1..N
    BY <1>1
  <2> QED  BY <1>4, <2>1, <2>2
<1> QED  BY <1>5 DEF IsInput

\* The loop of SHA1Input takes all of its chunk.
LEMMA LoopTaken ==
    ASSUME NEW c, NEW m, NEW n \in Nat, After(c, m, n), NEW chunk \in Seq(Nat),
           \A k \in 1..Len(chunk) : chunk[k] = m[n + k],
           NEW g, IsInput(c, chunk, g)
    PROVE  After(g[Len(chunk)], m, n + Len(chunk))
<1> DEFINE N == Len(chunk)
           S == {k \in 0..N : After(g[k], m, n + k)}
<1>1. N \in Nat /\ \A k \in 1..N : chunk[k] \in Nat
  BY LenProperties, ElementOfSeq
<1>2. g[0] = c /\ \A k \in 1..N : g[k] = InputOctet(g[k - 1], chunk[k])
  <2>1. g = [k \in 0..N |-> IF k = 0 THEN c ELSE InputOctet(g[k - 1], chunk[k])]
    BY DEF IsInput
  <2>2. \A k \in 1..N : k \in 0..N /\ k # 0
    BY <1>1
  <2>3. 0 \in 0..N
    BY <1>1
  <2> HIDE DEF N
  <2>4. ASSUME NEW k \in 0..N PROVE g[k] = IF k = 0 THEN c ELSE InputOctet(g[k - 1], chunk[k])
    BY <2>1, Zenon
  <2> QED  BY <2>2, <2>3, <2>4
<1>3. 0 \in S
  <2>1. n + 0 = n
    OBVIOUS
  <2> QED  BY <1>1, <1>2, <2>1
<1>4. ASSUME NEW k \in 0..(N - 1), k \in S PROVE k + 1 \in S
  <2>1. /\ k \in Nat /\ k + 1 \in 1..N /\ k + 1 \in 0..N /\ (k + 1) - 1 = k
        /\ n + k \in Nat /\ (n + k) + 1 = n + (k + 1)
    BY <1>1
  <2>2. /\ g[k + 1] = InputOctet(g[k], chunk[k + 1])
        /\ chunk[k + 1] \in Nat /\ chunk[k + 1] = m[(n + k) + 1]
    BY <1>1, <1>2, <2>1
  <2>3. After(InputOctet(g[k], chunk[k + 1]), m, (n + k) + 1)
    BY <1>4, <2>1, <2>2, OctetTaken
  <2> QED  BY <2>1, <2>2, <2>3
<1>5. \A k \in 0..N : k \in S
  <2> HIDE DEF S
  <2> QED  BY <1>1, <1>3, <1>4, UpTo
<1> QED  BY <1>1, <1>5

LEMMA InputTaken ==
    ASSUME NEW c, NEW m, NEW n \in Nat, After(c, m, n), NEW chunk \in Seq(Nat),
           \A k \in 1..Len(chunk) : chunk[k] = m[n + k]
    PROVE  After(SHA1Input(c, chunk), m, n + Len(chunk))
<1> DEFINE g == CHOOSE f : IsInput(c, chunk, f)
<1>0. c \in Context /\ ~c.Computed /\ Len(chunk) \in Nat /\ LowMod * HighMod \in Nat
  BY SizesFacts, LenProperties DEF After
<1>1. SHA1Input(c, chunk) =
        IF chunk = <<>> THEN c
        ELSE IF c.Computed \/ c.Corrupted THEN [c EXCEPT !.Corrupted = TRUE]
        ELSE g[Len(chunk)]
  BY DEF SHA1Input, IsInput
<1>2. CASE chunk = <<>>
  <2>1. n + Len(chunk) = n
    BY <1>2
  <2> QED  BY <1>1, <1>2, <2>1
<1>3. CASE chunk # <<>> /\ c.Corrupted
  <2> DEFINE d == [c EXCEPT !.Corrupted = TRUE]
  <2>1. d \in Context /\ d.Corrupted /\ ~d.Computed
    BY <1>0 DEF Context
  <2> HIDE DEF d
  <2>2. ~(8 * n < LowMod * HighMod)
    BY <1>3 DEF After
  <2>3. ~(8 * (n + Len(chunk)) < LowMod * HighMod)
    BY <1>0, <2>2
  <2>4. SHA1Input(c, chunk) = d
    BY <1>1, <1>3 DEF d
  <2> QED  BY <2>1, <2>3, <2>4 DEF After
<1>4. CASE chunk # <<>> /\ ~c.Corrupted
  <2>1. IsInput(c, chunk, g)
    BY <1>0, InputExists
  <2> HIDE DEF g
  <2>2. After(g[Len(chunk)], m, n + Len(chunk))
    BY <2>1, LoopTaken
  <2> QED  BY <1>0, <1>1, <1>4, <2>2
<1> QED  BY <1>2, <1>3, <1>4

LEMMA ResetTaken ==
    ASSUME NEW m
    PROVE  After(SHA1Reset, m, 0)
<1> DEFINE c == SHA1Reset
           z == [i \in 0..Block - 1 |-> 0]
<1>1. Block \in Nat /\ LowMod \in Nat /\ HighMod \in Nat /\ LowMod > 0 /\ HighMod > 0 /\ 0 < LowMod * HighMod
  BY SizesFacts
<1>2. z \in [Places -> Nat]
  BY DEF Places
<1>3. c = [Length_Low |-> 0, Length_High |-> 0, Message_Block |-> z, Message_Block_Index |-> 0,
           Message_Digest |-> <<>>, Computed |-> FALSE, Corrupted |-> FALSE]
  BY DEF SHA1Reset
<1> HIDE DEF c, z
<1>4. c \in Context /\ ~c.Computed /\ ~c.Corrupted
  BY <1>2, <1>3 DEF Context
<1>5. Counted(c, 0)
  BY <1>1, <1>3 DEF Counted
<1>6. Took(c, m, 0, 0, 0) /\ 0 \in Places
  BY <1>1, <1>3, SizesFacts DEF Took, Places
<1> QED  BY <1>1, <1>4, <1>5, <1>6 DEF After, c

\* The context that sr_handle_auth_request fills.
LEMMA SaltedTaken ==
    ASSUME NEW salt \in Seq(Nat), NEW key \in Seq(Nat)
    PROVE  After(Salted(salt, key), salt \o key, Len(salt \o key))
<1> DEFINE m == salt \o key
           c == SHA1Input(SHA1Reset, salt)
<1>1. /\ Len(salt) \in Nat /\ Len(key) \in Nat /\ Len(m) = Len(salt) + Len(key)
      /\ \A k \in 1..Len(salt) : salt[k] = m[0 + k]
  BY LenProperties, ConcatProperties
<1>2. \A k \in 1..Len(key) : key[k] = m[Len(salt) + k]
  <2> SUFFICES ASSUME NEW k \in 1..Len(key) PROVE key[k] = m[Len(salt) + k]
    OBVIOUS
  <2>1. /\ Len(salt) + k \in 1..(Len(salt) + Len(key)) /\ ~(Len(salt) + k <= Len(salt))
        /\ (Len(salt) + k) - Len(salt) = k
    BY <1>1
  <2> QED  BY <2>1, ConcatProperties
<1> HIDE DEF m
<1>3. After(SHA1Reset, m, 0)
  BY ResetTaken
<1>4. After(c, m, 0 + Len(salt))
  BY <1>1, <1>3, InputTaken
<1> HIDE DEF c
<1>5. After(c, m, Len(salt))
  BY <1>1, <1>4
<1>6. After(SHA1Input(c, key), m, Len(salt) + Len(key))
  BY <1>1, <1>2, <1>5, InputTaken
<1> QED  BY <1>1, <1>6 DEF Salted, c, m

-----------------------------------------------------------------------------
(* The padding.                                                            *)

LEMMA PutZerosFacts ==
    ASSUME NEW c \in Context, NEW n \in Nat
    PROVE  LET d == PutZeros(c, n)
           IN  /\ d \in Context
               /\ \A i \in Places : d.Message_Block[i] =
                     IF c.Message_Block_Index <= i /\ i < n THEN 0 ELSE c.Message_Block[i]
               /\ d.Message_Block_Index = n
               /\ d.Length_Low = c.Length_Low /\ d.Length_High = c.Length_High
               /\ d.Message_Digest = c.Message_Digest
               /\ d.Corrupted = c.Corrupted
<1> DEFINE x == c.Message_Block_Index
           old == c.Message_Block
           block == [i \in DOMAIN old |-> IF i \in x..n - 1 THEN 0 ELSE old[i]]
           d == [c EXCEPT !.Message_Block = block, !.Message_Block_Index = n]
<1>1. x \in Nat /\ old \in [Places -> Nat] /\ \A i \in Places : i \in Nat
  BY DEF Context, Places
<1>2. PutZeros(c, n) = d
  BY DEF PutZeros
<1>3. ASSUME NEW i \in Places
      PROVE  block[i] = IF x <= i /\ i < n THEN 0 ELSE old[i]
  <2>1. i \in x..n - 1 <=> x <= i /\ i < n
    BY <1>1
  <2> QED  BY <1>1, <2>1
<1>4. block \in [Places -> Nat]
  BY <1>1
<1> HIDE DEF block
<1>5. d \in Context
  BY <1>4 DEF Context
<1>6. d.Corrupted = c.Corrupted
  BY DEF Context
<1>7. /\ d.Message_Block = block /\ d.Message_Block_Index = n
      /\ d.Length_Low = c.Length_Low /\ d.Length_High = c.Length_High
      /\ d.Message_Digest = c.Message_Digest
  BY DEF Context
<1> HIDE DEF d
<1> QED  BY <1>2, <1>3, <1>5, <1>6, <1>7

\* SHA1PadMessage once PadBody has made room for the length.
LEMMA LengthPut ==
    ASSUME NEW d \in Context
    PROVE  LET e == SHA1ProcessMessageBlock(
                      [d EXCEPT !.Message_Block[LengthAt] = d.Length_High,
                                !.Message_Block[LengthAt + 1] = d.Length_Low])
           IN  /\ e \in Context /\ e.Corrupted = d.Corrupted
               /\ \E last \in [Places -> Nat] :
                     /\ e.Message_Digest = Append(d.Message_Digest, last)
                     /\ \A i \in Places : last[i] =
                           IF i = Block - 2 THEN d.Length_High
                           ELSE IF i = Block - 1 THEN d.Length_Low ELSE d.Message_Block[i]
<1> DEFINE h == d.Length_High
           l == d.Length_Low
           old == d.Message_Block
           first == [old EXCEPT ![LengthAt] = h]
           last == [first EXCEPT ![LengthAt + 1] = l]
           one == [d EXCEPT !.Message_Block = first]
           two == [one EXCEPT !.Message_Block = last]
           given == [d EXCEPT !.Message_Block[LengthAt] = h, !.Message_Block[LengthAt + 1] = l]
<1>1. h \in Nat /\ l \in Nat /\ old \in [Places -> Nat]
  BY DEF Context
<1>2. LengthAt = Block - 2 /\ LengthAt + 1 = Block - 1 /\ Block - 2 \in Places /\ Block - 1 \in Places
  BY SizesFacts DEF LengthAt, Places
<1>3. first \in [Places -> Nat]
  BY <1>1
<1>4. last \in [Places -> Nat]
  BY <1>1, <1>3
<1>5. \A i \in Places : last[i] = IF i = Block - 2 THEN h ELSE IF i = Block - 1 THEN l ELSE old[i]
  <2>1. Block - 2 # Block - 1
    BY SizesFacts
  <2> QED  BY <1>1, <1>2, <2>1
<1>6. one.Message_Block = first
  BY DEF Context
<1>7. given = two
  BY <1>6
<1> HIDE DEF first, last, given
<1>8. two \in Context /\ two.Message_Block = last /\ two.Message_Digest = d.Message_Digest
  BY <1>4 DEF Context
<1>9. two.Corrupted = d.Corrupted
  BY DEF Context
<1> HIDE DEF two, one
<1>10. LET e == SHA1ProcessMessageBlock(two)
       IN  /\ e \in Context /\ e.Corrupted = d.Corrupted
           /\ e.Message_Digest = Append(d.Message_Digest, last)
  BY <1>8, <1>9, ProcessFacts
<1> QED  BY <1>4, <1>5, <1>7, <1>10 DEF given

\* The last block of a digest that ends with one of padding.
OneMore(c, r, last) ==
    \A i \in Places : last[i] =
        IF i < r THEN c.Message_Block[i]
        ELSE IF i = r THEN 128
        ELSE IF i = Block - 2 THEN c.Length_High
        ELSE IF i = Block - 1 THEN c.Length_Low ELSE 0

\* SHA1PadMessage when the length fits into the block of the last octet.
LEMMA PadOneBlock ==
    ASSUME NEW c \in Context, NEW r \in Places, c.Message_Block_Index = r, r <= Block - 3
    PROVE  LET e == SHA1PadMessage(c)
           IN  /\ e \in Context /\ e.Corrupted = c.Corrupted
               /\ \E last \in [Places -> Nat] :
                     /\ e.Message_Digest = Append(c.Message_Digest, last)
                     /\ OneMore(c, r, last)
<1> DEFINE p == Put(c, 128)
           d == PutZeros(p, LengthAt)
<1>0. /\ Block \in Nat /\ Block > 3 /\ r \in Nat /\ LengthAt = Block - 2 /\ LengthAt \in Nat
      /\ \A i \in Places : i \in Nat /\ i < Block
  BY SizesFacts DEF Places, LengthAt
<1>1. /\ p \in Context /\ p.Message_Block_Index = r + 1
      /\ p.Message_Block = [c.Message_Block EXCEPT ![r] = 128]
      /\ p.Length_Low = c.Length_Low /\ p.Length_High = c.Length_High
      /\ p.Message_Digest = c.Message_Digest /\ p.Corrupted = c.Corrupted
  <2>1. 128 \in Nat
    OBVIOUS
  <2>2. /\ p \in Context /\ p.Message_Block_Index = c.Message_Block_Index + 1
        /\ p.Message_Block = [c.Message_Block EXCEPT ![c.Message_Block_Index] = 128]
        /\ p.Length_Low = c.Length_Low /\ p.Length_High = c.Length_High
        /\ p.Message_Digest = c.Message_Digest /\ p.Corrupted = c.Corrupted
    BY <2>1, PutFacts
  <2> HIDE DEF p
  <2> QED  BY <2>2
<1>2. c.Message_Block \in [Places -> Nat]
  BY DEF Context
<1> HIDE DEF p
<1>3. /\ d \in Context
      /\ \A i \in Places : d.Message_Block[i] =
            IF r + 1 <= i /\ i < Block - 2 THEN 0 ELSE p.Message_Block[i]
      /\ d.Length_Low = c.Length_Low /\ d.Length_High = c.Length_High
      /\ d.Message_Digest = c.Message_Digest /\ d.Corrupted = c.Corrupted
  <2>1. /\ PutZeros(p, LengthAt) \in Context
        /\ \A i \in Places : PutZeros(p, LengthAt).Message_Block[i] =
              IF p.Message_Block_Index <= i /\ i < LengthAt THEN 0 ELSE p.Message_Block[i]
        /\ PutZeros(p, LengthAt).Length_Low = p.Length_Low
        /\ PutZeros(p, LengthAt).Length_High = p.Length_High
        /\ PutZeros(p, LengthAt).Message_Digest = p.Message_Digest
        /\ PutZeros(p, LengthAt).Corrupted = p.Corrupted
    <3>1. p \in Context /\ LengthAt \in Nat
      BY <1>0, <1>1
    <3> QED  BY ONLY <3>1, PutZerosFacts
  <2> HIDE DEF d
  <2> QED  BY <1>0, <1>1, <2>1 DEF d
<1>4. PadBody(c) = d
  BY <1>0 DEF PadBody, p
<1> HIDE DEF d
<1>5. LET e == SHA1PadMessage(c)
      IN  /\ e \in Context /\ e.Corrupted = d.Corrupted
          /\ \E last \in [Places -> Nat] :
                /\ e.Message_Digest = Append(d.Message_Digest, last)
                /\ \A i \in Places : last[i] =
                      IF i = Block - 2 THEN d.Length_High
                      ELSE IF i = Block - 1 THEN d.Length_Low ELSE d.Message_Block[i]
  <2> DEFINE x == SHA1ProcessMessageBlock(
                      [d EXCEPT !.Message_Block[LengthAt] = d.Length_High,
                                !.Message_Block[LengthAt + 1] = d.Length_Low])
  <2>1. /\ x \in Context /\ x.Corrupted = d.Corrupted
        /\ \E last \in [Places -> Nat] :
              /\ x.Message_Digest = Append(d.Message_Digest, last)
              /\ \A i \in Places : last[i] =
                    IF i = Block - 2 THEN d.Length_High
                    ELSE IF i = Block - 1 THEN d.Length_Low ELSE d.Message_Block[i]
    BY <1>3, LengthPut
  <2>2. SHA1PadMessage(c) = x
    BY <1>4 DEF SHA1PadMessage
  <2> HIDE DEF x
  <2> QED  BY <2>1, <2>2
<1> DEFINE e == SHA1PadMessage(c)
<1> HIDE DEF e
<1>6. PICK last \in [Places -> Nat] :
          /\ e.Message_Digest = Append(d.Message_Digest, last)
          /\ \A i \in Places : last[i] =
                IF i = Block - 2 THEN d.Length_High
                ELSE IF i = Block - 1 THEN d.Length_Low ELSE d.Message_Block[i]
  BY <1>5 DEF e
<1>7. ASSUME NEW i \in Places
      PROVE  last[i] = IF i < r THEN c.Message_Block[i]
                       ELSE IF i = r THEN 128
                       ELSE IF i = Block - 2 THEN c.Length_High
                       ELSE IF i = Block - 1 THEN c.Length_Low ELSE 0
  <2>1. p.Message_Block[i] = IF i = r THEN 128 ELSE c.Message_Block[i]
    BY <1>1, <1>2
  <2>2. d.Message_Block[i] = IF r + 1 <= i /\ i < Block - 2 THEN 0 ELSE p.Message_Block[i]
    BY <1>3
  <2>3. last[i] = IF i = Block - 2 THEN c.Length_High
                  ELSE IF i = Block - 1 THEN c.Length_Low ELSE d.Message_Block[i]
    BY <1>3, <1>6
  <2>4. i \in Nat /\ i < Block
    BY <1>0
  <2> QED  BY <1>0, <2>1, <2>2, <2>3, <2>4
<1>8. OneMore(c, r, last)
  BY <1>7 DEF OneMore
<1> QED  BY <1>3, <1>5, <1>6, <1>8 DEF e

\* The blocks of a digest that ends with two of padding.
TwoMore(c, r, digest) ==
    \E full \in [Places -> Nat], last \in [Places -> Nat] :
        /\ digest = Append(Append(c.Message_Digest, full), last)
        /\ \A i \in Places : full[i] =
              IF i < r THEN c.Message_Block[i] ELSE IF i = r THEN 128 ELSE 0
        /\ \A i \in Places : last[i] =
              IF i = Block - 2 THEN c.Length_High
              ELSE IF i = Block - 1 THEN c.Length_Low ELSE 0

\* SHA1PadMessage when it does not.
LEMMA PadTwoBlocks ==
    ASSUME NEW c \in Context, NEW r \in Places, c.Message_Block_Index = r, r > Block - 3
    PROVE  LET e == SHA1PadMessage(c)
           IN  /\ e \in Context /\ e.Corrupted = c.Corrupted
               /\ TwoMore(c, r, e.Message_Digest)
<1> DEFINE p == Put(c, 128)
           z == PutZeros(p, Block)
           f == SHA1ProcessMessageBlock(z)
           d == PutZeros(f, LengthAt)
<1>0. /\ Block \in Nat /\ Block > 3 /\ r \in Nat /\ LengthAt = Block - 2 /\ LengthAt \in Nat
      /\ \A i \in Places : i \in Nat /\ i < Block
  BY SizesFacts DEF Places, LengthAt
<1>1. /\ p \in Context /\ p.Message_Block_Index = r + 1
      /\ p.Message_Block = [c.Message_Block EXCEPT ![r] = 128]
      /\ p.Length_Low = c.Length_Low /\ p.Length_High = c.Length_High
      /\ p.Message_Digest = c.Message_Digest /\ p.Corrupted = c.Corrupted
  <2>1. 128 \in Nat
    OBVIOUS
  <2>2. /\ p \in Context /\ p.Message_Block_Index = c.Message_Block_Index + 1
        /\ p.Message_Block = [c.Message_Block EXCEPT ![c.Message_Block_Index] = 128]
        /\ p.Length_Low = c.Length_Low /\ p.Length_High = c.Length_High
        /\ p.Message_Digest = c.Message_Digest /\ p.Corrupted = c.Corrupted
    BY <2>1, PutFacts
  <2> HIDE DEF p
  <2> QED  BY <2>2
<1>2. c.Message_Block \in [Places -> Nat]
  BY DEF Context
<1>3. PadBody(c) = d
  BY <1>0 DEF PadBody
<1> HIDE DEF p
<1>4. /\ z \in Context
      /\ \A i \in Places : z.Message_Block[i] =
            IF r + 1 <= i /\ i < Block THEN 0 ELSE p.Message_Block[i]
      /\ z.Length_Low = c.Length_Low /\ z.Length_High = c.Length_High
      /\ z.Message_Digest = c.Message_Digest /\ z.Corrupted = c.Corrupted
  <2>1. /\ PutZeros(p, Block) \in Context
        /\ \A i \in Places : PutZeros(p, Block).Message_Block[i] =
              IF p.Message_Block_Index <= i /\ i < Block THEN 0 ELSE p.Message_Block[i]
        /\ PutZeros(p, Block).Length_Low = p.Length_Low
        /\ PutZeros(p, Block).Length_High = p.Length_High
        /\ PutZeros(p, Block).Message_Digest = p.Message_Digest
        /\ PutZeros(p, Block).Corrupted = p.Corrupted
    BY <1>0, <1>1, PutZerosFacts
  <2> HIDE DEF z
  <2> QED  BY <1>0, <1>1, <2>1 DEF z
<1> HIDE DEF z
<1>5. /\ f \in Context /\ f.Message_Block_Index = 0
      /\ f.Length_Low = c.Length_Low /\ f.Length_High = c.Length_High
      /\ f.Message_Digest = Append(c.Message_Digest, z.Message_Block)
      /\ f.Corrupted = c.Corrupted
  BY <1>4, ProcessFacts
<1> HIDE DEF f
<1>6. /\ d \in Context
      /\ \A i \in Places : d.Message_Block[i] =
            IF 0 <= i /\ i < Block - 2 THEN 0 ELSE f.Message_Block[i]
      /\ d.Length_Low = c.Length_Low /\ d.Length_High = c.Length_High
      /\ d.Message_Digest = Append(c.Message_Digest, z.Message_Block)
      /\ d.Corrupted = c.Corrupted
  <2>1. /\ PutZeros(f, LengthAt) \in Context
        /\ \A i \in Places : PutZeros(f, LengthAt).Message_Block[i] =
              IF f.Message_Block_Index <= i /\ i < LengthAt THEN 0 ELSE f.Message_Block[i]
        /\ PutZeros(f, LengthAt).Length_Low = f.Length_Low
        /\ PutZeros(f, LengthAt).Length_High = f.Length_High
        /\ PutZeros(f, LengthAt).Message_Digest = f.Message_Digest
        /\ PutZeros(f, LengthAt).Corrupted = f.Corrupted
    <3>1. f \in Context /\ LengthAt \in Nat
      BY <1>0, <1>5
    <3> QED  BY ONLY <3>1, PutZerosFacts
  <2> HIDE DEF d
  <2> QED  BY <1>0, <1>5, <2>1 DEF d
<1> HIDE DEF d
<1> DEFINE e == SHA1PadMessage(c)
<1>7. /\ e \in Context /\ e.Corrupted = d.Corrupted
      /\ \E last \in [Places -> Nat] :
            /\ e.Message_Digest = Append(d.Message_Digest, last)
            /\ \A i \in Places : last[i] =
                  IF i = Block - 2 THEN d.Length_High
                  ELSE IF i = Block - 1 THEN d.Length_Low ELSE d.Message_Block[i]
  <2> DEFINE x == SHA1ProcessMessageBlock(
                      [d EXCEPT !.Message_Block[LengthAt] = d.Length_High,
                                !.Message_Block[LengthAt + 1] = d.Length_Low])
  <2>1. /\ x \in Context /\ x.Corrupted = d.Corrupted
        /\ \E last \in [Places -> Nat] :
              /\ x.Message_Digest = Append(d.Message_Digest, last)
              /\ \A i \in Places : last[i] =
                    IF i = Block - 2 THEN d.Length_High
                    ELSE IF i = Block - 1 THEN d.Length_Low ELSE d.Message_Block[i]
    BY <1>6, LengthPut
  <2>2. SHA1PadMessage(c) = x
    BY <1>3 DEF SHA1PadMessage
  <2> HIDE DEF x
  <2> QED  BY <2>1, <2>2
<1> HIDE DEF e
<1>8. PICK last \in [Places -> Nat] :
          /\ e.Message_Digest = Append(d.Message_Digest, last)
          /\ \A i \in Places : last[i] =
                IF i = Block - 2 THEN d.Length_High
                ELSE IF i = Block - 1 THEN d.Length_Low ELSE d.Message_Block[i]
  BY <1>7
<1> DEFINE full == z.Message_Block
<1>9. full \in [Places -> Nat]
  BY <1>4 DEF Context
<1>10. ASSUME NEW i \in Places
       PROVE  full[i] = IF i < r THEN c.Message_Block[i] ELSE IF i = r THEN 128 ELSE 0
  <2>1. p.Message_Block[i] = IF i = r THEN 128 ELSE c.Message_Block[i]
    BY <1>1, <1>2
  <2>2. z.Message_Block[i] = IF r + 1 <= i /\ i < Block THEN 0 ELSE p.Message_Block[i]
    BY <1>4
  <2>3. i \in Nat /\ i < Block
    BY <1>0
  <2> QED  BY <1>0, <2>1, <2>2, <2>3
<1>11. ASSUME NEW i \in Places
       PROVE  last[i] = IF i = Block - 2 THEN c.Length_High
                        ELSE IF i = Block - 1 THEN c.Length_Low ELSE 0
  <2>1. d.Message_Block[i] = IF 0 <= i /\ i < Block - 2 THEN 0 ELSE f.Message_Block[i]
    BY <1>6
  <2>2. last[i] = IF i = Block - 2 THEN c.Length_High
                  ELSE IF i = Block - 1 THEN c.Length_Low ELSE d.Message_Block[i]
    BY <1>6, <1>8
  <2>3. i \in Nat /\ i < Block
    BY <1>0
  <2> QED  BY <1>0, <2>1, <2>2, <2>3
<1>12. e.Message_Digest = Append(Append(c.Message_Digest, full), last)
  BY <1>6, <1>8
<1> HIDE DEF full
<1>13. TwoMore(c, r, e.Message_Digest)
  BY <1>9, <1>10, <1>11, <1>12 DEF TwoMore
<1> QED  BY <1>6, <1>7, <1>13 DEF e

-----------------------------------------------------------------------------
(* The reference padding.                                                  *)

LEMMA ZerosUnique ==
    ASSUME NEW n \in Nat, NEW j \in Places, NEW k \in Places,
           (n + 1 + j + 2) % Block = 0, (n + 1 + k + 2) % Block = 0
    PROVE  j = k
<1> DEFINE a == n + 1 + j + 2
           b == n + 1 + k + 2
           u == a \div Block
           v == b \div Block
<1>1. Block \in Nat /\ Block > 0 /\ j \in Nat /\ k \in Nat /\ j < Block /\ k < Block
  BY SizesFacts DEF Places
<1>2. a \in Nat /\ b \in Nat /\ a - b = j - k
  BY <1>1
<1> HIDE DEF a, b
<1>3. a % Block = 0 /\ b % Block = 0
  BY DEF a, b
<1>4. u \in Int /\ v \in Int /\ a = Block * u /\ b = Block * v
  BY <1>1, <1>2, <1>3
<1> HIDE DEF u, v
<1>5. j - k = Block * (u - v)
  BY <1>1, <1>2, <1>4
<1>6. CASE u - v >= 1
  <2>1. Block * (u - v) >= Block
    BY <1>1, <1>4, <1>6
  <2> QED  BY <1>1, <1>5, <2>1
<1>7. CASE u - v <= 0 - 1
  <2>1. Block * (u - v) <= 0 - Block
    BY <1>1, <1>4, <1>7
  <2> QED  BY <1>1, <1>5, <2>1
<1>8. CASE u = v
  BY <1>1, <1>4, <1>5, <1>8
<1> QED  BY <1>4, <1>6, <1>7, <1>8

LEMMA PaddedFacts ==
    ASSUME NEW m \in Seq(Nat), NEW z \in Places, (Len(m) + 1 + z + 2) % Block = 0
    PROVE  /\ Len(Padded(m)) = Len(m) + z + 3
           /\ \A k \in 1..(Len(m) + z + 3) : Padded(m)[k] =
                 IF k <= Len(m) THEN m[k]
                 ELSE IF k = Len(m) + 1 THEN 128
                 ELSE IF k <= Len(m) + z + 1 THEN 0
                 ELSE IF k = Len(m) + z + 2 THEN (8 * Len(m)) \div LowMod
                 ELSE (8 * Len(m)) % LowMod
<1> DEFINE n == Len(m)
           bits == 8 * n
           hi == bits \div LowMod
           lo == bits % LowMod
           zeros == CHOOSE k \in 0..Block - 1 : (n + 1 + k + 2) % Block = 0
           zs == [i \in 1..z |-> 0]
           m1 == m \o <<128>>
           m2 == m1 \o zs
           m3 == m2 \o <<hi, lo>>
<1>1. n \in Nat /\ z \in Nat
  BY LenProperties DEF Places
<1>2. hi \in Nat /\ lo \in Nat
  <2>1. bits \in Nat /\ LowMod \in Nat /\ LowMod > 0
    BY <1>1, SizesFacts
  <2> HIDE DEF bits
  <2> QED  BY <2>1
<1>3. zeros = z
  <2>1. zeros \in Places /\ (n + 1 + zeros + 2) % Block = 0
    <3>1. \E k \in 0..Block - 1 : (n + 1 + k + 2) % Block = 0
      BY DEF Places
    <3> HIDE DEF n
    <3> QED  BY <3>1 DEF Places
  <2> HIDE DEF zeros, n
  <2> QED  BY <1>1, <2>1, ZerosUnique DEF n
<1>4. Padded(m) = m3
  BY <1>3 DEF Padded
<1> HIDE DEF hi, lo, zeros
<1>5. zs \in Seq(Nat) /\ Len(zs) = z /\ \A k \in 1..z : zs[k] = 0
  BY <1>1
<1> HIDE DEF zs
<1>6. /\ m1 \in Seq(Nat) /\ Len(m1) = n + 1
      /\ \A k \in 1..(n + 1) : m1[k] = IF k <= n THEN m[k] ELSE 128
  BY <1>1
<1> HIDE DEF m1
<1>7. /\ m2 \in Seq(Nat) /\ Len(m2) = n + 1 + z
      /\ \A k \in 1..(n + 1 + z) : m2[k] = IF k <= n + 1 THEN m1[k] ELSE 0
  <2>1. /\ m2 \in Seq(Nat) /\ Len(m2) = Len(m1) + Len(zs)
        /\ \A k \in 1..(Len(m1) + Len(zs)) :
              m2[k] = IF k <= Len(m1) THEN m1[k] ELSE zs[k - Len(m1)]
    <3>1. m1 \in Seq(Nat) /\ zs \in Seq(Nat)
      BY <1>5, <1>6
    <3> QED  BY <3>1, ConcatProperties
  <2> HIDE DEF m2, n
  <2>2. ASSUME NEW k \in 1..(n + 1 + z) PROVE m2[k] = IF k <= n + 1 THEN m1[k] ELSE 0
    <3>1. CASE k <= n + 1
      BY <1>1, <1>5, <1>6, <2>1, <3>1
    <3>2. CASE ~(k <= n + 1)
      <4>1. k - (n + 1) \in 1..z
        BY <1>1, <3>2
      <4> QED  BY <1>1, <1>5, <1>6, <2>1, <3>2, <4>1
    <3> QED  BY <3>1, <3>2
  <2> QED  BY <1>1, <1>5, <1>6, <2>1, <2>2
<1> HIDE DEF m2
<1>8. /\ Len(m3) = n + 1 + z + 2
      /\ \A k \in 1..(n + 1 + z + 2) : m3[k] =
            IF k <= n + 1 + z THEN m2[k] ELSE IF k = n + z + 2 THEN hi ELSE lo
  <2> DEFINE t == <<hi, lo>>
  <2>1. t \in Seq(Nat) /\ Len(t) = 2 /\ t[1] = hi /\ t[2] = lo
    BY <1>2
  <2> HIDE DEF t
  <2>2. /\ m3 \in Seq(Nat) /\ Len(m3) = Len(m2) + Len(t)
        /\ \A k \in 1..(Len(m2) + Len(t)) :
              m3[k] = IF k <= Len(m2) THEN m2[k] ELSE t[k - Len(m2)]
    BY <1>7, <2>1, ConcatProperties DEF t
  <2> HIDE DEF m3, n
  <2>3. ASSUME NEW k \in 1..(n + 1 + z + 2)
        PROVE  m3[k] = IF k <= n + 1 + z THEN m2[k] ELSE IF k = n + z + 2 THEN hi ELSE lo
    <3>1. m3[k] = IF k <= n + 1 + z THEN m2[k] ELSE t[k - (n + 1 + z)]
      BY <1>7, <2>1, <2>2
    <3>2. ~(k <= n + 1 + z) => k - (n + 1 + z) = IF k = n + z + 2 THEN 1 ELSE 2
      BY <1>1
    <3> QED  BY <2>1, <3>1, <3>2
  <2> QED  BY <1>7, <2>1, <2>2, <2>3
<1> HIDE DEF m3
<1>9. n + 1 + z + 2 = n + z + 3
  BY <1>1
<1>10. ASSUME NEW k \in 1..(n + z + 3)
       PROVE  m3[k] = IF k <= n THEN m[k]
                      ELSE IF k = n + 1 THEN 128
                      ELSE IF k <= n + z + 1 THEN 0
                      ELSE IF k = n + z + 2 THEN hi ELSE lo
  <2>1. m3[k] = IF k <= n + 1 + z THEN m2[k] ELSE IF k = n + z + 2 THEN hi ELSE lo
    BY <1>8, <1>9
  <2>2. k <= n + 1 + z => m2[k] = IF k <= n + 1 THEN m1[k] ELSE 0
    BY <1>1, <1>7
  <2>3. k <= n + 1 => m1[k] = IF k <= n THEN m[k] ELSE 128
    BY <1>1, <1>6
  <2> HIDE DEF n
  <2> QED  BY <1>1, <2>1, <2>2, <2>3
<1> QED  BY <1>4, <1>8, <1>9, <1>10 DEF hi, lo

LEMMA DivisionUnique ==
    ASSUME NEW x, NEW y \in Nat, NEW h \in Nat, NEW l \in Nat, l < y, x = h * y + l
    PROVE  x \div y = h /\ x % y = l
<1> DEFINE a == x \div y
           e == x % y
<1>1. x \in Nat /\ y > 0
  OBVIOUS
<1>2. a \in Nat /\ e \in Nat /\ e < y /\ x = y * a + e
  BY <1>1
<1> HIDE DEF a, e
<1>3. y * (a - h) = l - e
  BY <1>1, <1>2
<1>4. CASE a - h >= 1
  <2>1. y * (a - h) >= y
    BY <1>1, <1>2, <1>4
  <2> QED  BY <1>1, <1>2, <1>3, <2>1
<1>5. CASE a - h <= 0 - 1
  <2>1. y * (a - h) <= 0 - y
    BY <1>1, <1>2, <1>5
  <2> QED  BY <1>1, <1>2, <1>3, <2>1
<1>6. a = h
  BY <1>1, <1>2, <1>4, <1>5
<1>7. e = l
  BY <1>1, <1>2, <1>3, <1>6
<1> QED  BY <1>6, <1>7 DEF a, e

\* The digest is told by its places.
LEMMA DigestByPlaces ==
    ASSUME NEW m \in Seq(Nat), NEW z \in Places, NEW t \in Nat, Len(m) + z + 3 = t * Block,
           NEW D \in Seq([Places -> Nat]), Len(D) = t,
           \A b \in 1..t : \A i \in Places : D[b][i] = Padded(m)[(b - 1) * Block + i + 1]
    PROVE  D = Digest(m)
<1> DEFINE p == Padded(m)
           block(b) == [i \in 0..Block - 1 |-> p[(b - 1) * Block + i + 1]]
           u == Len(p) \div Block
<1>1. Len(m) \in Nat /\ z \in Nat /\ Block \in Nat /\ Block > 0
  BY LenProperties, SizesFacts DEF Places
<1>2. (Len(m) + 1 + z + 2) % Block = 0
  <2>1. Len(m) + 1 + z + 2 = t * Block
    BY <1>1
  <2>2. 0 < Block /\ t * Block = t * Block + 0
    BY <1>1
  <2>3. (t * Block) % Block = 0
    BY <1>1, <2>2, DivisionUnique
  <2> QED  BY <2>1, <2>3
<1>3. Len(p) = t * Block
  BY <1>2, PaddedFacts
<1> HIDE DEF p
<1>4. u = t
  BY <1>1, <1>3
<1>5. Digest(m) = [b \in 1..u |-> block(b)]
  BY DEF Digest, p
<1>6. ASSUME NEW b \in 1..t PROVE D[b] = block(b)
  <2>1. D[b] \in [Places -> Nat]
    BY ElementOfSeq
  <2>2. ASSUME NEW i \in Places PROVE D[b][i] = p[(b - 1) * Block + i + 1]
    BY DEF p
  <2> QED  BY <2>1, <2>2 DEF Places
<1> HIDE DEF block, u
<1>7. DOMAIN D = 1..t /\ D = [b \in 1..t |-> D[b]]
  BY LenProperties
<1> QED  BY <1>4, <1>5, <1>6, <1>7

\* Where a place of a block is in the message.
LEMMA BlockPlaces ==
    ASSUME NEW q \in Nat, NEW r \in Places, NEW n \in Nat, n = q * Block + r,
           NEW b \in 1..q, NEW i \in Places
    PROVE  LET k == (b - 1) * Block + i + 1 IN k \in Nat /\ 1 <= k /\ k <= n
<1> DEFINE x == (b - 1) * Block
           y == q * Block
<1>1. Block \in Nat /\ r \in Nat /\ i \in Nat /\ i < Block /\ b - 1 \in Nat /\ b - 1 <= q - 1
  BY SizesFacts DEF Places
<1>2. x \in Nat /\ y \in Nat
  BY <1>1
<1>3. x + Block <= y
  <2>1. x + Block = b * Block
    BY <1>1
  <2>2. b * Block <= q * Block
    BY <1>1
  <2> QED  BY <2>1, <2>2
<1> HIDE DEF x
<1> QED  BY <1>1, <1>2, <1>3 DEF x

\* The two words of the count are those of the length.
LEMMA CountedWords ==
    ASSUME NEW c \in Context, NEW n \in Nat, Counted(c, n)
    PROVE  (8 * n) \div LowMod = c.Length_High /\ (8 * n) % LowMod = c.Length_Low
<1>1. /\ c.Length_High \in Nat /\ c.Length_Low \in Nat /\ c.Length_Low < LowMod
      /\ 8 * n = c.Length_High * LowMod + c.Length_Low /\ LowMod \in Nat
  BY SizesFacts DEF Counted, Context
<1> QED  BY <1>1, DivisionUnique

LEMMA OneBlockDigest ==
    ASSUME NEW c \in Context, NEW m \in Seq(Nat), NEW q \in Nat, NEW r \in Places,
           Took(c, m, Len(m), q, r), Counted(c, Len(m)), r <= Block - 3
    PROVE  LET e == SHA1PadMessage(c)
           IN  /\ e \in Context /\ e.Corrupted = c.Corrupted
               /\ e.Message_Digest = Digest(m)
<1> DEFINE e == SHA1PadMessage(c)
           D == e.Message_Digest
           n == Len(m)
           z == Block - 3 - r
           t == q + 1
<1>0. /\ Block \in Nat /\ Block > 3 /\ r \in Nat /\ r < Block /\ n \in Nat /\ q * Block \in Nat
      /\ n = q * Block + r /\ c.Message_Block_Index = r /\ Len(c.Message_Digest) = q
      /\ c.Message_Digest \in Seq([Places -> Nat])
  BY SizesFacts, LenProperties DEF Took, Context, Places
<1>y. PICK y \in Nat : y = q * Block /\ n = y + r
  BY <1>0
<1>1. e \in Context /\ e.Corrupted = c.Corrupted
  BY <1>0, PadOneBlock
<1>2. PICK last \in [Places -> Nat] :
          /\ D = Append(c.Message_Digest, last)
          /\ OneMore(c, r, last)
  <2>1. c.Message_Block_Index = r
    BY <1>0
  <2> QED  BY <2>1, PadOneBlock
<1> HIDE DEF e
<1>3. /\ D \in Seq([Places -> Nat]) /\ Len(D) = t /\ D[t] = last
      /\ \A b \in 1..q : D[b] = c.Message_Digest[b]
  BY <1>0, <1>2, AppendProperties
<1> HIDE DEF D, n
<1>4. z \in Places /\ z \in Nat /\ t \in Nat /\ n + z + 3 = t * Block
  <2>1. t * Block = q * Block + Block
    BY <1>0
  <2>2. n + z + 3 = q * Block + Block
    BY <1>0
  <2> QED  BY <1>0, <2>1, <2>2 DEF Places
<1>5. (n + 1 + z + 2) % Block = 0
  <2>1. n + 1 + z + 2 = t * Block + 0
    BY <1>0, <1>4
  <2> HIDE DEF z, t
  <2>2. 0 \in Nat /\ 0 < Block /\ Block \in Nat /\ t \in Nat
    BY <1>0, <1>4
  <2> QED  BY <2>1, <2>2, DivisionUnique
<1>6. \A k \in 1..(n + z + 3) : Padded(m)[k] =
         IF k <= n THEN m[k] ELSE IF k = n + 1 THEN 128 ELSE IF k <= n + z + 1 THEN 0
         ELSE IF k = n + z + 2 THEN c.Length_High ELSE c.Length_Low
  <2>1. (8 * n) \div LowMod = c.Length_High /\ (8 * n) % LowMod = c.Length_Low
    BY <1>0, CountedWords DEF n
  <2> HIDE DEF z
  <2>2. \A k \in 1..(n + z + 3) : Padded(m)[k] =
           IF k <= n THEN m[k] ELSE IF k = n + 1 THEN 128 ELSE IF k <= n + z + 1 THEN 0
           ELSE IF k = n + z + 2 THEN (8 * n) \div LowMod ELSE (8 * n) % LowMod
    BY <1>4, <1>5, PaddedFacts, Zenon DEF n
  <2> QED  BY <2>1, <2>2, Zenon
<1>7. ASSUME NEW b \in 1..t, NEW i \in Places
      PROVE  D[b][i] = Padded(m)[(b - 1) * Block + i + 1]
  <2> DEFINE k == (b - 1) * Block + i + 1
  <2>1. i \in Nat /\ i < Block
    BY <1>0 DEF Places
  <2>2. CASE b \in 1..q
    <3>1. k \in Nat /\ 1 <= k /\ k <= n
      BY <1>0, <2>2, BlockPlaces
    <3>2. D[b][i] = m[k]
      <4>1. c.Message_Digest[b][i] = m[(b - 1) * Block + i + 1]
        BY <2>2 DEF Took
      <4>2. D[b] = c.Message_Digest[b]
        BY <1>3, <2>2
      <4> QED  BY <4>1, <4>2
    <3> HIDE DEF k
    <3>3. k \in 1..(n + z + 3)
      BY <1>0, <1>4, <3>1
    <3>4. Padded(m)[k] = m[k]
      <4> HIDE DEF z
      <4> QED  BY <1>6, <3>1, <3>3
    <3> QED  BY <3>2, <3>4 DEF k
  <2>3. CASE b = q + 1
    <3>1. k = q * Block + i + 1
      BY <2>3
    <3> HIDE DEF k
    <3>2. k \in 1..(n + z + 3) /\ k \in Nat
      <4>1. n \in Nat /\ Block \in Nat /\ r \in Nat /\ n = y + r /\ r < Block /\ Block > 3
        BY <1>0, <1>y
      <4>2. k = y + i + 1
        BY <1>y, <3>1
      <4> QED  BY <2>1, <4>1, <4>2
    <3>3. Padded(m)[k] =
             IF k <= n THEN m[k] ELSE IF k = n + 1 THEN 128 ELSE IF k <= n + z + 1 THEN 0
             ELSE IF k = n + z + 2 THEN c.Length_High ELSE c.Length_Low
      BY <1>6, <3>2
    <3>4. /\ (k <= n) <=> i < r
          /\ (k = n + 1) <=> i = r
          /\ (k <= n + z + 1) <=> i < Block - 2
          /\ (k = n + z + 2) <=> i = Block - 2
      <4>1. n \in Nat /\ Block \in Nat /\ r \in Nat /\ n = y + r /\ r < Block /\ Block > 3
        BY <1>0, <1>y
      <4>2. k = y + i + 1
        BY <1>y, <3>1
      <4> QED  BY <2>1, <3>2, <4>1, <4>2
    <3>5. i < r => c.Message_Block[i] = m[k]
      <4>1. i < r => i \in 0..(r - 1)
        BY <1>0, <2>1
      <4> QED  BY <3>1, <4>1 DEF Took
    <3>6. D[b][i] = last[i]
      BY <1>3, <2>3
    <3>7. last[i] = IF i < r THEN c.Message_Block[i]
                    ELSE IF i = r THEN 128
                    ELSE IF i = Block - 2 THEN c.Length_High
                    ELSE IF i = Block - 1 THEN c.Length_Low ELSE 0
      BY <1>2 DEF OneMore
    <3>8. i < Block - 2 \/ i = Block - 2 \/ i = Block - 1
      BY <1>0, <2>1
    <3>9. i < Block - 2 => i # Block - 2 /\ i # Block - 1
      BY <1>0, <2>1
    <3> HIDE DEF z
    <3> QED  BY <3>3, <3>4, <3>5, <3>6, <3>7, <3>8, <3>9 DEF k
  <2> QED  BY <1>0, <2>2, <2>3
<1>8. D = Digest(m)
  <2> HIDE DEF z, t
  <2> QED  BY <1>3, <1>4, <1>7, DigestByPlaces DEF n
<1> QED  BY <1>1, <1>8 DEF D, e

LEMMA TwoBlockDigest ==
    ASSUME NEW c \in Context, NEW m \in Seq(Nat), NEW q \in Nat, NEW r \in Places,
           Took(c, m, Len(m), q, r), Counted(c, Len(m)), r > Block - 3
    PROVE  LET e == SHA1PadMessage(c)
           IN  /\ e \in Context /\ e.Corrupted = c.Corrupted
               /\ e.Message_Digest = Digest(m)
<1> DEFINE e == SHA1PadMessage(c)
           D == e.Message_Digest
           n == Len(m)
           z == 2 * Block - 3 - r
           t == q + 2
<1>0. /\ Block \in Nat /\ Block > 3 /\ r \in Nat /\ r < Block /\ n \in Nat /\ q * Block \in Nat
      /\ n = q * Block + r /\ c.Message_Block_Index = r /\ Len(c.Message_Digest) = q
      /\ c.Message_Digest \in Seq([Places -> Nat])
  BY SizesFacts, LenProperties DEF Took, Context, Places
<1>y. PICK y \in Nat : y = q * Block /\ n = y + r
  BY <1>0
<1>1. e \in Context /\ e.Corrupted = c.Corrupted
  BY <1>0, PadTwoBlocks
<1>2. PICK full \in [Places -> Nat], last \in [Places -> Nat] :
          /\ D = Append(Append(c.Message_Digest, full), last)
          /\ \A i \in Places : full[i] =
                IF i < r THEN c.Message_Block[i] ELSE IF i = r THEN 128 ELSE 0
          /\ \A i \in Places : last[i] =
                IF i = Block - 2 THEN c.Length_High
                ELSE IF i = Block - 1 THEN c.Length_Low ELSE 0
  <2>1. c.Message_Block_Index = r
    BY <1>0
  <2>2. TwoMore(c, r, D)
    BY <2>1, PadTwoBlocks
  <2> HIDE DEF D
  <2> QED  BY <2>2 DEF TwoMore
<1> HIDE DEF e
<1>3. /\ D \in Seq([Places -> Nat]) /\ Len(D) = t /\ D[t] = last /\ D[q + 1] = full
      /\ \A b \in 1..q : D[b] = c.Message_Digest[b]
  <2> DEFINE A == Append(c.Message_Digest, full)
  <2>1. /\ A \in Seq([Places -> Nat]) /\ Len(A) = q + 1 /\ A[q + 1] = full
        /\ \A b \in 1..q : A[b] = c.Message_Digest[b]
    <3> DEFINE s == c.Message_Digest
    <3>1. s \in Seq([Places -> Nat]) /\ Len(s) = q
      BY <1>0
    <3>2. /\ A \in Seq([Places -> Nat]) /\ Len(A) = Len(s) + 1 /\ A[Len(s) + 1] = full
          /\ \A b \in 1..Len(s) : A[b] = s[b]
      <4> HIDE DEF s
      <4> QED  BY <3>1, AppendProperties DEF A, s
    <3> QED  BY <3>1, <3>2
  <2> HIDE DEF A
  <2>2. D = Append(A, last)
    BY <1>2 DEF A
  <2> HIDE DEF D
  <2>3. /\ D \in Seq([Places -> Nat]) /\ Len(D) = (q + 1) + 1 /\ D[(q + 1) + 1] = last
        /\ \A b \in 1..(q + 1) : D[b] = A[b]
    BY <2>1, <2>2, AppendProperties
  <2>4. (q + 1) + 1 = t /\ q + 1 \in 1..(q + 1) /\ \A b \in 1..q : b \in 1..(q + 1)
    BY <1>0
  <2> QED  BY <2>1, <2>3, <2>4
<1> HIDE DEF D, n
<1>4. z \in Places /\ z \in Nat /\ t \in Nat /\ n + z + 3 = t * Block
  <2>1. t * Block = q * Block + Block + Block
    BY <1>0
  <2>2. n + z + 3 = q * Block + Block + Block
    BY <1>0
  <2> QED  BY <1>0, <2>1, <2>2 DEF Places
<1>5. (n + 1 + z + 2) % Block = 0
  <2>1. n + 1 + z + 2 = t * Block + 0
    BY <1>0, <1>4
  <2> HIDE DEF z, t
  <2>2. 0 \in Nat /\ 0 < Block /\ Block \in Nat /\ t \in Nat
    BY <1>0, <1>4
  <2> QED  BY <2>1, <2>2, DivisionUnique
<1>6. \A k \in 1..(n + z + 3) : Padded(m)[k] =
         IF k <= n THEN m[k] ELSE IF k = n + 1 THEN 128 ELSE IF k <= n + z + 1 THEN 0
         ELSE IF k = n + z + 2 THEN c.Length_High ELSE c.Length_Low
  <2>1. (8 * n) \div LowMod = c.Length_High /\ (8 * n) % LowMod = c.Length_Low
    BY <1>0, CountedWords DEF n
  <2> HIDE DEF z
  <2>2. \A k \in 1..(n + z + 3) : Padded(m)[k] =
           IF k <= n THEN m[k] ELSE IF k = n + 1 THEN 128 ELSE IF k <= n + z + 1 THEN 0
           ELSE IF k = n + z + 2 THEN (8 * n) \div LowMod ELSE (8 * n) % LowMod
    BY <1>4, <1>5, PaddedFacts, Zenon DEF n
  <2> QED  BY <2>1, <2>2, Zenon
<1>7. ASSUME NEW b \in 1..t, NEW i \in Places
      PROVE  D[b][i] = Padded(m)[(b - 1) * Block + i + 1]
  <2> DEFINE k == (b - 1) * Block + i + 1
  <2>1. i \in Nat /\ i < Block
    BY <1>0 DEF Places
  <2>2. CASE b \in 1..q
    <3>1. k \in Nat /\ 1 <= k /\ k <= n
      BY <1>0, <2>2, BlockPlaces
    <3>2. D[b][i] = m[k]
      <4>1. c.Message_Digest[b][i] = m[(b - 1) * Block + i + 1]
        BY <2>2 DEF Took
      <4>2. D[b] = c.Message_Digest[b]
        BY <1>3, <2>2
      <4> QED  BY <4>1, <4>2
    <3> HIDE DEF k
    <3>3. k \in 1..(n + z + 3)
      BY <1>0, <1>4, <3>1
    <3>4. Padded(m)[k] = m[k]
      <4> HIDE DEF z
      <4> QED  BY <1>6, <3>1, <3>3
    <3> QED  BY <3>2, <3>4 DEF k
  <2>3. CASE b = q + 1
    <3>1. k = q * Block + i + 1
      BY <2>3
    <3> HIDE DEF k
    <3>2. k \in 1..(n + z + 3) /\ k \in Nat
      <4>1. n \in Nat /\ Block \in Nat /\ r \in Nat /\ n = y + r /\ r < Block /\ Block > 3
        BY <1>0, <1>y
      <4>2. k = y + i + 1
        BY <1>y, <3>1
      <4> QED  BY <2>1, <4>1, <4>2
    <3>3. Padded(m)[k] =
             IF k <= n THEN m[k] ELSE IF k = n + 1 THEN 128 ELSE IF k <= n + z + 1 THEN 0
             ELSE IF k = n + z + 2 THEN c.Length_High ELSE c.Length_Low
      BY <1>6, <3>2
    <3>4. /\ (k <= n) <=> i < r
          /\ (k = n + 1) <=> i = r
          /\ k <= n + z + 1
      <4>1. n \in Nat /\ Block \in Nat /\ r \in Nat /\ n = y + r /\ r < Block /\ Block > 3
        BY <1>0, <1>y
      <4>2. k = y + i + 1
        BY <1>y, <3>1
      <4> QED  BY <2>1, <3>2, <4>1, <4>2
    <3>5. i < r => c.Message_Block[i] = m[k]
      <4>1. i < r => i \in 0..(r - 1)
        BY <1>0, <2>1
      <4> QED  BY <3>1, <4>1 DEF Took
    <3>6. D[b][i] = full[i]
      BY <1>3, <2>3
    <3>7. full[i] = IF i < r THEN c.Message_Block[i] ELSE IF i = r THEN 128 ELSE 0
      BY <1>2
    <3> HIDE DEF z
    <3> QED  BY <3>3, <3>4, <3>5, <3>6, <3>7 DEF k
  <2>4. CASE b = q + 2
    <3>1. k = q * Block + Block + i + 1
      <4>1. (b - 1) * Block = q * Block + Block
        BY <1>0, <2>4
      <4> QED  BY <4>1
    <3> HIDE DEF k
    <3>2. k \in 1..(n + z + 3) /\ k \in Nat
      <4>1. n \in Nat /\ Block \in Nat /\ r \in Nat /\ n = y + r /\ r < Block /\ Block > 3
        BY <1>0, <1>y
      <4>2. k = y + Block + i + 1
        BY <1>y, <3>1
      <4> QED  BY <2>1, <4>1, <4>2
    <3>3. Padded(m)[k] =
             IF k <= n THEN m[k] ELSE IF k = n + 1 THEN 128 ELSE IF k <= n + z + 1 THEN 0
             ELSE IF k = n + z + 2 THEN c.Length_High ELSE c.Length_Low
      BY <1>6, <3>2
    <3>4. /\ ~(k <= n) /\ k # n + 1
          /\ (k <= n + z + 1) <=> i < Block - 2
          /\ (k = n + z + 2) <=> i = Block - 2
      <4>1. n \in Nat /\ Block \in Nat /\ r \in Nat /\ n = y + r /\ r < Block /\ Block > 3
        BY <1>0, <1>y
      <4>2. k = y + Block + i + 1
        BY <1>y, <3>1
      <4> QED  BY <2>1, <3>2, <4>1, <4>2
    <3>5. D[b][i] = last[i]
      BY <1>3, <2>4
    <3>6. last[i] = IF i = Block - 2 THEN c.Length_High
                    ELSE IF i = Block - 1 THEN c.Length_Low ELSE 0
      BY <1>2
    <3>7. i < Block - 2 \/ i = Block - 2 \/ i = Block - 1
      BY <1>0, <2>1
    <3>8. i < Block - 2 => i # Block - 2 /\ i # Block - 1
      BY <1>0, <2>1
    <3> HIDE DEF z
    <3> QED  BY <3>3, <3>4, <3>5, <3>6, <3>7, <3>8 DEF k
  <2>5. b \in 1..q \/ b = q + 1 \/ b = q + 2
    OBVIOUS
  <2> QED  BY <2>2, <2>3, <2>4, <2>5
<1>8. D = Digest(m)
  <2> HIDE DEF z, t
  <2> QED  BY <1>3, <1>4, <1>7, DigestByPlaces DEF n
<1> QED  BY <1>1, <1>8 DEF D, e

\* SHA1Result after a whole message.
LEMMA ResultTaken ==
    ASSUME NEW c, NEW m \in Seq(Nat), After(c, m, Len(m))
    PROVE  LET e == SHA1Result(c)
           IN  /\ e \in Context
               /\ e.Corrupted <=> 8 * Len(m) >= LowMod * HighMod
               /\ ~e.Corrupted => e.Message_Digest = Digest(m)
<1> DEFINE n == Len(m)
           d == SHA1PadMessage(c)
           e == [d EXCEPT !.Computed = TRUE]
<1>1. c \in Context /\ ~c.Computed /\ n \in Nat /\ LowMod * HighMod \in Nat
  BY SizesFacts, LenProperties DEF After
<1>2. CASE ~(8 * n < LowMod * HighMod)
  <2>1. c.Corrupted /\ 8 * n >= LowMod * HighMod
    BY <1>1, <1>2 DEF After
  <2>2. SHA1Result(c) = c
    BY <2>1 DEF SHA1Result
  <2> QED  BY <1>1, <2>1, <2>2
<1>3. CASE 8 * n < LowMod * HighMod
  <2>1. ~c.Corrupted /\ Counted(c, n) /\ ~(8 * n >= LowMod * HighMod)
    BY <1>1, <1>3 DEF After
  <2>2. PICK q \in Nat, r \in Places : Took(c, m, n, q, r)
    BY <1>3 DEF After
  <2>3. r <= Block - 3 \/ r > Block - 3
    BY SizesFacts DEF Places
  <2>4. d \in Context /\ d.Corrupted = c.Corrupted /\ d.Message_Digest = Digest(m)
    BY <1>1, <2>1, <2>2, <2>3, OneBlockDigest, TwoBlockDigest
  <2>5. SHA1Result(c) = e
    BY <1>1, <2>1 DEF SHA1Result
  <2> HIDE DEF d
  <2>6. e \in Context /\ e.Corrupted = d.Corrupted
    BY <2>4 DEF Context
  <2>7. e.Message_Digest = d.Message_Digest
    BY <2>4 DEF Context
  <2> HIDE DEF e
  <2> QED  BY <2>1, <2>4, <2>5, <2>6, <2>7
<1> QED  BY <1>2, <1>3

-----------------------------------------------------------------------------
(* The key.                                                                *)

LEMMA KeyFacts ==
    /\ Octet \subseteq Nat /\ Newline \in Octet /\ AUTH_KEY_LEN \in Nat
    /\ KeyFiles \subseteq Seq(Octet) /\ Salts \subseteq Seq(Octet)
<1>1. ASSUME NEW k \in Nat PROVE 0..k \subseteq Nat
  OBVIOUS
<1> QED  BY <1>1, AuthAssumption

LEMMA FirstLineFacts ==
    ASSUME NEW s \in Seq(Octet)
    PROVE  \/ /\ FirstLine(s) = s
              /\ \A i \in 1..Len(s) : s[i] # Newline
           \/ \E n \in 1..Len(s) :
                 /\ FirstLine(s) = SubSeq(s, 1, n) /\ s[n] = Newline
                 /\ \A i \in 1..(n - 1) : s[i] # Newline
<1> DEFINE ends == {i \in DOMAIN s : s[i] = Newline}
           n == CHOOSE i \in ends : \A j \in ends : i <= j
<1>1. DOMAIN s = 1..Len(s) /\ Len(s) \in Nat
  BY LenProperties
<1>2. FirstLine(s) = IF ends = {} THEN s ELSE SubSeq(s, 1, n)
  BY Zenon DEF FirstLine
<1>3. CASE ends = {}
  BY <1>1, <1>2, <1>3
<1>4. CASE ends # {}
  <2>1. n \in ends /\ \A j \in ends : n <= j
    <3>1. ends \in SUBSET Nat
      BY <1>1
    <3> HIDE DEF ends
    <3>2. \E i \in ends : \A j \in ends : i <= j
      BY <1>4, <3>1, SmallestNumber
    <3> QED  BY <3>2
  <2> HIDE DEF n
  <2>2. n \in 1..Len(s) /\ s[n] = Newline
    BY <1>1, <2>1
  <2>3. ASSUME NEW i \in 1..(n - 1) PROVE s[i] # Newline
    <3>1. i \in 1..Len(s) /\ ~(n <= i)
      BY <1>1, <2>2
    <3> QED  BY <1>1, <2>1, <3>1
  <2> QED  BY <1>2, <1>4, <2>2, <2>3
<1> QED  BY <1>3, <1>4

LEMMA PasswordFacts ==
    ASSUME NEW s \in Seq(Octet)
    PROVE  /\ Password(s) \in Seq(Octet) /\ Len(Password(s)) <= Len(s)
           /\ \A i \in 1..Len(Password(s)) : Password(s)[i] = s[i] /\ s[i] # Newline
<1> DEFINE line == FirstLine(s)
           n == Len(line)
<1>1. Password(s) = IF line # <<>> /\ line[n] = Newline THEN SubSeq(line, 1, n - 1) ELSE line
  BY DEF Password
<1>2. CASE line = s /\ \A i \in 1..Len(s) : s[i] # Newline
  <2>1. Password(s) = s
    <3>1. s # <<>> => n \in 1..Len(s)
      BY <1>2
    <3> QED  BY <1>1, <1>2, <3>1
  <2>2. Len(s) \in Nat
    BY LenProperties
  <2> QED  BY <1>2, <2>1, <2>2
<1>3. ASSUME NEW k \in 1..Len(s), line = SubSeq(s, 1, k), s[k] = Newline,
             \A i \in 1..(k - 1) : s[i] # Newline
      PROVE  /\ Password(s) \in Seq(Octet) /\ Len(Password(s)) <= Len(s)
             /\ \A i \in 1..Len(Password(s)) : Password(s)[i] = s[i] /\ s[i] # Newline
  <2> HIDE DEF line
  <2>1. Len(s) \in Nat
    BY LenProperties
  <2>2. /\ line \in Seq(Octet) /\ n = k /\ \A i \in 1..k : line[i] = s[i]
    BY <1>3, <2>1
  <2>3. line # <<>> /\ line[n] = Newline
    BY <1>3, <2>1, <2>2
  <2>4. Password(s) = SubSeq(line, 1, k - 1)
    BY <1>1, <2>2, <2>3
  <2>5. /\ SubSeq(line, 1, k - 1) \in Seq(Octet) /\ Len(SubSeq(line, 1, k - 1)) = k - 1
        /\ \A i \in 1..(k - 1) : SubSeq(line, 1, k - 1)[i] = line[i]
    BY <2>1, <2>2
  <2>6. \A i \in 1..(k - 1) : i \in 1..k
    BY <2>1
  <2> QED  BY <1>3, <2>1, <2>2, <2>4, <2>5, <2>6
<1> QED  BY <1>2, <1>3, FirstLineFacts

LEMMA LineFacts ==
    ASSUME auth_key \in Seq(Octet)
    PROVE  /\ Line \in Seq(Octet)
           /\ auth_key = <<>> => Line = <<>>
           /\ Len(Password(auth_key)) = AUTH_KEY_LEN => Line = Password(auth_key)
<1> DEFINE L == AUTH_KEY_LEN
           k == IF Len(auth_key) < L THEN Len(auth_key) ELSE L
           s == SubSeq(auth_key, 1, k)
<1>1. L \in Nat /\ Len(auth_key) \in Nat
  BY KeyFacts, LenProperties
<1>2. Line = FirstLine(s)
  BY DEF Line
<1>3. k \in Nat /\ k <= Len(auth_key)
  BY <1>1
<1> HIDE DEF k
<1>4. s \in Seq(Octet) /\ Len(s) = k /\ \A i \in 1..k : s[i] = auth_key[i]
  BY <1>1, <1>3
<1> HIDE DEF s
<1>5. Line \in Seq(Octet)
  <2>1. CASE FirstLine(s) = s
    BY <1>2, <1>4, <2>1
  <2>2. ASSUME NEW n \in 1..Len(s), FirstLine(s) = SubSeq(s, 1, n)
        PROVE  Line \in Seq(Octet)
    BY <1>2, <1>3, <1>4, <2>2
  <2> QED  BY <1>4, <2>1, <2>2, FirstLineFacts
<1>6. ASSUME auth_key = <<>> PROVE Line = <<>>
  <2>1. s = <<>> /\ Len(s) = 0
    BY <1>1, <1>3, <1>4, <1>6
  <2>2. \A n \in 1..Len(s) : FALSE
    BY <2>1
  <2>3. FirstLine(s) = s
    BY <1>4, <2>2, FirstLineFacts
  <2> QED  BY <1>2, <2>1, <2>3
<1>7. ASSUME Len(Password(auth_key)) = L PROVE Line = Password(auth_key)
  <2> DEFINE p == Password(auth_key)
  <2>1. p \in Seq(Octet) /\ L <= Len(auth_key)
        /\ \A i \in 1..L : p[i] = auth_key[i] /\ auth_key[i] # Newline
    BY <1>7, PasswordFacts
  <2>2. k = L
    BY <1>1, <2>1 DEF k
  <2>3. \A i \in 1..Len(s) : s[i] = p[i] /\ s[i] # Newline
    BY <1>4, <2>1, <2>2
  <2>4. FirstLine(s) = s
    <3>1. CASE FirstLine(s) = s
      BY <3>1
    <3>2. ASSUME NEW n \in 1..Len(s), s[n] = Newline PROVE FALSE
      BY <2>3, <3>2
    <3> QED  BY <1>4, <3>1, <3>2, FirstLineFacts
  <2> HIDE DEF p
  <2>5. s = p
    <3>1. Len(p) = Len(s)
      BY <1>4, <1>7, <2>2 DEF p
    <3> QED  BY <1>4, <2>1, <2>3, <3>1, SeqEqual
  <2> QED  BY <1>2, <2>4, <2>5 DEF p
<1> QED  BY <1>5, <1>6, <1>7

\* The buffer of a key that fills it holds the password and nothing else.
LEMMA BufferFacts ==
    ASSUME auth_key \in Seq(Octet), NEW stale \in [1..AUTH_KEY_LEN -> Octet]
    PROVE  /\ Buffer(stale) \in Seq(Nat)
           /\ Len(Password(auth_key)) = AUTH_KEY_LEN => Buffer(stale) = Password(auth_key)
<1> DEFINE L == AUTH_KEY_LEN
           b(i) == IF i <= Len(Line) THEN Line[i] ELSE IF i = Len(Line) + 1 THEN 0 ELSE stale[i]
<1>1. L \in Nat /\ Octet \subseteq Nat
  BY KeyFacts
<1>2. Line \in Seq(Octet) /\ Len(Line) \in Nat
  BY LineFacts, LenProperties
<1>3. Buffer(stale) = [i \in 1..L |-> b(i)]
  BY DEF Buffer
<1>4. ASSUME NEW i \in 1..L PROVE b(i) \in Nat
  <2>1. stale[i] \in Nat
    BY <1>1
  <2>2. i <= Len(Line) => Line[i] \in Nat
    <3>1. i <= Len(Line) => i \in 1..Len(Line)
      BY <1>2
    <3> QED  BY <1>1, <1>2, <3>1, ElementOfSeq
  <2> QED  BY <2>1, <2>2
<1>5. ASSUME Len(Password(auth_key)) = L PROVE Buffer(stale) = Password(auth_key)
  <2>1. Line = Password(auth_key) /\ Len(Line) = L
    BY <1>5, LineFacts
  <2>2. \A i \in 1..L : b(i) = Line[i]
    BY <1>1, <2>1
  <2>3. DOMAIN Line = 1..L /\ Line = [i \in 1..L |-> Line[i]]
    BY <1>2, <2>1, LenProperties
  <2> HIDE DEF b
  <2> QED  BY <1>3, <2>1, <2>2, <2>3
<1> HIDE DEF b
<1>6. Buffer(stale) \in Seq(Nat)
  BY <1>1, <1>3, <1>4
<1> QED  BY <1>5, <1>6

-----------------------------------------------------------------------------
(* The answers.                                                            *)

Answer == [salt : Salts, digest : Seq([Places -> Nat])]

\* The inductive invariant of Auth.
AuthInv ==
    /\ auth_key \in KeyFiles
    /\ context \in Context
    /\ replies \in Seq(Answer)
    /\ CorruptedForCause
    /\ DigestOfWholeMessage
    /\ KeysFull => RepliesProveKey

LEMMA AuthInvInit == AuthInit => AuthInv
<1> SUFFICES ASSUME AuthInit PROVE AuthInv
  OBVIOUS
<1>1. auth_key \in KeyFiles /\ context = SHA1Reset /\ message = <<>> /\ replies = <<>>
  BY DEF AuthInit
<1>2. After(context, message, 0)
  BY <1>1, ResetTaken
<1>3. LowMod * HighMod \in Nat /\ ~(8 * 0 >= LowMod * HighMod) /\ 8 * 0 < LowMod * HighMod
  BY SizesFacts
<1>4. context \in Context /\ ~context.Corrupted /\ ~context.Computed
  BY <1>2, <1>3 DEF After
<1>5. Len(message) = 0
  BY <1>1
<1>6. CorruptedForCause /\ DigestOfWholeMessage
  BY <1>3, <1>4, <1>5 DEF CorruptedForCause, DigestOfWholeMessage
<1>7. replies \in Seq(Answer) /\ RepliesProveKey
  BY <1>1 DEF RepliesProveKey
<1> QED  BY <1>1, <1>4, <1>6, <1>7 DEF AuthInv

LEMMA AuthInvNext == AuthInv /\ [AuthNext]_authVars => AuthInv'
<1> SUFFICES ASSUME AuthInv, [AuthNext]_authVars PROVE AuthInv'
  OBVIOUS
<1>1. CASE UNCHANGED authVars
  BY <1>1 DEF AuthInv, authVars, CorruptedForCause, DigestOfWholeMessage, RepliesProveKey
<1>2. ASSUME NEW salt \in Salts, NEW stale \in [1..AUTH_KEY_LEN -> Octet],
             sr_handle_auth_request(salt, stale)
      PROVE  AuthInv'
  <2> DEFINE key == Buffer(stale)
             c == SHA1Result(Salted(salt, key))
  <2>1. auth_key' = auth_key /\ auth_key \in KeyFiles /\ auth_key \in Seq(Octet)
    BY <1>2, KeyFacts DEF AuthInv, sr_handle_auth_request
  <2>2. CASE Line = <<>>
    <3>1. UNCHANGED <<context, message, replies>>
      BY <1>2, <2>2 DEF sr_handle_auth_request
    <3> QED  BY <2>1, <3>1 DEF AuthInv, CorruptedForCause, DigestOfWholeMessage, RepliesProveKey
  <2>3. CASE Line # <<>>
    <3>1. /\ context' = c /\ message' = salt \o key
          /\ \/ /\ ~context'.Corrupted
                /\ replies' = Append(replies, [salt |-> salt, digest |-> context'.Message_Digest])
             \/ replies' = replies
      BY <1>2, <2>3 DEF sr_handle_auth_request
    <3>2. salt \in Seq(Nat) /\ key \in Seq(Nat)
      <4>1. salt \in Seq(Octet) /\ Octet \subseteq Nat
        BY KeyFacts
      <4>2. salt \in Seq(Nat)
        <5>1. Len(salt) \in Nat /\ salt = [k \in 1..Len(salt) |-> salt[k]]
          BY <4>1, LenProperties
        <5>2. \A k \in 1..Len(salt) : salt[k] \in Nat
          BY <4>1, ElementOfSeq
        <5> QED  BY <5>1, <5>2
      <4> QED  BY <2>1, <4>2, BufferFacts
    <3>3. KeysFull => key = Password(auth_key)
      <4>1. auth_key # <<>>
        BY <2>1, <2>3, LineFacts
      <4> QED  BY <2>1, <4>1, BufferFacts DEF KeysFull
    <3> HIDE DEF key
    <3>4. /\ c \in Context
          /\ c.Corrupted <=> 8 * Len(salt \o key) >= LowMod * HighMod
          /\ ~c.Corrupted => c.Message_Digest = Digest(salt \o key)
      <4>1. salt \o key \in Seq(Nat)
        BY <3>2, ConcatProperties
      <4>2. After(Salted(salt, key), salt \o key, Len(salt \o key))
        BY <3>2, SaltedTaken
      <4> QED  BY <4>1, <4>2, ResultTaken
    <3> HIDE DEF c
    <3>5. CorruptedForCause' /\ DigestOfWholeMessage' /\ context' \in Context
      BY <3>1, <3>4 DEF CorruptedForCause, DigestOfWholeMessage
    <3>6. replies' \in Seq(Answer) /\ (KeysFull => RepliesProveKey')
      <4>1. CASE replies' = replies
        BY <2>1, <4>1 DEF AuthInv, RepliesProveKey
      <4>2. CASE /\ ~context'.Corrupted
                 /\ replies' = Append(replies, [salt |-> salt, digest |-> context'.Message_Digest])
        <5> DEFINE a == [salt |-> salt, digest |-> c.Message_Digest]
        <5>1. a \in Answer /\ a.salt = salt /\ a.digest = c.Message_Digest
          BY <3>4 DEF Answer, Context
        <5>2. replies' = Append(replies, a) /\ ~c.Corrupted /\ replies \in Seq(Answer)
          BY <3>1, <4>2 DEF AuthInv
        <5> HIDE DEF a
        <5>3. /\ replies' \in Seq(Answer) /\ Len(replies') = Len(replies) + 1
              /\ \A i \in 1..Len(replies) : replies'[i] = replies[i]
              /\ replies'[Len(replies) + 1] = a /\ Len(replies) \in Nat
          BY <5>1, <5>2, AppendProperties, LenProperties
        <5>4. ASSUME KeysFull, NEW i \in DOMAIN replies'
              PROVE  replies'[i].digest = Digest(replies'[i].salt \o Password(auth_key))
          <6>1. i \in 1..(Len(replies) + 1)
            BY <5>3, LenProperties
          <6>2. CASE i \in 1..Len(replies)
            <7>1. i \in DOMAIN replies
              BY <5>2, <6>2, LenProperties
            <7>2. replies[i].digest = Digest(replies[i].salt \o Password(auth_key))
              BY <5>4, <7>1 DEF AuthInv, RepliesProveKey
            <7> QED  BY <5>3, <6>2, <7>2
          <6>3. CASE i = Len(replies) + 1
            BY <3>3, <3>4, <5>1, <5>2, <5>3, <5>4, <6>3
          <6> QED  BY <5>3, <6>1, <6>2, <6>3
        <5>5. KeysFull => RepliesProveKey'
          BY <2>1, <5>4 DEF RepliesProveKey
        <5> QED  BY <5>3, <5>5
      <4> QED  BY <3>1, <4>1, <4>2
    <3> QED  BY <2>1, <3>5, <3>6 DEF AuthInv
  <2> QED  BY <2>2, <2>3
<1> QED  BY <1>1, <1>2 DEF AuthNext

\* Whatever requests come, context and replies stay well formed, a context is
\* corrupted for cause only and its digest is that of the whole message.
THEOREM AuthInvariant == AuthSpec => []AuthInv
BY AuthInvInit, AuthInvNext, PTL DEF AuthSpec

\* SHA1Result refuses a digest just when the message of salt and key has more
\* bits than Length_Low and Length_High can count.
THEOREM CorruptionCorrect == AuthSpec => []CorruptedForCause
<1>1. AuthInv => CorruptedForCause
  BY DEF AuthInv
<1> QED  BY <1>1, AuthInvariant, PTL

\* A digest that SHA1Result vouches for is that of the padded message, for
\* messages of every length, blocks and words of every size.
THEOREM DigestCorrect == AuthSpec => []DigestOfWholeMessage
<1>1. AuthInv => DigestOfWholeMessage
  BY DEF AuthInv
<1> QED  BY <1>1, AuthInvariant, PTL

\* With keys that fill the buffer of sr_handle_auth_request, every answer is
\* the digest of the salt in the request and the password in auth_key.
THEOREM RepliesCorrect ==
    ASSUME KeysFull
    PROVE  AuthSpec => []RepliesProveKey
<1>1. AuthInv => RepliesProveKey
  BY DEF AuthInv
<1> QED  BY <1>1, AuthInvariant, PTL
=============================================================================
