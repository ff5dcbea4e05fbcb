--------------------------- MODULE RoutingProofs ----------------------------
(***************************************************************************)
(* Routes, from the file to the network: loading a routing table, the      *)
(* interface list that main appends to while the sweeper walks along it,   *)
(* for any file, any list of interfaces and any interleaving; and what     *)
(* routers that follow their tables make of each other's errors.           *)
(***************************************************************************)
EXTENDS IfList, Network, SequenceTheorems, TLAPS

-----------------------------------------------------------------------------
(* The inductive invariant of the loading.                                 *)

\* Word w is the destination of one of the first n lines.
Named(n, w) == \E j \in 1..n : ~Blank(file[j]) /\ w = file[j][1]

RtEntry == [1..4 -> Word]

LoadInv ==
    /\ file \in Seq(Seq(Word))
    /\ line \in 0..Len(file)
    /\ fields \in RtEntry
    /\ routing_table \in Seq(RtEntry)
    /\ status \in {"reading", "loaded", "failed"}
    /\ cleared \in BOOLEAN
    /\ ~cleared => line = 0 /\ routing_table = old
    /\ cleared => line >= 1
    /\ cleared /\ ~Blank(file[1]) =>
          /\ status = "reading" => Named(line, fields[1])
          /\ \A i \in DOMAIN routing_table : Named(line, routing_table[i][1])

-----------------------------------------------------------------------------
(* The inductive invariant of the list.                                    *)

\* s is the chain of nodes that if_list and the next pointers form: all the
\* nodes allocated, each once.  Only the last may still be unfinished, and
\* only while main is filling it in.
Chain(s) ==
    /\ \A j, k \in DOMAIN s : s[j] = s[k] => j = k
    /\ \A n : n \in alloc <=> \E k \in DOMAIN s : s[k] = n
    /\ if_list = IF s = <<>> THEN NULL ELSE s[1]
    /\ \A k \in DOMAIN s :
          IF k < Len(s) THEN next[s[k]] = s[k + 1] /\ name[s[k]] \in Word
          ELSE /\ next[s[k]] \in {NULL, Garbage}
               /\ name[s[k]] \in Word \cup {Garbage}
               /\ node # s[k] => next[s[k]] = NULL /\ name[s[k]] \in Word
    /\ node # NULL => s # <<>> /\ node = s[Len(s)]

\* The node the sweeper looks for is not behind the one it is at.
WalkAhead(s) ==
    walk # NULL =>
        /\ walk \in [pos : Node, for : Word]
        /\ \E k, m \in DOMAIN s : k <= m /\ walk.pos = s[k] /\ name[s[m]] = walk.for

\* Nobody uses the list before a table was loaded; once main is back in its
\* loop, or a packet was queued, every route has its interface.
RoutesListed ==
    /\ status # "loaded" => alloc = {} /\ todo = <<>> /\ ~queued /\ walk = NULL
    /\ MainIdle /\ alloc # {} => Routes \subseteq Listed
    /\ queued => Routes \subseteq Listed

ListTypeOK ==
    /\ alloc \subseteq Node
    /\ DOMAIN next = Node /\ DOMAIN name = Node
    /\ \A n \in Node \ alloc : next[n] = Garbage /\ name[n] = Garbage
    /\ todo \in Seq(Word)
    /\ node \in Node \cup {NULL}
    /\ node # NULL => todo # <<>>
    /\ queued \in BOOLEAN
    /\ ended \in BOOLEAN

ListInv ==
    /\ ListTypeOK
    /\ RoutesListed
    /\ \E s \in Seq(Node) : Chain(s) /\ WalkAhead(s)

-----------------------------------------------------------------------------
(* Loading.                                                                *)

\* sscanf: the first field is the line's first word, or what it was.
LEMMA ScanFacts ==
    ASSUME LoadInv, NEW words \in Seq(Word)
    PROVE  /\ Scan(words) \in RtEntry
           /\ Scan(words)[1] = IF Blank(words) THEN fields[1] ELSE words[1]
<1>1. fields \in RtEntry /\ Len(words) \in Nat /\ \A k \in 1..Len(words) : words[k] \in Word
  BY DEF LoadInv
<1>2. ASSUME NEW k \in 1..4
      PROVE  (IF k <= Len(words) THEN words[k] ELSE fields[k]) \in Word
  BY <1>1 DEF RtEntry
<1>3. Scan(words) \in RtEntry
  BY <1>2 DEF Scan, RtEntry
<1>4. Scan(words)[1] = IF 1 <= Len(words) THEN words[1] ELSE fields[1]
  BY DEF Scan
<1> QED  BY <1>1, <1>3, <1>4 DEF Blank

\* A line that is read adds one entry, whose destination has been named.
LEMMA ReadLineKept ==
    ASSUME LoadInv, ReadLine
    PROVE  LoadInv'
<1>1. /\ file \in Seq(Seq(Word)) /\ line \in 0..Len(file) /\ Len(file) \in Nat
      /\ line < Len(file)
      /\ routing_table \in Seq(RtEntry) /\ cleared \in BOOLEAN
  BY DEF LoadInv, ReadLine
<1>2. PICK words : words = file[line + 1]
  OBVIOUS
<1>3. words \in Seq(Word) /\ line + 1 \in 1..Len(file) /\ line + 1 >= 1
  BY <1>1, <1>2
<1>4. PICK new : new = fields'
  OBVIOUS
<1>5. /\ new \in RtEntry
      /\ new[1] = IF Blank(words) THEN fields[1] ELSE words[1]
  BY <1>2, <1>3, <1>4, ScanFacts DEF ReadLine
<1>6. /\ routing_table' = IF cleared THEN Append(routing_table, new) ELSE <<new>>
      /\ cleared' = TRUE /\ line' = line + 1 /\ file' = file /\ old' = old
      /\ status' = status /\ status = "reading"
  BY <1>4 DEF ReadLine, sr_add_rt_entry
<1>7. routing_table' \in Seq(RtEntry)
  BY <1>1, <1>5, <1>6
<1>8. ASSUME NEW w, Named(line, w) PROVE Named(line + 1, w)
  <2>1. PICK j \in 1..line : ~Blank(file[j]) /\ w = file[j][1]
    BY <1>8 DEF Named
  <2>2. j \in 1..(line + 1)
    BY <1>1
  <2> QED  BY <1>6, <2>1, <2>2 DEF Named
<1>9. ASSUME ~Blank(file[1]) PROVE Named(line + 1, new[1])
  <2>1. CASE ~Blank(words)
    <3>1. line + 1 \in 1..(line + 1)
      BY <1>1
    <3> QED  BY <1>2, <1>5, <1>6, <2>1, <3>1 DEF Named
  <2>2. CASE Blank(words)
    <3>1. line # 0
      BY <1>2, <1>9, <2>2
    <3>2. Named(line, fields[1])
      BY <1>6, <1>9, <3>1 DEF LoadInv
    <3> QED  BY <1>5, <1>8, <2>2, <3>2
  <2> QED  BY <2>1, <2>2
<1>10. ASSUME ~Blank(file[1]), NEW i \in DOMAIN routing_table'
       PROVE  Named(line + 1, routing_table'[i][1])
  <2>1. CASE cleared /\ i \in DOMAIN routing_table
    <3>1. routing_table'[i] = routing_table[i]
      BY <1>1, <1>6, <2>1
    <3>2. Named(line, routing_table[i][1])
      BY <1>10, <2>1 DEF LoadInv
    <3> QED  BY <1>8, <3>1, <3>2
  <2>2. CASE ~(cleared /\ i \in DOMAIN routing_table)
    <3>1. routing_table'[i] = new
      BY <1>1, <1>5, <1>6, <1>10, <2>2
    <3> QED  BY <1>9, <1>10, <3>1
  <2> QED  BY <2>1, <2>2
<1>11. ~Blank(file[1]) => Named(line + 1, fields'[1])
  BY <1>4, <1>9
<1>12. ~Blank(file'[1]) =>
         /\ Named(line, fields[1])'
         /\ \A i \in DOMAIN routing_table' : Named(line, routing_table[i][1])'
  BY <1>6, <1>10, <1>11 DEF Named
<1> QED  BY <1>1, <1>3, <1>4, <1>5, <1>6, <1>7, <1>12 DEF LoadInv, Blank

\* Every step keeps the invariant of the loading: the list is no part of it.
LEMMA LoadNext ==
    ASSUME LoadInv, [Next]_vars
    PROVE  LoadInv'
<1>1. CASE BadLine
  <2>1. line + 1 \in 1..Len(file) /\ file \in Seq(Seq(Word))
    BY <1>1 DEF BadLine, LoadInv
  <2>2. file[line + 1] \in Seq(Word)
    BY <2>1
  <2>3. fields' \in RtEntry
    BY <1>1, <2>2, ScanFacts DEF BadLine
  <2> QED  BY <1>1, <2>3 DEF BadLine, LoadInv, Named, Blank
<1>2. CASE EndOfFile
  BY <1>2 DEF EndOfFile, LoadInv, Named, Blank
<1>3. CASE UNCHANGED loadVars
  BY <1>3 DEF loadVars, LoadInv, Named, Blank
<1>4. ReadLine \/ BadLine \/ EndOfFile \/ UNCHANGED loadVars
  BY DEF Next, sr_load_rt, ReceiveHwInfo, Link, CopyName, EndList, Added, Queue,
         Resolve, WalkBegin, WalkStep, Stopped, vars
<1> QED  BY <1>1, <1>2, <1>3, <1>4, ReadLineKept

\* The invariant holds whatever is in the file, in the arrays and in the table
\* before the call.
LEMMA LoadCorrect == Spec => []LoadInv
<1>1. Init => LoadInv
  <2> SUFFICES ASSUME LoadInit PROVE LoadInv
    BY DEF Init
  <2>1. /\ file \in Seq(Seq(Word)) /\ line = 0 /\ fields \in RtEntry
        /\ routing_table \in Seq(RtEntry) /\ routing_table = old
        /\ status = "reading" /\ cleared = FALSE
    BY RouteFileAssumption DEF LoadInit, RtEntry
  <2>2. line \in 0..Len(file)
    <3>1. Len(file) \in Nat
      BY <2>1, LenProperties
    <3> QED  BY <2>1, <3>1
  <2>3. ~cleared /\ cleared \in BOOLEAN
    BY <2>1, Zenon
  <2> QED  BY <2>1, <2>2, <2>3, Zenon DEF LoadInv
<1> QED  BY <1>1, LoadNext, PTL DEF Spec

\* Old and new routes are never mixed, whatever the file holds and wherever
\* loading stops.
THEOREM TablesCorrect == Spec => []TablesNotMixed
<1>1. LoadInv => TablesNotMixed
  <2> SUFFICES ASSUME LoadInv, cleared, ~Blank(file[1])
               PROVE  \A i \in DOMAIN routing_table : \E j \in 1..line :
                         ~Blank(file[j]) /\ routing_table[i][1] = file[j][1]
    <3>1. LoadInv /\ cleared => file # <<>>
      <4>1. LoadInv /\ cleared => Len(file) >= 1
        BY LenProperties DEF LoadInv
      <4>2. Len(<<>>) = 0
        OBVIOUS
      <4> QED  BY <4>1, <4>2
    <3> QED  BY <3>1 DEF LoadInv, TablesNotMixed
  <2> QED  BY DEF LoadInv, Named
<1> QED  BY <1>1, LoadCorrect, PTL

-----------------------------------------------------------------------------
(* What a file of complete and blank lines becomes.                        *)

\* The inductive invariant: one entry per line read, each the entry of a
\* complete line no later than its own, and of its own line if that is
\* complete; the fields are those of the last entry.
FileInv ==
    /\ status = "loaded" => line = Len(file)
    /\ CompleteOrBlank /\ cleared =>
          /\ Len(routing_table) = line
          /\ \A k \in 1..line : Complete(file[k]) => routing_table[k] = Entry(file[k])
          /\ \A k \in 1..line : \E j \in 1..k :
                Complete(file[j]) /\ routing_table[k] = Entry(file[j])
          /\ status = "reading" => fields = routing_table[line]

\* A complete line replaces all four fields, a blank one none.
LEMMA ScanWhole ==
    ASSUME LoadInv, NEW words \in Seq(Word)
    PROVE  /\ Complete(words) => Scan(words) = Entry(words)
           /\ Blank(words) => Scan(words) = fields
<1>1. Len(words) \in Nat /\ fields \in [1..4 -> Word]
  BY LenProperties DEF LoadInv, RtEntry
<1>2. ASSUME Complete(words) PROVE Scan(words) = Entry(words)
  <2>1. Len(words) >= 4
    BY <1>2 DEF Complete
  <2>2. Entry(words) = [k \in 1..4 |-> words[k]]
    BY <1>1, <2>1 DEF Entry
  <2> QED  BY <1>1, <2>1, <2>2 DEF Scan
<1>3. ASSUME Blank(words) PROVE Scan(words) = fields
  BY <1>1, <1>3 DEF Scan, Blank
<1> QED  BY <1>2, <1>3

LEMMA ReadLineFile ==
    ASSUME LoadInv, FileInv, ReadLine
    PROVE  FileInv'
<1>1. /\ file \in Seq(Seq(Word)) /\ line \in Nat /\ line < Len(file) /\ Len(file) \in Nat
      /\ routing_table \in Seq(RtEntry) /\ cleared \in BOOLEAN
      /\ ~cleared => line = 0
      /\ status = "reading" /\ status' = status
      /\ cleared' = TRUE /\ line' = line + 1 /\ file' = file
      /\ fields' = Scan(file[line + 1])
      /\ routing_table' = IF cleared THEN Append(routing_table, fields') ELSE <<fields'>>
  BY DEF LoadInv, ReadLine, sr_add_rt_entry
<1>2. line + 1 \in 1..Len(file) /\ file[line + 1] \in Seq(Word)
  BY <1>1
<1>3. /\ Complete(file[line + 1]) => fields' = Entry(file[line + 1])
      /\ Blank(file[line + 1]) => fields' = fields
      /\ fields' \in RtEntry
  BY <1>1, <1>2, ScanWhole, ScanFacts
<1>4. PICK new : new = fields'
  OBVIOUS
<1>5. PICK table : table = routing_table'
  OBVIOUS
<1> SUFFICES ASSUME CompleteOrBlank
             PROVE  /\ Len(table) = line + 1
                    /\ \A k \in 1..(line + 1) : Complete(file[k]) => table[k] = Entry(file[k])
                    /\ \A k \in 1..(line + 1) : \E j \in 1..k :
                          Complete(file[j]) /\ table[k] = Entry(file[j])
                    /\ new = table[line + 1]
  BY <1>1, <1>4, <1>5 DEF FileInv, CompleteOrBlank, Complete, Blank, Entry
<1>6. Complete(file[line + 1]) \/ Blank(file[line + 1])
  BY <1>1, <1>2 DEF CompleteOrBlank
<1>7. CASE cleared
  <2>1. /\ Len(routing_table) = line
        /\ \A k \in 1..line : Complete(file[k]) => routing_table[k] = Entry(file[k])
        /\ \A k \in 1..line : \E j \in 1..k :
              Complete(file[j]) /\ routing_table[k] = Entry(file[j])
        /\ fields = routing_table[line]
        /\ line >= 1
    BY <1>1, <1>7 DEF FileInv, LoadInv
  <2>2. /\ Len(table) = line + 1 /\ table[line + 1] = new
        /\ \A k \in 1..line : table[k] = routing_table[k]
    BY <1>1, <1>3, <1>4, <1>5, <1>7, <2>1
  <2>3. ASSUME NEW k \in 1..(line + 1)
        PROVE  /\ Complete(file[k]) => table[k] = Entry(file[k])
               /\ \E j \in 1..k : Complete(file[j]) /\ table[k] = Entry(file[j])
    <3>1. CASE k \in 1..line
      BY <2>1, <2>2, <3>1
    <3>2. CASE k = line + 1 /\ Complete(file[k])
      BY <1>1, <1>3, <1>4, <2>2, <3>2
    <3>3. CASE k = line + 1 /\ Blank(file[k])
      <4>1. line \in 1..line /\ table[k] = routing_table[line] /\ ~Complete(file[k])
        BY <1>1, <1>3, <1>4, <2>1, <2>2, <3>3 DEF Blank, Complete
      <4>2. PICK j \in 1..line : Complete(file[j]) /\ routing_table[line] = Entry(file[j])
        BY <2>1, <4>1
      <4>3. j \in 1..k
        BY <1>1, <3>3
      <4> QED  BY <4>1, <4>2, <4>3
    <3> QED  BY <1>1, <1>6, <3>1, <3>2, <3>3
  <2> QED  BY <2>2, <2>3
<1>8. CASE ~cleared
  <2>1. line = 0 /\ table = <<new>> /\ Complete(file[1])
    BY <1>1, <1>4, <1>5, <1>8 DEF CompleteOrBlank
  <2>2. new = Entry(file[1])
    BY <1>3, <1>4, <2>1
  <2> QED  BY <2>1, <2>2
<1> QED  BY <1>1, <1>7, <1>8

LEMMA FileNext ==
    ASSUME LoadInv, FileInv, [Next]_vars
    PROVE  FileInv'
<1>1. CASE BadLine
  BY <1>1 DEF BadLine, FileInv, CompleteOrBlank, Complete, Blank, Entry
<1>2. CASE EndOfFile
  BY <1>2 DEF EndOfFile, FileInv, CompleteOrBlank, Complete, Blank, Entry
<1>3. CASE UNCHANGED loadVars
  BY <1>3 DEF loadVars, FileInv, CompleteOrBlank, Complete, Blank, Entry
<1>4. ReadLine \/ BadLine \/ EndOfFile \/ UNCHANGED loadVars
  BY DEF Next, sr_load_rt, ReceiveHwInfo, Link, CopyName, EndList, Added, Queue,
         Resolve, WalkBegin, WalkStep, Stopped, vars
<1> QED  BY <1>1, <1>2, <1>3, <1>4, ReadLineFile

\* A table of FileInv is searched as the file says: the first entry for a
\* destination cannot come from a blank line.
LEMMA FileDecidesIt ==
    ASSUME LoadInv, FileInv, status = "loaded", CompleteOrBlank, NEW d
    PROVE  Lookup(routing_table, d) = FirstLine(d)
<1> DEFINE S == {i \in DOMAIN routing_table : routing_table[i][1] = d}
           L == {i \in DOMAIN file : Complete(file[i]) /\ file[i][1] = d}
<1>1. /\ file \in Seq(Seq(Word)) /\ line = Len(file) /\ Len(file) \in Nat /\ Len(file) # 0
      /\ routing_table \in Seq(RtEntry)
  BY EmptySeq, LenProperties DEF LoadInv, FileInv, CompleteOrBlank
<1>2. cleared
  BY <1>1 DEF LoadInv
<1>3. /\ DOMAIN routing_table = 1..line /\ DOMAIN file = 1..line
      /\ \A k \in 1..line : Complete(file[k]) => routing_table[k] = Entry(file[k])
      /\ \A k \in 1..line : \E j \in 1..k :
            Complete(file[j]) /\ routing_table[k] = Entry(file[j])
  BY <1>1, <1>2, LenProperties DEF FileInv
<1>4. ASSUME NEW k \in 1..line, Complete(file[k]) PROVE Entry(file[k])[1] = file[k][1]
  <2>1. file[k] \in Seq(Word) /\ Len(file[k]) >= 4 /\ Len(file[k]) \in Nat
    BY <1>1, <1>4 DEF Complete
  <2> QED  BY <2>1 DEF Entry
<1>5. ASSUME NEW k \in L PROVE k \in S
  BY <1>3, <1>4
<1>6. ASSUME NEW k \in S PROVE \E j \in L : j <= k /\ routing_table[k] = Entry(file[j])
  <2>1. PICK j \in 1..k : Complete(file[j]) /\ routing_table[k] = Entry(file[j])
    BY <1>3
  <2>2. j \in 1..line /\ j <= k
    BY <1>1, <1>3
  <2> QED  BY <1>3, <1>4, <2>1, <2>2
<1>7. \A k \in S \cup L : k \in Int
  BY <1>1, <1>3
<1>8. \A k \in L : routing_table[k] = Entry(file[k])
  BY <1>3
<1> DEFINE first == {k \in S : \A j \in S : k <= j}
           firstLine == {k \in L : \A j \in L : k <= j}
<1>9. Lookup(routing_table, d) = {routing_table[i] : i \in first}
  BY DEF Lookup
<1>10. FirstLine(d) = {Entry(file[i]) : i \in firstLine}
  BY DEF FirstLine
<1> HIDE DEF S, L
<1>11. first = firstLine
  <2>1. ASSUME NEW k \in first PROVE k \in firstLine
    <3>1. PICK j \in L : j <= k
      BY <1>6
    <3>2. j = k
      BY <1>5, <1>7, <3>1
    <3> QED  BY <1>5, <3>2
  <2>2. ASSUME NEW k \in firstLine PROVE k \in first
    <3>1. ASSUME NEW i \in S PROVE k <= i
      <4>1. PICK j \in L : j <= i
        BY <1>6
      <4> QED  BY <1>5, <1>7, <4>1
    <3> QED  BY <1>5, <3>1
  <2> QED  BY <2>1, <2>2
<1>12. \A i \in firstLine : routing_table[i] = Entry(file[i])
  BY <1>8
<1> HIDE DEF first, firstLine
<1> QED  BY <1>9, <1>10, <1>11, <1>12

\* For every file of complete and blank lines that starts with a complete one,
\* whatever the arrays and the table held before, the table that was loaded
\* routes as the file says.
THEOREM FileCorrect == Spec => []FileDecides
<1>1. Init => FileInv
  BY DEF Init, LoadInit, FileInv
<1>2. LoadInv /\ FileInv /\ [Next]_vars => FileInv'
  BY FileNext
<1>3. LoadInv /\ FileInv => FileDecides
  BY FileDecidesIt DEF FileDecides
<1> QED  BY <1>1, <1>2, <1>3, LoadCorrect, PTL DEF Spec

-----------------------------------------------------------------------------
(* The list.                                                               *)

\* The routes name interfaces by words.
LEMMA RoutesAreWords == LoadInv => Routes \subseteq Word
<1> SUFFICES ASSUME LoadInv, NEW i \in DOMAIN routing_table
             PROVE  routing_table[i][4] \in Word
  BY DEF Routes
<1>1. routing_table[i] \in RtEntry
  BY DEF LoadInv
<1> QED  BY <1>1 DEF RtEntry

\* A step that touches neither the list nor the node in work keeps the chain.
LEMMA ChainKept ==
    ASSUME UNCHANGED <<list, node>>, NEW s, Chain(s)
    PROVE  Chain(s)'
BY DEF Chain, list

\* The node a walk to the end of the list stops at is the last of the chain.
LEMMA LastOfChain ==
    ASSUME NEW s \in Seq(Node), Chain(s), s # <<>>, node = NULL
    PROVE  LastNode = s[Len(s)] /\ next[s[Len(s)]] = NULL /\ name[s[Len(s)]] \in Word
<1>1. Len(s) \in Nat /\ DOMAIN s = 1..Len(s) /\ Len(s) \in DOMAIN s
      /\ \A k \in DOMAIN s : s[k] \in Node
  OBVIOUS
<1>2. node # s[Len(s)]
  BY <1>1, IfListAssumption
<1>3. next[s[Len(s)]] = NULL /\ name[s[Len(s)]] \in Word
  BY <1>1, <1>2 DEF Chain
<1>4. ASSUME NEW n \in alloc, next[n] = NULL PROVE n = s[Len(s)]
  <2>1. PICK k \in DOMAIN s : s[k] = n
    BY DEF Chain
  <2>2. CASE k < Len(s)
    <3>1. next[s[k]] = s[k + 1] /\ k + 1 \in DOMAIN s
      BY <1>1, <2>2 DEF Chain
    <3> QED  BY <1>1, <1>4, <2>1, <3>1, IfListAssumption
  <2>3. CASE ~(k < Len(s))
    BY <1>1, <2>1, <2>3
  <2> QED  BY <2>2, <2>3
<1>5. s[Len(s)] \in alloc
  BY <1>1 DEF Chain
<1> QED  BY <1>3, <1>4, <1>5 DEF LastNode

\* Listed interfaces stay listed while nodes are added and names filled in.
LEMMA ListedGrows ==
    ASSUME alloc \subseteq alloc',
           \A n \in alloc : name[n] # Garbage => name'[n] = name[n]
    PROVE  Listed \subseteq Listed'
BY DEF Listed

\* sr_add_interface links a new node in behind the last.
LEMMA LinkKept ==
    ASSUME LoadInv, ListInv, Link
    PROVE  ListInv'
<1>1. PICK s \in Seq(Node) : Chain(s) /\ WalkAhead(s)
  BY DEF ListInv
<1>2. /\ todo # <<>> /\ node = NULL
      /\ UNCHANGED <<loadVars, name, todo, infos, ended, queued, walk>>
  BY DEF Link
<1>3. PICK n \in Node \ alloc : alloc' = alloc \cup {n} /\ node' = n /\ LinkNode(n)
  BY DEF Link
<1>4. PICK m \in Nat : m = Len(s)
  OBVIOUS
<1>5. DOMAIN s = 1..m /\ (\A k \in DOMAIN s : s[k] \in alloc /\ s[k] \in Node /\ s[k] # n)
  BY <1>1, <1>3, <1>4 DEF Chain
<1>6. next[n] = Garbage /\ name[n] = Garbage /\ DOMAIN next = Node /\ DOMAIN name = Node
  BY <1>3 DEF ListInv, ListTypeOK
<1>7. /\ DOMAIN next' = Node
      /\ \A x \in Node : (m > 0 => x # s[m]) => next'[x] = next[x]
      /\ m > 0 => next'[s[m]] = n /\ name[s[m]] \in Word
      /\ if_list' = IF m = 0 THEN n ELSE s[1]
  <2>1. CASE s = <<>>
    <3>1. m = 0 /\ if_list = NULL
      BY <1>1, <1>4, <2>1 DEF Chain
    <3> QED  BY <1>3, <1>6, <3>1 DEF LinkNode
  <2>2. CASE s # <<>>
    <3>1. m > 0 /\ m \in DOMAIN s /\ if_list = s[1] /\ s[1] \in Node
      BY <1>1, <1>4, <1>5, <2>2 DEF Chain
    <3>2. LastNode = s[m] /\ name[s[m]] \in Word
      BY <1>1, <1>2, <1>4, <2>2, LastOfChain
    <3>3. next' = [next EXCEPT ![s[m]] = n] /\ if_list' = if_list
      BY <1>3, <3>1, <3>2, IfListAssumption DEF LinkNode
    <3> QED  BY <1>5, <1>6, <3>1, <3>2, <3>3
  <2> QED  BY <2>1, <2>2
<1>8. PICK t : t = Append(s, n)
  OBVIOUS
<1>9. /\ t \in Seq(Node) /\ Len(t) = m + 1 /\ DOMAIN t = 1..(m + 1)
      /\ t[m + 1] = n /\ \A k \in 1..m : t[k] = s[k]
  BY <1>3, <1>4, <1>8
<1>10. t # <<>> /\ t[1] = IF m = 0 THEN n ELSE s[1]
  BY <1>4, <1>9
<1>11. Chain(t)'
  <2>1. \A j, k \in DOMAIN t : t[j] = t[k] => j = k
    <3>1. ASSUME NEW j \in DOMAIN t, NEW k \in DOMAIN t, t[j] = t[k], j # k
          PROVE  FALSE
      <4>1. CASE j \in 1..m /\ k \in 1..m
        BY <1>1, <1>5, <1>9, <3>1, <4>1 DEF Chain
      <4>2. CASE ~(j \in 1..m /\ k \in 1..m)
        BY <1>4, <1>5, <1>9, <3>1, <4>2
      <4> QED  BY <4>1, <4>2
    <3> QED  BY <3>1
  <2>2. \A x : x \in alloc' <=> \E k \in DOMAIN t : t[k] = x
    <3>1. \A x : x \in alloc <=> \E k \in 1..m : s[k] = x
      BY <1>1, <1>5 DEF Chain
    <3>2. 1..(m + 1) = 1..m \cup {m + 1}
      BY <1>4
    <3> QED  BY <1>3, <1>9, <3>1, <3>2
  <2>3. ASSUME NEW k \in DOMAIN t
        PROVE  IF k < m + 1 THEN next'[t[k]] = t[k + 1] /\ name'[t[k]] \in Word
               ELSE /\ next'[t[k]] \in {NULL, Garbage}
                    /\ name'[t[k]] \in Word \cup {Garbage}
                    /\ node' = t[k]
    <3>1. CASE k < m
      <4>1. k \in DOMAIN s /\ m \in DOMAIN s /\ k + 1 \in 1..m /\ m > 0
        BY <1>5, <1>9, <3>1
      <4>2. t[k] = s[k] /\ t[k + 1] = s[k + 1] /\ s[k] # s[m]
        BY <1>1, <1>5, <1>9, <3>1, <4>1 DEF Chain
      <4>3. next[s[k]] = s[k + 1] /\ name[s[k]] \in Word
        BY <1>1, <1>4, <3>1, <4>1 DEF Chain
      <4>4. next'[s[k]] = next[s[k]]
        BY <1>5, <1>7, <4>1, <4>2
      <4> QED  BY <1>2, <3>1, <4>2, <4>3, <4>4, <1>9
    <3>2. CASE k = m
      BY <1>2, <1>7, <1>9, <3>2
    <3>3. CASE k = m + 1
      <4>1. m > 0 => n # s[m]
        BY <1>5
      <4> QED  BY <1>2, <1>3, <1>6, <1>7, <1>9, <3>3, <4>1
    <3> QED  BY <1>9, <3>1, <3>2, <3>3
  <2>4. node' # NULL => t # <<>> /\ node' = t[m + 1]
    BY <1>3, <1>9, <1>10
  <2> QED  BY <1>7, <1>9, <1>10, <2>1, <2>2, <2>3, <2>4 DEF Chain
<1>12. WalkAhead(t)'
  <2> SUFFICES ASSUME walk # NULL
               PROVE  /\ walk \in [pos : Node, for : Word]
                      /\ \E k, l \in DOMAIN t :
                            k <= l /\ walk.pos = t[k] /\ name[t[l]] = walk.for
    BY <1>2 DEF WalkAhead
  <2>1. PICK k \in DOMAIN s, l \in DOMAIN s :
              k <= l /\ walk.pos = s[k] /\ name[s[l]] = walk.for
    BY <1>1 DEF WalkAhead
  <2>2. k \in DOMAIN t /\ l \in DOMAIN t /\ t[k] = s[k] /\ t[l] = s[l]
    BY <1>5, <1>9
  <2> QED  BY <1>1, <2>1, <2>2 DEF WalkAhead
<1>13. ListTypeOK'
  <2>1. \A x \in Node \ alloc' : next'[x] = Garbage /\ name'[x] = Garbage
    <3>1. ASSUME NEW x \in Node \ alloc' PROVE next'[x] = next[x] /\ x \in Node \ alloc
      <4>1. m > 0 => x # s[m]
        BY <1>3, <1>5
      <4> QED  BY <1>3, <1>7, <4>1
    <3> QED  BY <1>2, <3>1 DEF ListInv, ListTypeOK
  <2> QED  BY <1>2, <1>3, <1>7, <2>1 DEF ListInv, ListTypeOK
<1>14. Listed \subseteq Listed'
  BY <1>2, <1>3, ListedGrows
<1>15. RoutesListed'
  BY <1>2, <1>14 DEF ListInv, RoutesListed, MainIdle, Routes, loadVars
<1> QED  BY <1>9, <1>11, <1>12, <1>13, <1>15 DEF ListInv

\* The name is copied into the last node, which had none.
LEMMA CopyNameKept ==
    ASSUME LoadInv, ListInv, CopyName
    PROVE  ListInv'
<1>1. PICK s \in Seq(Node) : Chain(s) /\ WalkAhead(s)
  BY DEF ListInv
<1>2. /\ node # NULL /\ node \in Node /\ name[node] = Garbage /\ DOMAIN name = Node
      /\ todo \in Seq(Word) /\ todo # <<>>
      /\ name' = [name EXCEPT ![node] = Head(todo)]
      /\ UNCHANGED <<loadVars, if_list, next, alloc>>
      /\ UNCHANGED <<todo, node, infos, ended, queued, walk>>
  BY DEF CopyName, ListInv, ListTypeOK
<1>3. Head(todo) \in Word /\ Garbage \notin Word
  BY <1>2, IfListAssumption
<1>4. /\ name'[node] \in Word
      /\ \A n \in Node : n # node => name'[n] = name[n]
  BY <1>2, <1>3
<1>5. s # <<>> /\ node = s[Len(s)] /\ \A k \in DOMAIN s : s[k] \in Node
  BY <1>1, <1>2 DEF Chain
<1>6. Chain(s)'
  <2>1. ASSUME NEW k \in DOMAIN s
        PROVE  IF k < Len(s) THEN next'[s[k]] = s[k + 1] /\ name'[s[k]] \in Word
               ELSE /\ next'[s[k]] \in {NULL, Garbage}
                    /\ name'[s[k]] \in Word \cup {Garbage}
                    /\ node' # s[k] => next'[s[k]] = NULL /\ name'[s[k]] \in Word
    BY <1>1, <1>2, <1>4, <1>5 DEF Chain
  <2>2. /\ \A j, k \in DOMAIN s : s[j] = s[k] => j = k
        /\ \A n : n \in alloc' <=> \E k \in DOMAIN s : s[k] = n
        /\ if_list' = IF s = <<>> THEN NULL ELSE s[1]
        /\ node' # NULL => s # <<>> /\ node' = s[Len(s)]
    BY <1>1, <1>2 DEF Chain
  <2> QED  BY <2>1, <2>2 DEF Chain
<1>7. WalkAhead(s)'
  <2> SUFFICES ASSUME walk # NULL
               PROVE  /\ walk \in [pos : Node, for : Word]
                      /\ \E k, m \in DOMAIN s :
                            k <= m /\ walk.pos = s[k] /\ name'[s[m]] = walk.for
    BY <1>2 DEF WalkAhead
  <2>1. PICK k \in DOMAIN s, m \in DOMAIN s :
              k <= m /\ walk.pos = s[k] /\ name[s[m]] = walk.for
    BY <1>1 DEF WalkAhead
  <2>2. walk \in [pos : Node, for : Word]
    BY <1>1 DEF WalkAhead
  <2>3. s[m] # node
    BY <1>2, <1>3, <2>1, <2>2
  <2>4. name'[s[m]] = walk.for
    BY <1>4, <1>5, <2>1, <2>3
  <2> QED  BY <2>1, <2>2, <2>4
<1>8. node \in alloc
  <2>1. Len(s) \in DOMAIN s
    BY <1>5
  <2> QED  BY <1>1, <1>5, <2>1 DEF Chain
<1>9. ListTypeOK'
  <2>1. \A n \in Node \ alloc' : next'[n] = Garbage /\ name'[n] = Garbage
    BY <1>2, <1>4, <1>8 DEF ListInv, ListTypeOK
  <2> QED  BY <1>2, <2>1 DEF ListInv, ListTypeOK
<1>10. Listed \subseteq Listed'
  <2>1. \A n \in alloc : name[n] # Garbage => name'[n] = name[n]
    BY <1>2, <1>4 DEF ListInv, ListTypeOK
  <2> QED  BY <1>2, <2>1, ListedGrows
<1>11. RoutesListed'
  BY <1>2, <1>10 DEF ListInv, RoutesListed, MainIdle, Routes, loadVars
<1> QED  BY <1>6, <1>7, <1>9, <1>11 DEF ListInv

\* The last node's next pointer is set: the list ends there.
LEMMA EndListKept ==
    ASSUME LoadInv, ListInv, EndList
    PROVE  ListInv'
<1>1. PICK s \in Seq(Node) : Chain(s) /\ WalkAhead(s)
  BY DEF ListInv
<1>2. /\ node # NULL /\ node \in Node /\ DOMAIN next = Node
      /\ next' = [next EXCEPT ![node] = NULL]
      /\ UNCHANGED <<loadVars, if_list, name, alloc>>
      /\ UNCHANGED <<todo, node, infos, ended, queued, walk>>
  BY DEF EndList, ListInv, ListTypeOK
<1>3. s # <<>> /\ node = s[Len(s)] /\ \A k \in DOMAIN s : s[k] \in Node
  BY <1>1, <1>2 DEF Chain
<1>4. Len(s) \in DOMAIN s /\ Len(s) \in Nat /\ DOMAIN s = 1..Len(s)
  BY <1>3
<1>5. /\ next'[node] = NULL
      /\ \A n \in Node : n # node => next'[n] = next[n]
  BY <1>2
<1>6. Chain(s)'
  <2>1. ASSUME NEW k \in DOMAIN s
        PROVE  IF k < Len(s) THEN next'[s[k]] = s[k + 1] /\ name'[s[k]] \in Word
               ELSE /\ next'[s[k]] \in {NULL, Garbage}
                    /\ name'[s[k]] \in Word \cup {Garbage}
                    /\ node' # s[k] => next'[s[k]] = NULL /\ name'[s[k]] \in Word
    <3>1. CASE k < Len(s)
      <4>1. s[k] # node
        BY <1>1, <1>3, <1>4, <3>1 DEF Chain
      <4>2. next'[s[k]] = next[s[k]]
        BY <1>3, <1>5, <4>1
      <4> QED  BY <1>1, <1>2, <3>1, <4>2 DEF Chain
    <3>2. CASE ~(k < Len(s))
      <4>1. k = Len(s)
        BY <1>4, <3>2
      <4> QED  BY <1>1, <1>2, <1>3, <1>5, <3>2, <4>1 DEF Chain
    <3> QED  BY <3>1, <3>2
  <2>2. /\ \A j, k \in DOMAIN s : s[j] = s[k] => j = k
        /\ \A n : n \in alloc' <=> \E k \in DOMAIN s : s[k] = n
        /\ if_list' = IF s = <<>> THEN NULL ELSE s[1]
        /\ node' # NULL => s # <<>> /\ node' = s[Len(s)]
    BY <1>1, <1>2 DEF Chain
  <2> QED  BY <2>1, <2>2 DEF Chain
<1>7. WalkAhead(s)'
  BY <1>1, <1>2 DEF WalkAhead
<1>8. node \in alloc
  BY <1>1, <1>3, <1>4 DEF Chain
<1>9. ListTypeOK'
  <2>1. \A n \in Node \ alloc' : next'[n] = Garbage /\ name'[n] = Garbage
    BY <1>2, <1>5, <1>8 DEF ListInv, ListTypeOK
  <2> QED  BY <1>2, <2>1 DEF ListInv, ListTypeOK
<1>10. RoutesListed'
  BY <1>2 DEF ListInv, RoutesListed, MainIdle, Routes, Listed, loadVars
<1> QED  BY <1>6, <1>7, <1>9, <1>10 DEF ListInv

\* main is done with an interface; after the last of a command it has checked
\* the routes, or it is out of its loop.
LEMMA AddedKept ==
    ASSUME LoadInv, ListInv, Added
    PROVE  ListInv'
<1>1. PICK s \in Seq(Node) : Chain(s) /\ WalkAhead(s)
  BY DEF ListInv
<1>2. /\ node # NULL /\ name[node] # Garbage /\ next[node] # Garbage
      /\ node' = NULL /\ todo' = Tail(todo)
      /\ ended' = (todo' = <<>> /\ ~Verified)
      /\ UNCHANGED <<loadVars, list, infos, queued, walk>>
      /\ todo \in Seq(Word) /\ todo # <<>>
  BY DEF Added, ListInv, ListTypeOK
<1>3. s # <<>> /\ node = s[Len(s)] /\ Len(s) \in Nat /\ DOMAIN s = 1..Len(s)
  BY <1>1, <1>2 DEF Chain
<1>4. Chain(s)'
  <2>1. ASSUME NEW k \in DOMAIN s
        PROVE  IF k < Len(s) THEN next'[s[k]] = s[k + 1] /\ name'[s[k]] \in Word
               ELSE next'[s[k]] = NULL /\ name'[s[k]] \in Word
    <3>1. CASE k < Len(s)
      BY <1>1, <1>2, <3>1 DEF Chain, list
    <3>2. CASE ~(k < Len(s))
      <4>1. k = Len(s)
        BY <1>3, <3>2
      <4> QED  BY <1>1, <1>2, <1>3, <3>2, <4>1 DEF Chain, list
    <3> QED  BY <3>1, <3>2
  <2>2. /\ \A j, k \in DOMAIN s : s[j] = s[k] => j = k
        /\ \A n : n \in alloc' <=> \E k \in DOMAIN s : s[k] = n
        /\ if_list' = IF s = <<>> THEN NULL ELSE s[1]
    BY <1>1, <1>2 DEF Chain, list
  <2> QED  BY <1>2, <2>1, <2>2 DEF Chain
<1>5. WalkAhead(s)'
  BY <1>1, <1>2 DEF WalkAhead, list
<1>6. todo' \in Seq(Word)
  BY <1>2
<1>7. ListTypeOK'
  <2>1. ended' \in BOOLEAN
    BY <1>2, Zenon
  <2> QED  BY <1>2, <1>6, <2>1 DEF ListInv, ListTypeOK, list
<1>8. RoutesListed'
  <2>1. Routes' = Routes /\ Listed' = Listed /\ status' = status
    BY <1>2 DEF Routes, Listed, loadVars, list
  <2>2. status = "loaded"
    BY <1>2 DEF ListInv, RoutesListed
  <2>3. MainIdle' => Verified
    <3>1. MainIdle' => todo' = <<>> /\ ~ended'
      BY DEF MainIdle
    <3>2. todo' = <<>> /\ ~Verified => ended'
      BY <1>2, Zenon
    <3> QED  BY <3>1, <3>2
  <2> QED  BY <1>2, <2>1, <2>2, <2>3 DEF ListInv, RoutesListed, Verified
<1> QED  BY <1>4, <1>5, <1>7, <1>8 DEF ListInv

\* The sweeper starts at the head of the list, for an interface that is on it.
LEMMA WalkBeginKept ==
    ASSUME LoadInv, ListInv, WalkBegin
    PROVE  ListInv'
<1>1. PICK s \in Seq(Node) : Chain(s) /\ WalkAhead(s)
  BY DEF ListInv
<1>2. /\ queued /\ walk = NULL
      /\ UNCHANGED <<loadVars, list, todo, node, infos, ended, queued>>
  BY DEF WalkBegin
<1>3. PICK i \in Routes : walk' = [pos |-> if_list, for |-> i]
  BY DEF WalkBegin
<1>4. i \in Word /\ i \in Listed
  BY <1>2, RoutesAreWords DEF ListInv, RoutesListed
<1>5. PICK n \in alloc : name[n] = i
  BY <1>4 DEF Listed
<1>6. PICK m \in DOMAIN s : s[m] = n
  BY <1>1 DEF Chain
<1>7. 1 \in DOMAIN s /\ 1 <= m /\ s # <<>> /\ s[1] \in Node
  BY <1>6
<1>8. if_list = s[1]
  BY <1>1, <1>7 DEF Chain
<1>9. walk' \in [pos : Node, for : Word] /\ walk'.pos = s[1] /\ walk'.for = i
  BY <1>3, <1>4, <1>7, <1>8
<1>10. name'[s[m]] = i
  BY <1>2, <1>5, <1>6 DEF list
<1>11. WalkAhead(s)'
  BY <1>6, <1>7, <1>9, <1>10 DEF WalkAhead
<1>12. Chain(s)'
  BY <1>1, <1>2, ChainKept
<1>13. ListTypeOK'
  BY <1>2 DEF ListInv, ListTypeOK, list
<1>14. RoutesListed'
  BY <1>2 DEF ListInv, RoutesListed, MainIdle, Routes, Listed, loadVars, list
<1> QED  BY <1>11, <1>12, <1>13, <1>14 DEF ListInv

\* A step along the list leads to a node, as the one looked for is ahead.
LEMMA WalkStepKept ==
    ASSUME LoadInv, ListInv, WalkStep
    PROVE  ListInv'
<1>1. PICK s \in Seq(Node) : Chain(s) /\ WalkAhead(s)
  BY DEF ListInv
<1>2. /\ walk # NULL
      /\ walk' = IF name[walk.pos] = walk.for THEN NULL
                 ELSE [walk EXCEPT !.pos = next[walk.pos]]
      /\ UNCHANGED <<loadVars, list, todo, node, infos, ended, queued>>
  BY DEF WalkStep
<1>3. PICK k \in DOMAIN s, m \in DOMAIN s :
            k <= m /\ walk.pos = s[k] /\ name[s[m]] = walk.for
  BY <1>1, <1>2 DEF WalkAhead
<1>4. walk \in [pos : Node, for : Word]
  BY <1>1, <1>2 DEF WalkAhead
<1>5. WalkAhead(s)'
  <2>1. CASE name[walk.pos] = walk.for
    BY <1>2, <2>1 DEF WalkAhead
  <2>2. CASE name[walk.pos] # walk.for
    <3>1. k # m
      BY <1>3, <2>2
    <3>2. k < Len(s) /\ k + 1 \in DOMAIN s /\ k + 1 <= m /\ s[k + 1] \in Node
      BY <1>3, <3>1
    <3>3. next[walk.pos] = s[k + 1]
      BY <1>1, <1>3, <3>2 DEF Chain
    <3>4. /\ walk' \in [pos : Node, for : Word]
          /\ walk'.pos = s[k + 1] /\ walk'.for = walk.for
      BY <1>2, <1>4, <2>2, <3>2, <3>3
    <3>5. name'[s[m]] = walk'.for
      BY <1>2, <1>3, <3>4 DEF list
    <3> QED  BY <3>2, <3>4, <3>5 DEF WalkAhead
  <2> QED  BY <2>1, <2>2
<1>6. Chain(s)'
  BY <1>1, <1>2, ChainKept
<1>7. ListTypeOK'
  BY <1>2 DEF ListInv, ListTypeOK, list
<1>8. RoutesListed'
  <2>1. status = "loaded"
    BY <1>2 DEF ListInv, RoutesListed
  <2> QED  BY <1>2, <2>1 DEF ListInv, RoutesListed, MainIdle, Routes, Listed, loadVars, list
<1> QED  BY <1>5, <1>6, <1>7, <1>8 DEF ListInv

\* Steps that touch neither the list nor a walk along it.
LEMMA ListQuiet ==
    ASSUME ListInv, UNCHANGED <<list, node, walk>>
    PROVE  \E s \in Seq(Node) : Chain(s)' /\ WalkAhead(s)'
<1>1. PICK s \in Seq(Node) : Chain(s) /\ WalkAhead(s)
  BY DEF ListInv
<1>2. Chain(s)'
  BY <1>1, ChainKept
<1>3. WalkAhead(s)'
  BY <1>1 DEF WalkAhead, list
<1> QED  BY <1>2, <1>3

\* Every step keeps the list and the walk along it in order.
LEMMA ListNext ==
    ASSUME LoadInv, ListInv, [Next]_vars
    PROVE  ListInv'
<1>1. CASE sr_load_rt /\ UNCHANGED listVars
  <2>1. /\ UNCHANGED <<list, node, walk>>
        /\ UNCHANGED <<todo, infos, ended, queued>>
    BY <1>1 DEF listVars
  <2>2. status = "reading"
    BY <1>1 DEF sr_load_rt, ReadLine, BadLine, EndOfFile
  <2>3. alloc = {} /\ todo = <<>> /\ ~queued /\ walk = NULL
    BY <2>2 DEF ListInv, RoutesListed
  <2>4. ListTypeOK'
    BY <2>1 DEF ListInv, ListTypeOK, list
  <2>5. RoutesListed'
    BY <2>1, <2>3 DEF RoutesListed, list
  <2> QED  BY <2>1, <2>4, <2>5, ListQuiet DEF ListInv
<1>2. ASSUME NEW h \in HwInfo, ReceiveHwInfo(h) PROVE ListInv'
  <2>1. /\ MainIdle /\ todo' = h
        /\ UNCHANGED <<loadVars, list, node, ended, queued, walk>>
    BY <1>2 DEF ReceiveHwInfo
  <2>2. h \in Seq(Word) /\ h # <<>>
    BY IfListAssumption
  <2>3. ListTypeOK'
    BY <2>1, <2>2 DEF ListInv, ListTypeOK, list
  <2>4. status' = "loaded" /\ ~MainIdle' /\ (queued' => Routes' \subseteq Listed')
    BY <2>1, <2>2 DEF ListInv, RoutesListed, MainIdle, Routes, Listed, loadVars, list
  <2>5. RoutesListed'
    BY <2>4 DEF RoutesListed
  <2> QED  BY <2>1, <2>3, <2>5, ListQuiet DEF ListInv
<1>3. CASE Queue
  <2>1. /\ MainIdle /\ Routes \cap Listed # {} /\ queued' = TRUE
        /\ UNCHANGED <<loadVars, list, todo, node, infos, ended, walk>>
    BY <1>3 DEF Queue
  <2>2. alloc # {}
    BY <2>1 DEF Listed
  <2>3. Routes \subseteq Listed
    BY <2>1, <2>2 DEF ListInv, RoutesListed
  <2>4. Routes' = Routes /\ Listed' = Listed /\ status' = "loaded"
    BY <2>1 DEF Routes, Listed, MainIdle, loadVars, list
  <2>5. ListTypeOK'
    BY <2>1 DEF ListInv, ListTypeOK, list
  <2>6. RoutesListed'
    BY <2>3, <2>4 DEF RoutesListed
  <2> QED  BY <2>1, <2>5, <2>6, ListQuiet DEF ListInv
<1>4. CASE Resolve
  <2>1. /\ MainIdle /\ queued' = FALSE
        /\ UNCHANGED <<loadVars, list, todo, node, infos, ended, walk>>
    BY <1>4 DEF Resolve
  <2>2. ListTypeOK'
    BY <2>1 DEF ListInv, ListTypeOK, list
  <2>3. RoutesListed'
    BY <2>1 DEF ListInv, RoutesListed, MainIdle, Routes, Listed, loadVars, list
  <2> QED  BY <2>1, <2>2, <2>3, ListQuiet DEF ListInv
<1>5. CASE UNCHANGED vars
  <2>1. UNCHANGED <<loadVars, list, node, walk, todo, infos, ended, queued>>
    BY <1>5 DEF vars, listVars
  <2>2. ListTypeOK'
    BY <2>1 DEF ListInv, ListTypeOK, list
  <2>3. RoutesListed'
    BY <2>1 DEF ListInv, RoutesListed, MainIdle, Routes, Listed, loadVars, list
  <2> QED  BY <2>1, <2>2, <2>3, ListQuiet DEF ListInv
<1>6. CASE Stopped
  BY <1>5, <1>6 DEF Stopped
<1> QED  BY <1>1, <1>2, <1>3, <1>4, <1>5, <1>6, LinkKept, CopyNameKept, EndListKept,
            AddedKept, WalkBeginKept, WalkStepKept DEF Next

\* The sweeper's walk never leaves the list, for any number of interfaces and
\* of VNSHWINFO commands: although no lock protects the list, whatever is
\* linked in during a walk lies behind the interface it looks for.
THEOREM WalkCorrect == Spec => []WalkStaysOnList
<1>1. Init => ListInv
  <2> SUFFICES ASSUME Init PROVE ListInv
    OBVIOUS
  <2>1. ListTypeOK
    <3>1. queued \in BOOLEAN /\ ended \in BOOLEAN
      BY Zenon DEF Init
    <3>2. todo \in Seq(Word) /\ node = NULL
      BY DEF Init
    <3> QED  BY <3>1, <3>2 DEF Init, ListTypeOK
  <2>2. RoutesListed
    <3>1. alloc = {} /\ todo = <<>> /\ ~queued /\ walk = NULL
      BY Zenon DEF Init
    <3> QED  BY <3>1 DEF RoutesListed
  <2>3. Chain(<<>>) /\ WalkAhead(<<>>)
    BY DEF Init, Chain, WalkAhead
  <2>4. <<>> \in Seq(Node)
    OBVIOUS
  <2> QED  BY <2>1, <2>2, <2>3, <2>4 DEF ListInv
<1>2. LoadInv /\ ListInv /\ [Next]_vars => ListInv'
  BY ListNext
<1>3. ListInv => WalkStaysOnList
  BY DEF ListInv, WalkAhead, WalkStaysOnList
<1> QED  BY <1>1, <1>2, <1>3, LoadCorrect, PTL DEF Spec

-----------------------------------------------------------------------------
(* Errors about errors.                                                    *)

\* What NeighbourRoutes says of a frame for dst that router r queued for nh.
Routed(r, dst, nh) ==
    /\ dst \notin Own(r)
    /\ \A s \in Router : dst \in Own(s) => nh \in Own(s)

\* A message under way: an error comes from a router, and an error about an
\* error is a frame of the router it is queued at, for the next router, or has
\* reached the router it is for.
MessageInv(m) ==
    /\ m.at \in Router
    /\ m.errors \in {0, 1}
    /\ m.stage \in {"arrived", "queued"}
    /\ m.stage = "arrived" /\ m.what \in ErrorKind =>
          m.pkt.kind = "icmp" /\ \E s \in Router : m.pkt.src \in Own(s)
    /\ m.stage = "queued" /\ m.what \in ErrorKind =>
          \E s \in Router : m.q.buf.src \in Own(s)
    /\ m.errors = 1 => m.what \in ErrorKind
    /\ m.errors = 1 /\ m.stage = "arrived" => m.pkt.dst \in Own(m.at)
    /\ m.errors = 1 /\ m.stage = "queued" =>
          /\ m.q.buf.src \in Own(m.at)
          /\ \E s \in Router \ {m.at} : m.q.buf.dst \in Own(s) /\ m.q.nh \in Own(s)

NetInv ==
    /\ given \in Scenarios
    /\ unsent \subseteq given.packets
    /\ \A m \in messages : MessageInv(m)

LEMMA OwnIs ==
    ASSUME NEW r
    PROVE  R(r)!OwnIP = Own(r)
BY DEF R!OwnIP, Own

LEMMA RouteFacts ==
    ASSUME NEW r, NEW f, NEW q \in R(r)!route_and_send(f)
    PROVE  /\ q.buf = f
           /\ \E k \in DOMAIN given.tables[r] :
                 /\ given.tables[r][k].dest = f.dst
                 /\ q.nh = IF given.tables[r][k].gw = NoIP THEN f.dst ELSE given.tables[r][k].gw
<1> DEFINE t == given.tables[r]
<1>1. PICK k \in R(r)!rt_exact_match(f.dst) :
          q = [buf |-> f, nh |-> R(r)!NextHop(t[k], f), iface |-> t[k].iface]
  BY DEF R!route_and_send
<1>2. k \in DOMAIN t /\ t[k].dest = f.dst
  BY DEF R!rt_exact_match
<1>3. q.buf = f /\ q.nh = R(r)!NextHop(t[k], f)
  BY <1>1
<1> QED  BY <1>2, <1>3 DEF R!NextHop

LEMMA RoutedIs ==
    ASSUME NeighbourRoutes(given.tables), given \in Scenarios,
           NEW r \in Router, NEW f, NEW q \in R(r)!route_and_send(f)
    PROVE  q.buf = f /\ Routed(r, f.dst, q.nh)
<1> DEFINE t == given.tables[r]
<1>1. q.buf = f
  BY RouteFacts
<1>2. PICK k \in DOMAIN t : /\ t[k].dest = f.dst
                            /\ q.nh = IF t[k].gw = NoIP THEN f.dst ELSE t[k].gw
  BY RouteFacts
<1>3. /\ t[k].dest \notin Own(r)
      /\ \A s \in Router : t[k].dest \in Own(s) => t[k].gw = NoIP \/ t[k].gw \in Own(s)
  BY DEF NeighbourRoutes
<1> QED  BY <1>1, <1>2, <1>3 DEF Routed

LEMMA ErrorFacts ==
    ASSUME NeighbourRoutes(given.tables), given \in Scenarios,
           NEW r \in Router, NEW kind, NEW orig, NEW srcIP, srcIP = NoIP \/ srcIP \in Own(r),
           NEW q \in R(r)!send_icmp_error(kind, orig, srcIP)
    PROVE  /\ q.buf.kind = kind /\ q.buf.dst = orig.src /\ q.buf.src \in Own(r)
           /\ Routed(r, orig.src, q.nh)
<1> DEFINE f(a) == [kind |-> kind, id |-> orig.id, src |-> a, dst |-> orig.src,
                    ttl |-> R(r)!INIT_TTL, about |-> orig.kind]
           A == IF srcIP = NoIP THEN R(r)!ReturnIP(orig.src) ELSE {srcIP}
<1>1. PICK a \in A : q \in R(r)!route_and_send(f(a))
  BY DEF R!send_icmp_error
<1>2. a \in Own(r)
  BY DEF R!ReturnIP, Own
<1>3. q.buf = f(a) /\ Routed(r, f(a).dst, q.nh)
  BY <1>1, RoutedIs
<1> QED  BY <1>2, <1>3

LEMMA HandleFacts ==
    ASSUME NeighbourRoutes(given.tables), given \in Scenarios,
           NEW r \in Router, NEW p, NEW q \in R(r)!handle_ip_packet(p)
    PROVE  \/ p.dst \in Own(r) /\ p.kind = "echo" /\ q.buf.kind = "echo_reply"
           \/ p.dst \notin Own(r) /\ q.buf.kind = "forwarded" /\ q.buf.src = p.src
           \/ /\ p.dst \notin Own(r) /\ q.buf.kind \in ErrorKind
              /\ q.buf.dst = p.src /\ q.buf.src \in Own(r) /\ Routed(r, p.src, q.nh)
<1> DEFINE ip == R(r)!InterfaceIP(p.in)
           e(kind) == R(r)!send_icmp_error(kind, p, ip)
<1>1. ip = NoIP \/ ip \in Own(r)
  BY DEF R!InterfaceIP, Own
<1>2. \/ p.dst \in Own(r) /\ p.kind = "echo" /\ q \in R(r)!send_icmp_echo_reply(p)
      \/ p.dst \notin Own(r) /\ q \in R(r)!forward(p)
      \/ p.dst \notin Own(r) /\ \E kind \in ErrorKind : q \in e(kind)
  BY OwnIs DEF R!handle_ip_packet, ErrorKind
<1>3. CASE p.dst \in Own(r) /\ p.kind = "echo" /\ q \in R(r)!send_icmp_echo_reply(p)
  BY <1>3, RouteFacts DEF R!send_icmp_echo_reply
<1>4. CASE p.dst \notin Own(r) /\ q \in R(r)!forward(p)
  BY <1>4, RouteFacts DEF R!forward
<1>5. ASSUME p.dst \notin Own(r), NEW kind \in ErrorKind, q \in e(kind)
      PROVE  /\ q.buf.kind \in ErrorKind /\ q.buf.dst = p.src /\ q.buf.src \in Own(r)
             /\ Routed(r, p.src, q.nh)
  <2> HIDE DEF ip
  <2> QED  BY <1>1, <1>5, ErrorFacts
<1> QED  BY <1>2, <1>3, <1>4, <1>5

\* What a router queues because of a message it has.
LEMMA QueuedErrors ==
    ASSUME NEW m, MessageInv(m), NEW q, q.buf.kind \in ErrorKind,
           q.buf.src \in Own(m.at), NEW src, q.buf.dst = src, Routed(m.at, src, q.nh),
           m.what \in ErrorKind => m.errors = 0 /\ \E s \in Router : src \in Own(s)
    PROVE  MessageInv(Queued(m, q))
<1> DEFINE n == Queued(m, q)
<1>1. /\ n.stage = "queued" /\ n.at = m.at /\ n.q = q /\ n.what = q.buf.kind
      /\ n.errors = IF m.what \in ErrorKind THEN m.errors + 1 ELSE m.errors
  BY DEF Queued, ErrorKind
<1>2. m.at \in Router /\ m.errors \in {0, 1} /\ (m.errors = 1 => m.what \in ErrorKind)
  BY DEF MessageInv
<1>3. n.errors \in {0, 1} /\ (n.errors = 1 => m.what \in ErrorKind)
  BY <1>1, <1>2
<1>4. ASSUME m.what \in ErrorKind
      PROVE  \E s \in Router \ {m.at} : q.buf.dst \in Own(s) /\ q.nh \in Own(s)
  BY <1>4 DEF Routed
<1> HIDE DEF n
<1>5. MessageInv(n)
  BY <1>1, <1>2, <1>3, <1>4 DEF MessageInv
<1> QED  BY <1>5 DEF n

LEMMA HostSendsKeeps ==
    ASSUME NetInv, NEW p \in unsent, HostSends(p)
    PROVE  NetInv'
<1> DEFINE n == Arrived(p.at, p.pkt, p.pkt.kind, 0)
<1>1. /\ unsent' = unsent \ {p} /\ messages' = messages \cup {n} /\ given' = given
      /\ given \in Scenarios /\ unsent \subseteq given.packets
  BY DEF HostSends, NetInv
<1>2. p.at \in Router /\ p.pkt.kind \notin ErrorKind
  BY <1>1, NetworkAssumption
<1>3. MessageInv(n)
  BY <1>2 DEF MessageInv, Arrived
<1> HIDE DEF n
<1> QED  BY <1>1, <1>3 DEF NetInv

LEMMA ReceiveKeeps ==
    ASSUME NeighbourRoutes(given.tables), NetInv,
           NEW m \in messages, Receive(m)
    PROVE  NetInv'
<1> DEFINE out == R(m.at)!handle_ip_packet(m.pkt)
<1>1. /\ m.stage = "arrived" /\ messages' = (messages \ {m}) \cup {Queued(m, q) : q \in out}
      /\ given' = given /\ unsent' = unsent
  BY DEF Receive
<1>2. given \in Scenarios /\ MessageInv(m) /\ m.at \in Router /\ m.errors \in {0, 1}
  BY DEF NetInv, MessageInv
<1>3. ASSUME NEW q \in out PROVE MessageInv(Queued(m, q))
  <2> DEFINE n == Queued(m, q)
  <2>1. CASE m.pkt.dst \in Own(m.at) /\ m.pkt.kind = "echo" /\ q.buf.kind = "echo_reply"
    <3>1. /\ n.stage = "queued" /\ n.at = m.at /\ n.what = "echo_reply" /\ n.errors = m.errors
      BY <2>1 DEF Queued, ErrorKind
    <3>2. m.errors = 0
      BY <1>1, <1>2, <2>1 DEF MessageInv
    <3>3. "echo_reply" \notin ErrorKind
      BY DEF ErrorKind
    <3> HIDE DEF n
    <3>4. MessageInv(n)
      BY <1>2, <3>1, <3>2, <3>3 DEF MessageInv
    <3> QED  BY <3>4 DEF n
  <2>2. CASE m.pkt.dst \notin Own(m.at) /\ q.buf.kind = "forwarded" /\ q.buf.src = m.pkt.src
    <3>1. /\ n.stage = "queued" /\ n.at = m.at /\ n.q = q /\ n.what = m.what /\ n.errors = m.errors
      BY <2>2 DEF Queued, ErrorKind
    <3>2. m.errors = 0
      BY <1>1, <1>2, <2>2 DEF MessageInv
    <3>3. m.what \in ErrorKind => \E s \in Router : m.pkt.src \in Own(s)
      BY <1>1, <1>2 DEF MessageInv
    <3> HIDE DEF n
    <3>4. MessageInv(n)
      BY <1>2, <2>2, <3>1, <3>2, <3>3 DEF MessageInv
    <3> QED  BY <3>4 DEF n
  <2>3. CASE /\ m.pkt.dst \notin Own(m.at) /\ q.buf.kind \in ErrorKind
             /\ q.buf.dst = m.pkt.src /\ q.buf.src \in Own(m.at) /\ Routed(m.at, m.pkt.src, q.nh)
    <3>1. m.errors = 0
      BY <1>1, <1>2, <2>3 DEF MessageInv
    <3>2. m.what \in ErrorKind => \E s \in Router : m.pkt.src \in Own(s)
      BY <1>1, <1>2 DEF MessageInv
    <3> QED  BY <1>2, <2>3, <3>1, <3>2, QueuedErrors
  <2> QED  BY <1>2, <2>1, <2>2, <2>3, HandleFacts
<1> HIDE DEF out
<1> QED  BY <1>1, <1>3 DEF NetInv

LEMMA DeliverKeeps ==
    ASSUME NeighbourRoutes(given.tables), NetInv,
           NEW m \in messages, Deliver(m)
    PROVE  NetInv'
<1>1. m.stage = "queued" /\ given' = given /\ unsent' = unsent /\ given \in Scenarios /\ MessageInv(m)
  BY DEF Deliver, NetInv
<1>2. CASE messages' = messages \ {m}
  BY <1>1, <1>2 DEF NetInv
<1>3. ASSUME NEW o \in Answering(m.at, m.q.nh),
             messages' = (messages \ {m}) \cup {Arrived(o[1], PacketOf(m, o[2]), m.what, m.errors)}
      PROVE  NetInv'
  <2> DEFINE p == PacketOf(m, o[2])
             n == Arrived(o[1], p, m.what, m.errors)
  <2>1. o[1] \in Router /\ m.q.nh \in Own(o[1])
    BY DEF Answering, Own
  <2>2. /\ p.src = m.q.buf.src /\ p.dst = m.q.buf.dst /\ (m.what \in ErrorKind => p.kind = "icmp")
    BY DEF PacketOf
  <2> HIDE DEF p
  <2>3. n.stage = "arrived" /\ n.at = o[1] /\ n.pkt = p /\ n.what = m.what /\ n.errors = m.errors
    BY DEF Arrived
  <2>4. m.errors = 1 => p.dst \in Own(o[1])
    <3> SUFFICES ASSUME m.errors = 1 PROVE p.dst \in Own(o[1])
      OBVIOUS
    <3>1. PICK s \in Router : m.q.buf.dst \in Own(s) /\ m.q.nh \in Own(s)
      BY <1>1 DEF MessageInv
    <3>2. s = o[1]
      BY <1>1, <2>1, <3>1 DEF NeighbourRoutes
    <3> QED  BY <2>2, <3>1, <3>2
  <2> HIDE DEF n
  <2>5. MessageInv(n)
    BY <1>1, <2>1, <2>2, <2>3, <2>4 DEF MessageInv
  <2> QED  BY <1>1, <1>3, <2>5 DEF NetInv, n, p
<1> QED  BY <1>2, <1>3 DEF Deliver

LEMMA GiveUpKeeps ==
    ASSUME NeighbourRoutes(given.tables), NetInv,
           NEW m \in messages, GiveUp(m)
    PROVE  NetInv'
<1> DEFINE out == R(m.at)!send_icmp_error("host_unreachable", m.q.buf, NoIP)
<1>1. /\ m.stage = "queued" /\ messages' = (messages \ {m}) \cup {Queued(m, q) : q \in out}
      /\ given' = given /\ unsent' = unsent
  BY DEF GiveUp
<1>2. given \in Scenarios /\ MessageInv(m) /\ m.at \in Router /\ m.errors \in {0, 1}
  BY DEF NetInv, MessageInv
<1>3. ASSUME NEW q \in out PROVE MessageInv(Queued(m, q))
  <2>1. /\ q.buf.kind \in ErrorKind /\ q.buf.dst = m.q.buf.src /\ q.buf.src \in Own(m.at)
        /\ Routed(m.at, m.q.buf.src, q.nh)
    BY <1>2, ErrorFacts DEF ErrorKind
  <2>2. m.errors = 0
    BY <1>1, <1>2, <2>1 DEF MessageInv, Routed
  <2>3. m.what \in ErrorKind => \E s \in Router : m.q.buf.src \in Own(s)
    BY <1>1, <1>2 DEF MessageInv
  <2> QED  BY <1>2, <2>1, <2>2, <2>3, QueuedErrors
<1> HIDE DEF out
<1> QED  BY <1>1, <1>3 DEF NetInv

LEMMA NetInvNext == NeighbourRoutes(given.tables) /\ NetInv /\ [NetNext]_netVars => NetInv'
<1> SUFFICES ASSUME NeighbourRoutes(given.tables), NetInv, [NetNext]_netVars PROVE NetInv'
  OBVIOUS
<1>1. CASE UNCHANGED netVars
  BY <1>1 DEF NetInv, netVars
<1>2. CASE Done
  BY <1>1, <1>2 DEF Done
<1>3. ASSUME NEW m \in messages, Receive(m) \/ Deliver(m) \/ GiveUp(m) PROVE NetInv'
  BY <1>3, ReceiveKeeps, DeliverKeeps, GiveUpKeeps
<1>4. ASSUME NEW p \in unsent, HostSends(p) PROVE NetInv'
  BY <1>4, HostSendsKeeps
<1> QED  BY <1>1, <1>2, <1>3, <1>4 DEF NetNext, Move

\* In every scenario in which a router reaches the addresses of another one
\* through that router, if at all, and none has a route to itself: for all
\* routes to hosts, all packets and all next hops that fall silent, an error
\* about an error is the last of its chain.
THEOREM ErrorChainsEnd == NetSpec => [](NeighbourRoutes(given.tables) => ErrorsAboutErrors)
<1> DEFINE Inv == NeighbourRoutes(given.tables) => NetInv
<1>1. NetInit => Inv
  BY DEF NetInit, NetInv
<1>2. Inv /\ [NetNext]_netVars => Inv'
  <2>1. [NetNext]_netVars => given' = given
    BY DEF NetNext, Move, Receive, Deliver, GiveUp, HostSends, Done, netVars
  <2>2. given' = given => (NeighbourRoutes(given.tables) <=> NeighbourRoutes(given.tables)')
    BY DEF NeighbourRoutes, Own
  <2> QED  BY <2>1, <2>2, NetInvNext
<1>3. Inv => (NeighbourRoutes(given.tables) => ErrorsAboutErrors)
  <2>1. ASSUME NEW e \in {0, 1} PROVE e <= 1
    OBVIOUS
  <2> QED  BY <2>1 DEF NetInv, MessageInv, ErrorsAboutErrors
<1> QED  BY <1>1, <1>2, <1>3, PTL DEF NetSpec

=============================================================================
