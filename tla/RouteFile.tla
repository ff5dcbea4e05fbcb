------------------------------ MODULE RouteFile ------------------------------
(***************************************************************************)
(* sr_load_rt (sr_rt.c): a routing table file is read line by line.  The   *)
(* four words of a line go to four local arrays, which keep what they had  *)
(* where a line has fewer words; before the first line they hold whatever  *)
(* was on the stack.  IfList goes on from the table that was loaded, and   *)
(* Session uses the result: a file replaces the table, leaves it alone if  *)
(* it is empty, or cannot be loaded.                                       *)
(***************************************************************************)
EXTENDS Naturals, Sequences

CONSTANTS
    Address,    \* words that inet_aton converts
    Word,       \* all words, Address among them
    Files,      \* contents of files: sequences of lines, lines of words
    Stack,      \* what the four arrays may hold before the first line
    OldTables   \* tables from an earlier call

ASSUME RouteFileAssumption ==
    /\ Address \subseteq Word
    /\ Files \subseteq Seq(Seq(Word))
    /\ Stack \subseteq [1..4 -> Word]
    /\ \A t \in OldTables : t \in Seq([1..4 -> Word])

VARIABLES
    file,           \* what is in the file
    line,           \* the number of lines read
    fields,         \* dest, gw, mask and iface, as words
    routing_table,  \* sr->routing_table: the fields of each entry
    old,            \* history: the table before the call
    cleared,        \* clear_routing_table
    status          \* "reading", "loaded" or "failed"

loadVars == <<file, line, fields, routing_table, old, cleared, status>>

LoadInit ==
    /\ file \in Files
    /\ line = 0
    /\ fields \in Stack
    /\ old \in OldTables
    /\ routing_table = old
    /\ cleared = FALSE
    /\ status = "reading"

-----------------------------------------------------------------------------
\* sscanf: the words there are replace the fields from the first one on.
Scan(words) == [k \in 1..4 |-> IF k <= Len(words) THEN words[k] ELSE fields[k]]

\* Mutants of the insertion: the table is never cleared, or for every line.
sr_add_rt_entry_NoClear(entry) == Append(routing_table, entry)

sr_add_rt_entry_ClearsAll(entry) == <<entry>>

\* The table is cleared before the first entry, and each goes to its end.
sr_add_rt_entry(entry) ==
    IF cleared THEN Append(routing_table, entry) ELSE <<entry>>

\* One round of the loop, for a line whose addresses can be converted ...
ReadLine ==
    /\ status = "reading"
    /\ line < Len(file)
    /\ fields' = Scan(file[line + 1])
    /\ \A k \in 1..3 : fields'[k] \in Address
    /\ routing_table' = sr_add_rt_entry(fields')
    /\ cleared' = TRUE
    /\ line' = line + 1
    /\ UNCHANGED <<file, old, status>>

\* ... and for one where they cannot.
BadLine ==
    /\ status = "reading"
    /\ line < Len(file)
    /\ fields' = Scan(file[line + 1])
    /\ \E k \in 1..3 : fields'[k] \notin Address
    /\ status' = "failed"
    /\ UNCHANGED <<file, line, routing_table, old, cleared>>

EndOfFile ==
    /\ status = "reading"
    /\ line = Len(file)
    /\ status' = "loaded"
    /\ UNCHANGED <<file, line, fields, routing_table, old, cleared>>

sr_load_rt == ReadLine \/ BadLine \/ EndOfFile

-----------------------------------------------------------------------------
(* Properties.                                                             *)

\* What rt_exact_match finds for d.
Lookup(table, d) ==
    LET S == {i \in DOMAIN table : table[i][1] = d}
    IN  {table[i] : i \in {k \in S : \A j \in S : k <= j}}

Complete(words) == Len(words) >= 4

Blank(words) == Len(words) = 0

Entry(words) == SubSeq(words, 1, 4)

\* What the file says of d: its first complete line with that destination.
FirstLine(d) ==
    LET S == {i \in DOMAIN file : Complete(file[i]) /\ file[i][1] = d}
    IN  {Entry(file[i]) : i \in {k \in S : \A j \in S : k <= j}}

CompleteOrBlank ==
    /\ file # <<>>
    /\ Complete(file[1])
    /\ \A i \in DOMAIN file : Complete(file[i]) \/ Blank(file[i])

\* A file that starts with a complete line and has blank lines anywhere after
\* it, at its end for instance, routes as its complete lines say, the first
\* one for a destination first: each blank line only repeats an entry.  Routes
\* match a destination exactly, as rt_exact_match does.
FileDecides ==
    status = "loaded" /\ CompleteOrBlank
    => \A d \in Address : Lookup(routing_table, d) = FirstLine(d)

\* Old and new routes are never mixed: at any time, and also where loading
\* stops at a bad line, the table is the old one or has only destinations
\* that the lines read so far name (given that the first line names one).
TablesNotMixed ==
    \/ routing_table = old
    \/ file # <<>> /\ Blank(file[1])
    \/ \A i \in DOMAIN routing_table : \E j \in 1..line :
          ~Blank(file[j]) /\ routing_table[i][1] = file[j][1]
=============================================================================
