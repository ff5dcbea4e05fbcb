------------------------------- MODULE ArpCache -------------------------------
(***************************************************************************)
(* struct sr_arpcache as a whole: the request queue of ArpQueue together   *)
(* with the table of resolved addresses.  The table is written by every    *)
(* ARP reply (sr_arpcache_insert) and aged by the sweeper                  *)
(* (sr_arpcache_timeout); the router never reads it.                       *)
(***************************************************************************)
EXTENDS ArpQueue

CONSTANTS
    Mac,
    Replies,          \* the ARP replies that may arrive: [ip, mac]
    SR_ARPCACHE_SZ,
    SR_ARPCACHE_TO

ASSUME ArpCacheAssumption ==
    /\ Replies \subseteq [ip : IP, mac : Mac]
    /\ SR_ARPCACHE_SZ \in Nat \ {0}
    /\ SR_ARPCACHE_TO \in Nat

\* cache->entries: a function from the slots that are valid.
VARIABLE entries

cacheVars == <<vars, entries>>

Slot == 1..SR_ARPCACHE_SZ

\* Whole seconds since the entry was added, as far as the timeout tells ages
\* apart.
Age == 0..(SR_ARPCACHE_TO + 1)

Entry == [ip : IP, mac : Mac, age : Age]

CacheInit == Init /\ entries = <<>>

-----------------------------------------------------------------------------
\* Mutants of the insertion: the search runs one slot too far, or it stops at
\* the first slot whatever is in it.
InsertEntry_OneTooFar(reply) ==
    LET free == (Slot \cup {SR_ARPCACHE_SZ + 1}) \ DOMAIN entries
        new == [ip |-> reply.ip, mac |-> reply.mac, age |-> 0]
    IN  entries' = [i \in DOMAIN entries \cup {Min(free)} |->
                        IF i \in DOMAIN entries THEN entries[i] ELSE new]

InsertEntry_FirstSlot(reply) ==
    LET new == [ip |-> reply.ip, mac |-> reply.mac, age |-> 0]
    IN  entries' = [i \in DOMAIN entries \cup {1} |->
                        IF i = 1 THEN new ELSE entries[i]]

\* The second half of sr_arpcache_insert: the first slot that is not valid
\* takes the mapping; if there is none the mapping is dropped.
InsertEntry(reply) ==
    LET free == Slot \ DOMAIN entries
        new == [ip |-> reply.ip, mac |-> reply.mac, age |-> 0]
    IN  entries' = IF free = {} THEN entries
                   ELSE [i \in DOMAIN entries \cup {Min(free)} |->
                            IF i \in DOMAIN entries THEN entries[i] ELSE new]

\* handle_arp_packet for an ARP reply, whether or not it was asked for.
HandleReply(reply) ==
    /\ \/ HandleArpReply(reply.ip)
       \/ /\ Idle("receiver")
          /\ LockFree("receiver")
          /\ PositionsFor(reply.ip) = {}
          /\ UNCHANGED vars
    /\ InsertEntry(reply)

\* What sr_arpcache_lookup returns a copy of: the last valid entry for a.
sr_arpcache_lookup(a) ==
    LET found == {i \in DOMAIN entries : entries[i].ip = a}
    IN  {entries[i] : i \in {k \in found : \A j \in found : j <= k}}

\* Mutant: the sweeper sees to the requests only.
Timeout_KeepsEntries == SweepBegin /\ UNCHANGED entries

\* sr_arpcache_timeout: with the lock taken, old entries become invalid and
\* the sweep of the requests begins.
Timeout ==
    /\ SweepBegin
    /\ entries' = Restrict(entries, {i \in DOMAIN entries :
                                        entries[i].age <= SR_ARPCACHE_TO})

CacheTick ==
    /\ Tick
    /\ entries' = [i \in DOMAIN entries |->
                    [entries[i] EXCEPT !.age = Min({@ + 1, SR_ARPCACHE_TO + 1})]]

CacheNext ==
    \/ \E reply \in Replies : HandleReply(reply)
    \/ Timeout
    \/ CacheTick
    \/ /\ \/ \E p \in Packets : HandleIp(p)
          \/ \E t \in Thread : Step(t)
          \/ SweepStep
          \/ Faulted
       /\ UNCHANGED entries

CacheSpec == CacheInit /\ [][CacheNext]_cacheVars

CacheFairness ==
    /\ WF_cacheVars(CacheTick)
    /\ WF_cacheVars(Timeout)
    /\ WF_cacheVars(SweepStep /\ UNCHANGED entries)
    /\ \A t \in Thread : WF_cacheVars(Step(t) /\ UNCHANGED entries)
    /\ SF_cacheVars(Route("receiver") /\ UNCHANGED entries)
    /\ SF_cacheVars(Destroy("receiver") /\ UNCHANGED entries)

CacheFairSpec == CacheSpec /\ CacheFairness

-----------------------------------------------------------------------------
(* Properties.                                                             *)

\* Type correctness of the table.
CacheTypeOK ==
    /\ DOMAIN entries \subseteq Slot
    /\ \A i \in DOMAIN entries : entries[i] \in Entry

\* In a step a mapping stays what it was and only grows older.
MappingKept(i) ==
    /\ i \in DOMAIN entries'
    /\ entries'[i].ip = entries[i].ip
    /\ entries'[i].mac = entries[i].mac
    /\ entries'[i].age >= entries[i].age

\* The sweeper drops a mapping only when it is older than the timeout, and as
\* long as the table has room no insertion takes the slot of one.  A mapping
\* that is not old can only have to make room when all slots are full, and
\* then for one that is fresh ("kick out a random entry if all entries full").
MappingsKept ==
    [][\A i \in DOMAIN entries :
          \/ MappingKept(i)
          \/ i \notin DOMAIN entries' /\ entries[i].age > SR_ARPCACHE_TO
          \/ /\ DOMAIN entries = Slot
             /\ i \in DOMAIN entries' /\ entries'[i].age = 0
             /\ \A j \in Slot \ {i} : MappingKept(j)]_cacheVars

\* Every mapping is eventually dropped, so a table full of them accepts new
\* ones again: the sweeper gets the lock and back to the table whatever the
\* requests it handles in between make it do.
MappingsExpire ==
    \A i \in Slot : i \in DOMAIN entries ~>
        (i \notin DOMAIN entries \/ fault # "none")

-----------------------------------------------------------------------------
(* What a comment says that the code does not guarantee.                   *)

\* "Seed RNG to kick out a random entry if all entries full": a reply that finds
\* the table full takes the slot of another mapping.  The random numbers are
\* never drawn: the reply's mapping is dropped.
FullTableMakesRoom ==
    [][\A reply \in Replies :
          HandleReply(reply) /\ DOMAIN entries = Slot => entries' # entries]_cacheVars

\* "Inserts this IP to MAC mapping in the cache, and marks it valid": after an
\* ARP reply was handled the table holds its mapping, freshly added.
ReplyRecorded ==
    [][\A reply \in Replies : HandleReply(reply) =>
          \E i \in DOMAIN entries' :
              entries'[i] = [ip |-> reply.ip, mac |-> reply.mac, age |-> 0]]_cacheVars

\* The ARP reply processing code moves "entries from the ARP request queue to
\* the ARP cache", for arpcache_lookup to find: a mapping that did get a slot
\* is the one that is looked up.
LookupFindsReply ==
    [][\A reply \in Replies :
          HandleReply(reply) /\ entries' # entries =>
              \A e \in sr_arpcache_lookup(reply.ip)' : e.mac = reply.mac]_cacheVars
=============================================================================
