------------------------------ MODULE DynPool ------------------------------
(***************************************************************************)
(* The lists of the dynamic pool (src/dynamic.c): free_list with its runs  *)
(* of free addresses, mapped_list and dormant_list, the circular search    *)
(* for a free address, and the ageing pass of dynamic_maint.  Addresses    *)
(* are host parts 0..N-1 of the pool prefix; 0 is free_head, never leased. *)
(*                                                                         *)
(* Every operation here runs under map_mutex, so it is one action.  Of the *)
(* cache only the entry of each lease is kept: when it was last used, or   *)
(* NoEntry.  An entry may age out, or be flushed by a reload, at any time. *)
(***************************************************************************)
EXTENDS Integers, Sequences, SequencesExt

CONSTANTS
  N,               \* size of the pool
  Hosts, NoHost,   \* IPv6 addresses
  Home,            \* where the search for a host's address starts (a hash)
  Boot,            \* what the clock may show when the daemon starts
  Configs,         \* what tayga.conf may say: its static mappings cover v4
                   \* inside the pool and v6 among the hosts
  NoEntry,         \* d->cache_entry is NULL
  MinLease, MaxLease,
  MaxTime          \* bound of the clock

Addrs == 1 .. N - 1
Time == 0 .. MaxTime

ASSUME Sizes == N \in Nat /\ N > 1 /\ {MinLease, MaxLease, MaxTime} \subseteq Nat
ASSUME Names ==
  /\ NoHost \notin Hosts /\ NoEntry \notin Int
  /\ Home \in [Hosts -> 0 .. N - 1]
  /\ Configs \subseteq [v4 : SUBSET Addrs, v6 : SUBSET Hosts]
  /\ Boot \subseteq Time

VARIABLES
  conf,     \* the tayga.conf in force
  now,      \* the process clock
  free,     \* free_list: a node for free_head and for each lease, with the
            \* number of free addresses that follow it
  mapped,   \* mapped_list
  dormant,  \* dormant_list, most recently used first
  host,     \* map6.addr of each lease
  last,     \* last_use of each lease
  entry,    \* last_use of the lease's cache entry
  pending   \* map_write_pending

lists == <<free, mapped, dormant, host, last, entry>>
vars == <<conf, now, lists, pending>>

Node(a, n) == [addr |-> a, count |-> n]
\* The cache knows better than the lease while there is an entry.
LastUse(a) == IF entry[a] # NoEntry THEN entry[a] ELSE last[a]
Leased == ToSet(mapped) \cup ToSet(dormant)

TypeOK ==
  /\ conf \in Configs
  /\ now \in Time
  /\ \A i \in DOMAIN free : free[i] \in [addr : 0 .. N - 1, count : 0 .. N - 1]
  /\ Leased \subseteq Addrs
  /\ host \in [Addrs -> Hosts \cup {NoHost}]
  /\ last \in [Addrs -> -MinLease .. MaxTime]
  /\ entry \in [Addrs -> Time \cup {NoEntry}]
  /\ pending \in BOOLEAN

-----------------------------------------------------------------------------
(* free_list.                                                              *)

\* Mutant: the node's own address, too.
Covers_WithNode(f) == f.addr .. f.addr + f.count
Covers(f) == f.addr + 1 .. f.addr + f.count

\* alloc_map_dynamic: the run of node i is cut at address a.
Split(q, i, a) ==
  LET f == q[i]
  IN InsertAt(ReplaceAt(q, i, Node(f.addr, a - f.addr - 1)),
              i + 1, Node(a, f.count - (a - f.addr)))

\* Mutant: the address of the lease itself is not given back.
Merge_OffByOne(q, a) ==
  LET i == CHOOSE j \in DOMAIN q : q[j].addr = a
  IN RemoveAt(ReplaceAt(q, i - 1, Node(q[i - 1].addr, q[i - 1].count + q[i].count)), i)

\* The freed lease's run goes to the node before it in the list.
Merge(q, a) ==
  LET i == CHOOSE j \in DOMAIN q : q[j].addr = a
  IN RemoveAt(ReplaceAt(q, i - 1, Node(q[i - 1].addr, q[i - 1].count + q[i].count + 1)), i)

\* Free addresses of node i in low..high-1 that the pool entry answers for.
Usable(i, low, high) ==
  {a \in Covers(free[i]) \ conf.v4 : low <= a /\ a < high}

\* The first run of the list with a usable address, and its lowest one.
Scan(low, high) ==
  LET runs == {i \in DOMAIN free : Usable(i, low, high) # {}}
  IN IF runs = {} THEN {} ELSE {[run |-> Min(runs), addr |-> Min(Usable(Min(runs), low, high))]}

\* Mutant: only the half of the circle from the host's home upwards.
Search_OneHalf(h) == Scan(Home[h], N)

\* The two passes over the circle from the host's home.
Search(h) ==
  LET first == Scan(Home[h], N)
  IN IF first # {} THEN first ELSE Scan(0, Home[h])

-----------------------------------------------------------------------------
(* dormant_list.                                                           *)

\* Mutant: every lease goes to the end.
FiledBy_AtEnd(use, q, a) == Append(q, a)

\* move_to_dormant: the end if nothing there is older, else before the first
\* lease that is older; use gives the last use of each lease.
FiledBy(use, q, a) ==
  IF q = <<>> \/ use[Last(q)] >= use[a] THEN Append(q, a)
  ELSE InsertAt(q, SelectInSeq(q, LAMBDA b : use[b] < use[a]), a)

\* assign_dynamic and the DYNAMIC_HOST case of map_ip6_to_ip4: a goes to the
\* front of mapped_list, for host h, used now; with a cache entry or none.
Activate(a, h) ==
  /\ mapped' = <<a>> \o mapped
  /\ host' = [host EXCEPT ![a] = h]
  /\ last' = [last EXCEPT ![a] = now]
  /\ \E e \in {now, NoEntry} : entry' = [entry EXCEPT ![a] = e]
  /\ UNCHANGED <<conf, now>>

Mapped(h) == {a \in ToSet(mapped) : host[a] = h}
Dormant(h) == {a \in ToSet(dormant) : host[a] = h}

\* find_map6 finds nothing for the host: assign_dynamic is called.
Unknown(h) == h \notin conf.v6 /\ Mapped(h) = {}

\* The slow path of a lookup for a host that has a mapped lease.
Answer(a) ==
  /\ a \in ToSet(mapped)
  /\ entry[a] = NoEntry
  /\ last' = [last EXCEPT ![a] = now]
  /\ \E e \in {now, NoEntry} : entry' = [entry EXCEPT ![a] = e]
  /\ UNCHANGED <<conf, now, free, mapped, dormant, host, pending>>

\* The cached path: only the entry is refreshed.
Hit(a) ==
  /\ entry[a] # NoEntry
  /\ entry' = [entry EXCEPT ![a] = now]
  /\ UNCHANGED <<conf, now, free, mapped, dormant, host, last, pending>>

\* report_ageout.
AgeOut(a) ==
  /\ entry[a] # NoEntry
  /\ last' = [last EXCEPT ![a] = entry[a]]
  /\ entry' = [entry EXCEPT ![a] = NoEntry]
  /\ UNCHANGED <<conf, now, free, mapped, dormant, host, pending>>

\* Mutant: the lease is not unlinked from dormant_list.
Reactivate_LeavesCopy(h) ==
  /\ Unknown(h) /\ Dormant(h) # {}
  /\ Activate(dormant[SelectInSeq(dormant, LAMBDA b : host[b] = h)], h)
  /\ UNCHANGED <<dormant, free, pending>>

\* The host's own dormant lease, the first in the list.
Reactivate(h) ==
  /\ Unknown(h) /\ Dormant(h) # {}
  /\ LET i == SelectInSeq(dormant, LAMBDA b : host[b] = h)
     IN Activate(dormant[i], h) /\ dormant' = RemoveAt(dormant, i)
  /\ UNCHANGED <<free, pending>>

\* A free address.
AssignFree(h) ==
  /\ Unknown(h) /\ Dormant(h) = {}
  /\ \E p \in Search(h) : Activate(p.addr, h) /\ free' = Split(free, p.run, p.addr)
  /\ pending' = TRUE
  /\ UNCHANGED dormant

\* The pool is exhausted: the last dormant lease changes hands.
Reassign(h) ==
  /\ Unknown(h) /\ Dormant(h) = {}
  /\ Search(h) = {}
  /\ dormant # <<>>
  /\ Activate(Last(dormant), h)
  /\ dormant' = Front(dormant)
  /\ pending' = TRUE
  /\ UNCHANGED free

Assign(h) == Reactivate(h) \/ AssignFree(h) \/ Reassign(h)

-----------------------------------------------------------------------------
(* The ageing half of dynamic_maint.                                       *)

\* Mutant: a cached lease is judged by the last use the lease itself has.
Idle_IgnoresCache(a) == last[a] + MinLease < now
Idle(a) == entry[a] = NoEntry /\ last[a] + MinLease < now

Resting == {a \in ToSet(mapped) : Idle(a)}

\* The members of q that are in A, in their order.
Those(q, A) ==
  LET f[i \in 0 .. Len(q)] ==
        IF i = 0 THEN <<>> ELSE IF q[i] \in A THEN Append(f[i - 1], q[i]) ELSE f[i - 1]
  IN f[Len(q)]

\* The leases of q join dormant_list one after the other.
Filed(q) ==
  LET f[i \in 0 .. Len(q)] ==
        IF i = 0 THEN dormant ELSE FiledBy(last, f[i - 1], q[i])
  IN f[Len(q)]

\* The runs of the leases of q are given back one after the other.
Freed(q) ==
  LET f[i \in 0 .. Len(q)] == IF i = 0 THEN free ELSE Merge(f[i - 1], q[i])
  IN f[Len(q)]

\* The idle leases go to dormant_list; then the leases at its end that have
\* expired are freed, the last one first.  (The values are bound by \E, and
\* not by LET, to have TLC evaluate them once.)
Age ==
  \E rested \in {Filed(Those(mapped, Resting))} :
  \E kept \in {SelectLastInSeq(rested, LAMBDA a : last[a] + MaxLease >= now)} :
  \E gone \in {SubSeq(rested, kept + 1, Len(rested))} :
     /\ mapped' = Those(mapped, Addrs \ Resting)
     /\ dormant' = SubSeq(rested, 1, kept)
     /\ free' = Freed(Reverse(gone))
     /\ host' = [a \in Addrs |-> IF a \in ToSet(gone) THEN NoHost ELSE host[a]]
     /\ last' = [a \in Addrs |-> IF a \in ToSet(gone) THEN 0 ELSE last[a]]
     /\ UNCHANGED entry

Tick == now < MaxTime /\ now' = now + 1 /\ UNCHANGED <<conf, lists, pending>>

-----------------------------------------------------------------------------
EmptyPool ==
  [free |-> <<Node(0, N - 1)>>, dormant |-> <<>>,
   host |-> [a \in Addrs |-> NoHost], last |-> [a \in Addrs |-> 0]]

Init ==
  /\ conf \in Configs /\ now \in Boot
  /\ free = EmptyPool.free /\ dormant = EmptyPool.dormant
  /\ host = EmptyPool.host /\ last = EmptyPool.last
  /\ mapped = <<>>
  /\ entry = [a \in Addrs |-> NoEntry]
  /\ pending = FALSE

Lookup ==
  \/ \E h \in Hosts : Assign(h)
  \/ \E a \in Addrs : Answer(a) \/ Hit(a) \/ AgeOut(a)

Next == Lookup \/ (Age /\ UNCHANGED <<conf, now, pending>>) \/ Tick

Spec == Init /\ [][Next]_vars

-----------------------------------------------------------------------------
(* Properties.                                                             *)

\* free_list is a partition: in address order, one node for free_head and one
\* for each lease, and every run ends where the next node begins, whatever
\* the order in which leases were cut out and given back.
RunsPartition ==
  /\ free[1].addr = 0
  /\ {free[i].addr : i \in 2 .. Len(free)} = Leased
  /\ \A i \in DOMAIN free :
       /\ free[i].count >= 0
       /\ free[i].addr + free[i].count + 1 = IF i = Len(free) THEN N ELSE free[i + 1].addr

\* The search over the runs, in two halves, gives the free address that is
\* met first going up from the host's home and around the circle.
FreeUsable == Addrs \ (Leased \cup conf.v4)
Distance(h, a) == (a - Home[h] + N) % N
SearchIsCircular ==
  \A h \in Hosts :
    {p.addr : p \in Search(h)} =
      {a \in FreeUsable : \A b \in FreeUsable : Distance(h, a) <= Distance(h, b)}

\* The ageing pass is complete: no idle lease stays mapped and no expired one
\* stays dormant behind a younger one.
PassComplete ==
  [][Age => /\ \A a \in ToSet(mapped') : entry[a] # NoEntry \/ last[a] + MinLease >= now
            /\ \A a \in ToSet(dormant') : last[a] + MaxLease >= now]_vars

\* The lists, with the cache entries, keep the promise of LeaseTable: a lease
\* rests, expires or changes hands by its true last use only.
State(a) ==
  IF a \in ToSet(mapped) THEN "mapped" ELSE IF a \in ToSet(dormant) THEN "dormant"
  ELSE "free"
Table == INSTANCE LeaseTable WITH
  table <- [a \in Addrs |-> [st |-> State(a), host |-> host[a], last |-> LastUse(a)]]
ImplementsLeaseTable == Table!Spec
=============================================================================
