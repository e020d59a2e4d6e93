------------------------------ MODULE AddrMap ------------------------------
(***************************************************************************)
(* The address mapper of TAYGA (src/addrmap.c, with the lease operations   *)
(* of src/dynamic.c it calls): the mapping tables, the translation cache   *)
(* in front of them, and the threads that look addresses up while the main *)
(* thread ages the cache, ages the dynamic pool and reloads the map-file.  *)
(*                                                                         *)
(* The configuration is one with a dynamic pool or a map-file: without     *)
(* either, config_validate latches maps_immutable, sets cache_size to 0    *)
(* and every lookup is a read of tables nobody writes.                     *)
(*                                                                         *)
(* Locks.  map_mutex is a variable, because a lookup holds it over two     *)
(* steps.  cache_mutex is always the innermost lock and nothing blocks     *)
(* under it, so every section under it is one action.                      *)
(***************************************************************************)
EXTENDS Integers, FiniteSets

CONSTANTS
  V4, V6,          \* IPv4 and IPv6 addresses
  NoAddr,          \* what a failed lookup or conversion yields
  Maps,            \* names of static mappings: SELF, tayga.conf, map-file
  Conf,            \* the mappings fixed by tayga.conf, SELF included
  FileVersions,    \* what the map-file may hold when it is (re)read
  Map4, Map6,      \* the IPv4 and IPv6 range a mapping has in each list
  To6, From6,      \* a mapping's conversion of an address, NoAddr if refused
  Kind,            \* "host" (EAM of one address), "subnet" (EAM), "prefix" (RFC 6052)
  Pair,            \* whether the conversion is one to one (cache_pair)
  Pool, Reserved,  \* the dynamic pool and its lowest address, never leased
  Workers, Main, NoThread,
  Slots, NoSlot,   \* the cache entries create_cache allocates
  Ask4, Ask6,      \* addresses that packets carry
  CacheMaxAge, MinLease, MaxLease,
  MaxTime          \* bound of the clock

Threads == Workers \cup {Main}
Time == 0 .. MaxTime
Leasable == Pool \ {Reserved}

ASSUME Distinct ==
  /\ Main \notin Workers /\ NoThread \notin Threads /\ NoSlot \notin Slots
  /\ NoAddr \notin V4 \cup V6 \cup Maps

ASSUME Addresses ==
  Pool \subseteq V4 /\ Reserved \in Pool /\ Ask4 \subseteq V4 /\ Ask6 \subseteq V6

ASSUME Durations == {CacheMaxAge, MinLease, MaxLease, MaxTime} \subseteq Nat

ASSUME Mappings ==
  /\ Conf \subseteq Maps /\ FileVersions \subseteq SUBSET (Maps \ Conf)
  /\ Map4 \in [Maps -> SUBSET V4] /\ Map6 \in [Maps -> SUBSET V6]
  /\ To6 \in [Maps -> [V4 -> V6 \cup {NoAddr}]]
  /\ From6 \in [Maps -> [V6 -> V4 \cup {NoAddr}]]
  /\ Kind \in [Maps -> {"host", "subnet", "prefix"}] /\ Pair \in [Maps -> BOOLEAN]

\* CIDR ranges nest: of the mappings that cover an address, one is the most
\* specific, and map4_list, sorted by prefix length, has it first.
ASSUME Nesting ==
  \A ms \in SUBSET Maps : ms # {} /\ (\E v \in V4 : \A m \in ms : v \in Map4[m]) =>
    \E m \in ms : \A n \in ms : Map4[m] \subseteq Map4[n]

\* What config_map and the staging loop of addrmap_reload leave of a file.
Consistent(ms) ==
  \A m, n \in ms : m # n => Map4[m] # Map4[n] /\ Map6[m] \cap Map6[n] = {}

ASSUME Loaded == Consistent(Conf) /\ \A F \in FileVersions : Consistent(F)

VARIABLES
  now,       \* the process clock, stored by the main loop
  fileMaps,  \* mappings of origin MAP_ORIGIN_MAPFILE now in the tables
  lease,     \* struct map_dynamic of each pool address
  linked4,   \* leases whose map4 is in map4_list
  cache,     \* struct cache_entry of each slot, NoEntry when in cache_pool
  mapLock,   \* the holder of map_mutex
  pc, job,   \* where each thread is in a lookup, and what it looks up
  touched    \* history: when a packet last used each lease

vars == <<now, fileMaps, lease, linked4, cache, mapLock, pc, job, touched>>

Entry == [v4 : V4, v6 : V6, last : Time, rep : BOOLEAN]
NoEntry == [v4 |-> NoAddr, v6 |-> NoAddr, last |-> 0, rep |-> FALSE]
Lease == [st : {"free", "mapped", "dormant"}, host : V6 \cup {NoAddr},
          last : Time, ce : Slots \cup {NoSlot}]
NoLease == [st |-> "free", host |-> NoAddr, last |-> 0, ce |-> NoSlot]
Job == [v4 : V4 \cup {NoAddr}, v6 : V6 \cup {NoAddr}, dyn : BOOLEAN,
        d : Leasable \cup {NoAddr}]
NoJob == [v4 |-> NoAddr, v6 |-> NoAddr, dyn |-> FALSE, d |-> NoAddr]

TypeOK ==
  /\ now \in Time
  /\ fileMaps \subseteq Maps
  /\ lease \in [Leasable -> Lease]
  /\ linked4 \subseteq Leasable
  /\ cache \in [Slots -> Entry \cup {NoEntry}]
  /\ mapLock \in Threads \cup {NoThread}
  /\ pc \in [Threads -> {"idle", "resolve4", "resolve6", "publish"}]
  /\ job \in [Threads -> Job]
  /\ touched \in [Leasable -> Time]

-----------------------------------------------------------------------------
(* The mapping tables: longest prefix over IPv4, disjoint ranges over IPv6. *)

Static == Conf \cup fileMaps
Mapped == {a \in Leasable : lease[a].st = "mapped"}
Dormant == {a \in Leasable : lease[a].st = "dormant"}
HostOf(h) == {a \in Mapped : lease[a].host = h}

\* The entry a table search returns, by its type.
StaticMap(m) == [type |-> "static", map |-> m, addr |-> NoAddr]
HostMap(a) == [type |-> "host", map |-> NoAddr, addr |-> a]
PoolMap == [type |-> "pool", map |-> NoAddr, addr |-> NoAddr]
NoMap == [type |-> "none", map |-> NoAddr, addr |-> NoAddr]

Cover4(v) == {m \in Static : v \in Map4[m]}
Cover6(h) == {m \in Static : h \in Map6[m]}
Longest(ms) == CHOOSE m \in ms : \A n \in ms : Map4[m] \subseteq Map4[n]

\* Static mappings more specific than the pool entry.
Inside(v) == {m \in Cover4(v) : ~ (Pool \subseteq Map4[m])}

Find4(v) ==
  IF v \in linked4 THEN HostMap(v)
  ELSE IF v \in Pool /\ Inside(v) = {} THEN PoolMap
  ELSE IF Cover4(v) # {} THEN StaticMap(Longest(Cover4(v)))
  ELSE NoMap

Find6(h) ==
  IF HostOf(h) # {} THEN HostMap(CHOOSE a \in HostOf(h) : TRUE)
  ELSE IF Cover6(h) # {} THEN StaticMap(CHOOSE m \in Cover6(h) : TRUE)
  ELSE NoMap

\* What the tables answer for an IPv4 address: the switch of map_ip4_to_ip6.
Forward(v) ==
  LET e == Find4(v)
      h == To6[e.map][v]
  IN IF e.type = "host" THEN lease[v].host
     ELSE IF e.type # "static" THEN NoAddr
     ELSE IF Kind[e.map] = "subnet" /\ Find6(h) # e THEN NoAddr
     ELSE h

\* What the tables answer for an IPv6 address: the switch of map_ip6_to_ip4.
Backward(h) ==
  LET e == Find6(h)
      v == From6[e.map][h]
  IN IF e.type = "host" THEN e.addr
     ELSE IF e.type # "static" THEN NoAddr
     ELSE IF Kind[e.map] # "host" /\ Find4(v) # e THEN NoAddr
     ELSE v

-----------------------------------------------------------------------------
(* Lookups.                                                                *)

Used(s) == cache[s] # NoEntry
Hits4(v) == {s \in Slots : Used(s) /\ cache[s].v4 = v}
Hits6(h) == {s \in Slots : Used(s) /\ cache[s].v6 = h}
Same(v, h) == Hits4(v) \cap Hits6(h)

\* History: a packet was translated with the pair (v, h).
Touch(v, h) ==
  touched' = IF v \in Leasable /\ lease[v].st = "mapped" /\ lease[v].host = h
             THEN [touched EXCEPT ![v] = now] ELSE touched

Hit(t, s) ==
  /\ pc[t] = "idle"
  /\ cache' = [cache EXCEPT ![s].last = now]
  /\ Touch(cache[s].v4, cache[s].v6)
  /\ UNCHANGED <<now, fileMaps, lease, linked4, mapLock, pc, job>>

Miss(t, where, j) ==
  /\ pc[t] = "idle"
  /\ pc' = [pc EXCEPT ![t] = where]
  /\ job' = [job EXCEPT ![t] = j]
  /\ UNCHANGED <<now, fileMaps, lease, linked4, cache, mapLock, touched>>

\* The probe of the cache, under cache_mutex alone.
Probe4(t, v) ==
  \/ \E s \in Hits4(v) : Hit(t, s)
  \/ /\ Hits4(v) = {}
     /\ Miss(t, "resolve4", [NoJob EXCEPT !.v4 = v])

Probe6(t, h, dyn) ==
  \/ \E s \in Hits6(h) : Hit(t, s)
  \/ /\ Hits6(h) = {}
     /\ Miss(t, "resolve6", [NoJob EXCEPT !.v6 = h, !.dyn = dyn])

\* Leave the lookup without publishing: map_mutex was taken and released.
Leave(t) ==
  /\ pc' = [pc EXCEPT ![t] = "idle"]
  /\ job' = [job EXCEPT ![t] = NoJob]
  /\ UNCHANGED mapLock

\* Mutant: map_mutex is released before the cache is filled.
KeepLock_UnlocksEarly(t, v, h, d) ==
  /\ UNCHANGED mapLock
  /\ pc' = [pc EXCEPT ![t] = "publish"]
  /\ job' = [job EXCEPT ![t] = [@ EXCEPT !.v4 = v, !.v6 = h, !.d = d]]

\* Go on to the cache with map_mutex held; d is the lease that answered.
KeepLock(t, v, h, d) ==
  /\ mapLock' = t
  /\ pc' = [pc EXCEPT ![t] = "publish"]
  /\ job' = [job EXCEPT ![t] = [@ EXCEPT !.v4 = v, !.v6 = h, !.d = d]]

\* A static mapping answers; only one-to-one conversions are cached.
AnswerStatic(t, m, v, h) ==
  /\ IF Pair[m] THEN KeepLock(t, v, h, NoAddr) ELSE Leave(t)
  /\ UNCHANGED <<now, fileMaps, lease, linked4, cache, touched>>

\* A lease answers: its last use is now.
AnswerHost(t, a) ==
  /\ lease' = [lease EXCEPT ![a].last = now]
  /\ touched' = [touched EXCEPT ![a] = now]
  /\ KeepLock(t, a, lease[a].host, a)
  /\ UNCHANGED <<now, fileMaps, linked4, cache>>

Refuse(t) ==
  /\ Leave(t)
  /\ UNCHANGED <<now, fileMaps, lease, linked4, cache, touched>>

\* Mutant: the DYNAMIC_POOL case falls through to the cache.
Resolve4_PoolFallsThrough(t) ==
  LET v == job[t].v4
      e == Find4(v)
  IN /\ pc[t] = "resolve4"
     /\ mapLock = NoThread
     /\ \/ e.type = "host" /\ AnswerHost(t, v)
        \/ /\ e.type = "static" /\ Forward(v) # NoAddr
           /\ AnswerStatic(t, e.map, v, Forward(v))
        \/ /\ e.type = "pool"
           /\ KeepLock(t, v, NoAddr, NoAddr)
           /\ UNCHANGED <<now, fileMaps, lease, linked4, cache, touched>>

Resolve4(t) ==
  LET v == job[t].v4
      e == Find4(v)
  IN /\ pc[t] = "resolve4"
     /\ mapLock = NoThread
     /\ \/ e.type = "host" /\ AnswerHost(t, v)
        \/ /\ e.type = "static"
           /\ Forward(v) # NoAddr
           /\ AnswerStatic(t, e.map, v, Forward(v))
        \/ /\ e.type # "host"
           /\ Forward(v) = NoAddr
           /\ Refuse(t)

\* The addresses assign_dynamic may give to host h: its own dormant lease,
\* else a free address that the pool entry still answers for, else the
\* dormant lease that has been idle longest.  (Mutants: a free run holds
\* static overrides; no reactivation.)
FreeUsable_IgnoresOverrides == {a \in Leasable : lease[a].st = "free"}
FreeUsable == {a \in Leasable : lease[a].st = "free" /\ Find4(a) = PoolMap}
Oldest == {a \in Dormant : \A b \in Dormant : lease[a].last <= lease[b].last}
Candidates_NoReactivation(h) == IF FreeUsable # {} THEN FreeUsable ELSE Oldest
Candidates(h) ==
  LET mine == {a \in Dormant : lease[a].host = h}
  IN IF mine # {} THEN mine ELSE IF FreeUsable # {} THEN FreeUsable ELSE Oldest

\* insert_map4 refuses a second /32 for the same address, unnoticed.
Links(a) == \A m \in Static : Map4[m] # {a}

\* assign_dynamic and move_to_mapped, then the DYNAMIC_HOST case.
Assign(t, h) ==
  \E a \in Candidates(h) :
    /\ lease' = [lease EXCEPT ![a] = [@ EXCEPT !.st = "mapped", !.host = h,
                                              !.last = now]]
    /\ linked4' = IF Links(a) THEN linked4 \cup {a} ELSE linked4
    /\ touched' = [touched EXCEPT ![a] = now]
    /\ KeepLock(t, a, h, a)
    /\ UNCHANGED <<now, fileMaps, cache>>

\* Mutant: the miss seen without the lock is trusted under it.
Resolve6_TrustsProbe(t) ==
  LET h == job[t].v6
  IN /\ pc[t] = "resolve6"
     /\ mapLock = NoThread
     /\ \/ Cover6(h) = {} /\ job[t].dyn /\ Assign(t, h)
        \/ ~ job[t].dyn /\ Refuse(t)

Resolve6(t) ==
  LET h == job[t].v6
      e == Find6(h)
  IN /\ pc[t] = "resolve6"
     /\ mapLock = NoThread
     /\ \/ e.type = "host" /\ AnswerHost(t, e.addr)
        \/ /\ e.type = "static"
           /\ Backward(h) # NoAddr
           /\ AnswerStatic(t, e.map, Backward(h), h)
        \/ /\ e.type = "static"
           /\ Backward(h) = NoAddr
           /\ Refuse(t)
        \/ e = NoMap /\ job[t].dyn /\ Assign(t, h)
        \/ /\ e = NoMap
           /\ ~ job[t].dyn \/ Candidates(h) = {}
           /\ Refuse(t)

\* cache_insert: the entry that already holds the pair, else one of cache_pool,
\* else none.  An entry once marked CACHE_F_REP_AGEOUT stays marked.
Inserted(v, h) == IF Same(v, h) # {} THEN Same(v, h) ELSE {s \in Slots : ~ Used(s)}
Line(s, v, h, d) ==
  [v4 |-> v, v6 |-> h, last |-> now,
   rep |-> d # NoAddr \/ (s \in Same(v, h) /\ cache[s].rep)]

\* The end of a lookup under both locks: the pair enters the cache, a lease
\* notes its entry (none if cache_pool is empty), and the locks are released.
Publish(t) ==
  LET v == job[t].v4
      h == job[t].v6
      d == job[t].d
      Own(s) == lease' = IF d # NoAddr THEN [lease EXCEPT ![d].ce = s] ELSE lease
  IN /\ pc[t] = "publish"
     /\ \/ \E s \in Inserted(v, h) :
             cache' = [cache EXCEPT ![s] = Line(s, v, h, d)] /\ Own(s)
        \/ Inserted(v, h) = {} /\ Own(NoSlot) /\ UNCHANGED cache
     /\ mapLock' = NoThread
     /\ pc' = [pc EXCEPT ![t] = "idle"]
     /\ job' = [job EXCEPT ![t] = NoJob]
     /\ UNCHANGED <<now, fileMaps, linked4, touched>>

-----------------------------------------------------------------------------
(* The main thread's other work.  Each pass holds map_mutex throughout.    *)

MainFree == pc[Main] = "idle" /\ mapLock = NoThread

\* Mutants: the entry's last use is not carried over; the pointer is kept.
Report_ForgetsLastUse(S) ==
  [a \in Leasable |->
     IF lease[a].ce \in S THEN [lease[a] EXCEPT !.ce = NoSlot] ELSE lease[a]]
Report_KeepsPointer(S) ==
  [a \in Leasable |->
     IF lease[a].ce \in S THEN [lease[a] EXCEPT !.last = cache[lease[a].ce].last]
     ELSE lease[a]]

\* report_ageout for every entry of S that asks for it.
Report(S) ==
  [a \in Leasable |->
     IF a \in linked4 /\ lease[a].ce \in S /\ cache[lease[a].ce].v4 = a
        /\ cache[lease[a].ce].rep
     THEN [lease[a] EXCEPT !.last = cache[lease[a].ce].last, !.ce = NoSlot]
     ELSE lease[a]]

Evict(S) ==
  /\ lease' = Report(S)
  /\ cache' = [s \in Slots |-> IF s \in S THEN NoEntry ELSE cache[s]]

\* addrmap_maint.
AgeCache ==
  LET old == {s \in Slots : Used(s) /\ cache[s].last + CacheMaxAge < now}
  IN /\ MainFree
     /\ old # {}
     /\ Evict(old)
     /\ UNCHANGED <<now, fileMaps, linked4, mapLock, pc, job, touched>>

\* Mutants: a lease turns dormant one second early; with its entry cached.
IdleLeases_OneEarly ==
  {a \in Mapped : lease[a].ce = NoSlot /\ lease[a].last + MinLease <= now}
IdleLeases_Cached == {a \in Mapped : lease[a].last + MinLease < now}

\* The leases dynamic_maint moves to the dormant list.
IdleLeases == {a \in Mapped : lease[a].ce = NoSlot /\ lease[a].last + MinLease < now}

\* The aging half of dynamic_maint: idle leases without a cache entry become
\* dormant, and dormant leases past the maximum lease are freed.
AgePool ==
  LET idle == IdleLeases
      gone == {a \in Dormant \cup idle : lease[a].last + MaxLease < now}
  IN /\ MainFree
     /\ idle \cup gone # {}
     /\ lease' = [a \in Leasable |->
                    IF a \in gone THEN NoLease
                    ELSE IF a \in idle THEN [lease[a] EXCEPT !.st = "dormant"]
                    ELSE lease[a]]
     /\ linked4' = linked4 \ idle
     /\ UNCHANGED <<now, fileMaps, cache, mapLock, pc, job, touched>>

\* Mutants: only tayga.conf is checked against; the cache is not flushed.
Conflicts_ConfOnly(m) ==
  \E f \in Conf : Map4[f] = Map4[m] \/ Map6[f] \cap Map6[m] # {}

\* A map-file mapping is skipped when it meets a retained one: the same IPv4
\* range, or any overlap over IPv6.
Conflicts(m) ==
  \/ \E f \in Conf : Map4[f] = Map4[m] \/ Map6[f] \cap Map6[m] # {}
  \/ Map4[m] = Pool
  \/ \E a \in linked4 : Map4[m] = {a}
  \/ \E a \in Mapped : lease[a].host \in Map6[m]

\* addrmap_reload of a file that parses: publish what does not conflict and
\* flush the cache.
Reload(F) ==
  /\ MainFree
  /\ fileMaps' = {m \in F : ~ Conflicts(m)}
  /\ Evict({s \in Slots : Used(s)})
  /\ UNCHANGED <<now, linked4, mapLock, pc, job, touched>>

\* The main loop stores the time.
Tick ==
  /\ pc[Main] = "idle"
  /\ now < MaxTime
  /\ now' = now + 1
  /\ UNCHANGED <<fileMaps, lease, linked4, cache, mapLock, pc, job, touched>>

-----------------------------------------------------------------------------
Init ==
  /\ now = 0
  /\ fileMaps = {}
  /\ lease = [a \in Leasable |-> NoLease]
  /\ linked4 = {}
  /\ cache = [s \in Slots |-> NoEntry]
  /\ mapLock = NoThread
  /\ pc = [t \in Threads |-> "idle"]
  /\ job = [t \in Threads |-> NoJob]
  /\ touched = [a \in Leasable |-> 0]

Lookup(t) ==
  \/ \E v \in Ask4 : Probe4(t, v)
  \/ \E h \in Ask6, dyn \in BOOLEAN : Probe6(t, h, dyn)
  \/ Resolve4(t)
  \/ Resolve6(t)
  \/ Publish(t)

Next ==
  \/ \E t \in Threads : Lookup(t)
  \/ AgeCache
  \/ AgePool
  \/ \E F \in FileVersions : Reload(F)
  \/ Tick

Spec == Init /\ [][Next]_vars

\* A thread that waits for map_mutex gets it in the end, and the main loop
\* comes back to its maintenance passes for ever.
Fairness ==
  /\ \A t \in Threads : /\ SF_vars(Resolve4(t) \/ Resolve6(t))
                        /\ WF_vars(Publish(t))
  /\ SF_vars(AgeCache)
  /\ SF_vars(AgePool)

LiveSpec == Spec /\ Fairness

-----------------------------------------------------------------------------
(* Properties.                                                             *)

\* What the fast path answers is what the tables would answer: a pair that a
\* lookup publishes in the cache (addrmap.c:589-608, 778-797) outlives every
\* table change only if no change made it wrong.
CacheCoherent ==
  \A s \in Slots : Used(s) =>
    /\ Forward(cache[s].v4) = cache[s].v6
    /\ Backward(cache[s].v6) = cache[s].v4

\* Every leased pair translates both ways through the tables, through reloads
\* too: insert_map4 and insert_map6 in move_to_mapped never fail.
RoundTrip ==
  \A a \in Mapped : /\ Forward(a) = lease[a].host
                    /\ Backward(lease[a].host) = a

\* No host holds two addresses of the pool, dormant ones included, although
\* several threads may miss the cache for the same host at once.
OneLease ==
  \A a, b \in Leasable :
    /\ lease[a].st # "free"
    /\ lease[b].st # "free"
    /\ lease[a].host = lease[b].host
    => a = b

\* No two entries of map6_list overlap, and no two of map4_list are the same
\* range: what insert_map4 and insert_map6 check one by one, and
\* addrmap_reload for a whole file before it swaps the tables.
TablesDisjoint ==
  /\ Consistent(Static)
  /\ \A a \in Mapped, m \in Static : lease[a].host \notin Map6[m]
  /\ \A a \in linked4, m \in Static : Map4[m] # {a}

\* A lease and its cache entry point at each other: d->cache_entry is a used
\* entry with the lease's pair that will report its age-out, and an entry
\* that will report belongs to a lease (no dangling pointer, no lost report).
LeaseTracked ==
  /\ \A a \in Leasable : lease[a].ce # NoSlot =>
       /\ a \in Mapped
       /\ LET c == cache[lease[a].ce]
          IN c.rep /\ c.v4 = a /\ c.v6 = lease[a].host
  /\ \A s \in Slots : Used(s) /\ cache[s].rep =>
       cache[s].v4 \in Leasable /\ lease[cache[s].v4].ce = s

\* The last packet of a lease is never forgotten: it is on record either in
\* the lease or in its cache entry, whichever lookup refreshed which.
LastUse(a) ==
  IF lease[a].ce # NoSlot /\ lease[a].last < cache[lease[a].ce].last
  THEN cache[lease[a].ce].last ELSE lease[a].last

LastUseKnown == \A a \in Mapped : touched[a] <= LastUse(a)

\* A lease keeps its address until MinLease seconds after its last packet:
\* no age-out, reload, reassignment or concurrent lookup takes it earlier
\* (the promise of dynamic-pool in docs/man/tayga.conf.5.md:148-150).
LeaseProtected ==
  [][\A a \in Leasable :
       lease[a].st = "mapped" /\ touched[a] + MinLease >= now =>
         lease'[a].st = "mapped" /\ lease'[a].host = lease[a].host]_vars

\* For all its threads, locks and cache, the mapper keeps the promise of
\* LeaseTable: leases move only as one thread working alone would move them.
Table == INSTANCE LeaseTable WITH
  Addrs <- Leasable, Hosts <- Ask6, NoHost <- NoAddr, Boot <- {0},
  table <- [a \in Leasable |->
              [st |-> lease[a].st, host |-> lease[a].host, last |-> lease[a].last]]
ImplementsLeaseTable == Table!Spec

\* docs/man/tayga.conf.5.md:265-267: "conflicts with retained configuration or
\* active dynamic mappings reject the replacement and preserve the previous
\* table" (addrmap_reload skips the entry instead).
ReloadAllOrNothing ==
  [][fileMaps' = fileMaps \/ fileMaps' \in FileVersions]_vars

\* An idle lease is given back: its cache entry ages out, reports, and the
\* pool pass then makes the lease dormant, however lookups interleave.
Idle(a) ==
  /\ lease[a].st = "mapped"
  /\ LastUse(a) + MinLease < now
  /\ LastUse(a) + CacheMaxAge < now

IdleLeaseReleased == \A a \in Leasable : Idle(a) ~> ~ Idle(a)
=============================================================================
