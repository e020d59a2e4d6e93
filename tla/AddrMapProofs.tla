--------------------------- MODULE AddrMapProofs ---------------------------
(***************************************************************************)
(* Theorems about AddrMap, for every configuration, any number of threads  *)
(* and cache entries, and any clock bound.                                 *)
(***************************************************************************)
EXTENDS AddrMap, TLAPS

(* The tables answer with entries of the right kind. *)

\* A search of map4_list that ends on a static mapping ends on one that is in
\* the tables and covers the address.
LEMMA Find4Static ==
  ASSUME TypeOK, NEW v \in V4, Find4(v).type = "static"
  PROVE  Find4(v).map \in Static /\ Find4(v).map \in Maps /\ v \in Map4[Find4(v).map]
<1>1. Find4(v) = StaticMap(Longest(Cover4(v))) /\ Cover4(v) # {}
  BY DEF Find4, HostMap, PoolMap, NoMap
<1>2. Static \subseteq Maps
  BY Mappings DEF TypeOK, Static
<1>3. Cover4(v) \subseteq Maps /\ \A m \in Cover4(v) : v \in Map4[m]
  BY <1>2 DEF Cover4
<1>4. \E m \in Cover4(v) : \A n \in Cover4(v) : Map4[m] \subseteq Map4[n]
  BY <1>1, <1>3, Nesting
<1>5. Longest(Cover4(v)) \in Cover4(v)
  BY <1>4 DEF Longest
<1>6. Find4(v).map = Longest(Cover4(v))
  BY <1>1 DEF StaticMap
<1> QED
  BY <1>2, <1>5, <1>6 DEF Cover4

\* A search of map6_list likewise; a lease it ends on is active for the host.
LEMMA Find6Static ==
  ASSUME TypeOK, NEW h \in V6, Find6(h).type = "static"
  PROVE  Find6(h).map \in Static /\ Find6(h).map \in Maps /\ h \in Map6[Find6(h).map]
<1>1. Find6(h) = StaticMap(CHOOSE m \in Cover6(h) : TRUE) /\ Cover6(h) # {}
  BY DEF Find6, HostMap, NoMap
<1>2. Find6(h).map \in Cover6(h)
  BY <1>1 DEF StaticMap
<1> QED
  BY <1>2, Mappings DEF Cover6, Static, TypeOK

LEMMA Find6Host ==
  ASSUME TypeOK, NEW h \in V6, Find6(h).type = "host"
  PROVE  Find6(h).addr \in Mapped /\ lease[Find6(h).addr].host = h
<1>1. HostOf(h) # {} /\ Find6(h) = HostMap(CHOOSE a \in HostOf(h) : TRUE)
  BY DEF Find6, StaticMap, NoMap
<1>2. Find6(h).addr \in HostOf(h)
  BY <1>1 DEF HostMap
<1> QED
  BY <1>2 DEF HostOf

\* What the tables answer is an address or a refusal.
LEMMA ForwardType ==
  ASSUME TypeOK, NEW v \in V4, Find4(v).type = "static", Forward(v) # NoAddr
  PROVE  Forward(v) \in V6
<1>1. Forward(v) = To6[Find4(v).map][v]
  BY DEF Forward
<1> QED
  BY <1>1, Find4Static, Mappings

LEMMA BackwardType ==
  ASSUME TypeOK, NEW h \in V6, Find6(h).type = "static", Backward(h) # NoAddr
  PROVE  Backward(h) \in V4
<1>1. Backward(h) = From6[Find6(h).map][h]
  BY DEF Backward
<1> QED
  BY <1>1, Find6Static, Mappings

-----------------------------------------------------------------------------
(* The inductive invariant.  TypeOK is not inductive: a lookup's addresses *)
(* are read back from its job two steps later, and the lease that answered *)
(* must still be the host's when the cache entry is written.               *)

\* map_mutex is held by the one thread that is about to publish.
LockHeld == \A t \in Threads : pc[t] = "publish" <=> mapLock = t

JobsOK ==
  \A t \in Threads :
    /\ pc[t] = "resolve4" => job[t].v4 \in V4
    /\ pc[t] = "resolve6" => job[t].v6 \in V6
    /\ pc[t] = "publish" =>
         /\ job[t].v4 \in V4 /\ job[t].v6 \in V6
         /\ job[t].d # NoAddr =>
              /\ job[t].d = job[t].v4
              /\ job[t].d \in Mapped
              /\ lease[job[t].d].host = job[t].v6

LeasesOK ==
  /\ linked4 \subseteq Mapped
  /\ \A a \in Leasable : lease[a].st # "free" => lease[a].host \in V6

IInv == TypeOK /\ LockHeld /\ JobsOK /\ LeasesOK /\ OneLease /\ TablesDisjoint

LEMMA InitIInv == Init => IInv
<1> SUFFICES ASSUME Init PROVE IInv
  OBVIOUS
<1>1. 0 \in Time
  BY Durations DEF Time
<1>2. Mapped = {} /\ Static = Conf
  BY DEF Init, Mapped, Static, NoLease
<1>3. TypeOK
  BY <1>1, Mappings
  DEF Init, TypeOK, NoLease, Lease, NoJob, Job, Threads
<1>4. LockHeld /\ JobsOK
  BY Distinct DEF Init, LockHeld, JobsOK
<1>5. LeasesOK /\ OneLease
  BY DEF Init, LeasesOK, OneLease, NoLease
<1>6. TablesDisjoint
  BY <1>2, Loaded DEF TablesDisjoint, Init
<1> QED
  BY <1>3, <1>4, <1>5, <1>6 DEF IInv

\* A step that leaves the tables alone leaves the facts about them alone.
LEMMA SameTables ==
  ASSUME IInv, UNCHANGED <<fileMaps, lease, linked4>>
  PROVE  LeasesOK' /\ OneLease' /\ TablesDisjoint' /\ Mapped' = Mapped
BY DEF IInv, LeasesOK, OneLease, TablesDisjoint, Mapped, Static, Consistent

LEMMA HitStep ==
  ASSUME IInv, NEW t \in Threads, NEW s \in Slots, Used(s), Hit(t, s)
  PROVE  IInv'
<1>1. LeasesOK' /\ OneLease' /\ TablesDisjoint' /\ Mapped' = Mapped
  BY SameTables DEF Hit
<1>2. cache' \in [Slots -> Entry \cup {NoEntry}]
  <2>1. cache[s] \in Entry /\ now \in Time
    BY DEF IInv, TypeOK, Used
  <2>2. [cache[s] EXCEPT !.last = now] \in Entry
    BY <2>1 DEF Entry
  <2> QED
    BY <2>2 DEF Hit, IInv, TypeOK
<1>3. touched' \in [Leasable -> Time]
  BY DEF Hit, Touch, IInv, TypeOK
<1>4. TypeOK'
  BY <1>2, <1>3 DEF Hit, IInv, TypeOK
<1>5. LockHeld' /\ JobsOK'
  BY <1>1 DEF Hit, IInv, LockHeld, JobsOK
<1> QED
  BY <1>1, <1>4, <1>5 DEF IInv

LEMMA MissStep ==
  ASSUME IInv, NEW t \in Threads, NEW where, NEW j \in Job,
         \/ where = "resolve4" /\ j.v4 \in V4
         \/ where = "resolve6" /\ j.v6 \in V6,
         Miss(t, where, j)
  PROVE  IInv'
<1>1. LeasesOK' /\ OneLease' /\ TablesDisjoint' /\ Mapped' = Mapped
  BY SameTables DEF Miss
<1>2. TypeOK'
  BY DEF Miss, IInv, TypeOK
<1>3. LockHeld'
  BY DEF Miss, IInv, TypeOK, LockHeld
<1>4. JobsOK'
  BY <1>1 DEF Miss, IInv, TypeOK, JobsOK
<1> QED
  BY <1>1, <1>2, <1>3, <1>4 DEF IInv

\* A lookup that leaves map_mutex as it found it.
LEMMA RefuseStep ==
  ASSUME IInv, NEW t \in Threads, pc[t] # "publish", Refuse(t)
  PROVE  IInv'
<1>1. LeasesOK' /\ OneLease' /\ TablesDisjoint' /\ Mapped' = Mapped
  BY SameTables DEF Refuse
<1>2. TypeOK'
  BY DEF Refuse, Leave, IInv, TypeOK, NoJob, Job
<1>3. LockHeld'
  BY DEF Refuse, Leave, IInv, TypeOK, LockHeld
<1>4. JobsOK'
  BY <1>1 DEF Refuse, Leave, IInv, TypeOK, JobsOK
<1> QED
  BY <1>1, <1>2, <1>3, <1>4 DEF IInv

\* What KeepLock does to the locks and jobs, whatever the tables do.
LEMMA KeepLockStep ==
  ASSUME IInv, NEW t \in Threads, NEW v \in V4, NEW h \in V6,
         NEW d \in Leasable \cup {NoAddr},
         mapLock = NoThread, KeepLock(t, v, h, d)
  PROVE  /\ mapLock' \in Threads \cup {NoThread}
         /\ pc' \in [Threads -> {"idle", "resolve4", "resolve6", "publish"}]
         /\ job' \in [Threads -> Job]
         /\ LockHeld'
         /\ pc'[t] = "publish"
         /\ job'[t].v4 = v /\ job'[t].v6 = h /\ job'[t].d = d
         /\ \A u \in Threads \ {t} :
              pc'[u] = pc[u] /\ pc'[u] # "publish" /\ job'[u] = job[u]
<1>1. [job[t] EXCEPT !.v4 = v, !.v6 = h, !.d = d] \in Job
  BY DEF IInv, TypeOK, Job
<1>2. \A u \in Threads : pc[u] # "publish"
  BY Distinct DEF IInv, LockHeld
<1>3. LockHeld'
  BY <1>2 DEF KeepLock, LockHeld, IInv, TypeOK
<1>4. job' \in [Threads -> Job]
  BY <1>1 DEF KeepLock, IInv, TypeOK
<1>5. job'[t] = [job[t] EXCEPT !.v4 = v, !.v6 = h, !.d = d]
  BY DEF KeepLock, IInv, TypeOK
<1>6. job'[t].v4 = v /\ job'[t].v6 = h /\ job'[t].d = d
  BY <1>5 DEF IInv, TypeOK, Job
<1> QED
  BY <1>2, <1>3, <1>4, <1>6 DEF KeepLock, IInv, TypeOK

LEMMA AnswerStaticStep ==
  ASSUME IInv, NEW t \in Threads, pc[t] # "publish", mapLock = NoThread,
         NEW m, NEW v \in V4, NEW h \in V6, AnswerStatic(t, m, v, h)
  PROVE  IInv'
<1>1. CASE ~ Pair[m]
  <2>1. Refuse(t)
    BY <1>1 DEF AnswerStatic, Refuse
  <2> QED
    BY <2>1, RefuseStep
<1>2. CASE Pair[m]
  <2>1. KeepLock(t, v, h, NoAddr)
    BY <1>2 DEF AnswerStatic
  <2>2. LeasesOK' /\ OneLease' /\ TablesDisjoint' /\ Mapped' = Mapped
    BY SameTables DEF AnswerStatic
  <2>3. TypeOK' /\ LockHeld'
    BY <2>1, KeepLockStep DEF AnswerStatic, IInv, TypeOK
  <2>4. JobsOK'
    BY <2>1, KeepLockStep DEF IInv, JobsOK
  <2> QED
    BY <2>2, <2>3, <2>4 DEF IInv
<1> QED
  BY <1>1, <1>2

LEMMA AnswerHostStep ==
  ASSUME IInv, NEW t \in Threads, mapLock = NoThread,
         NEW a \in Mapped, AnswerHost(t, a)
  PROVE  IInv'
<1>1. a \in Leasable /\ a \in V4 /\ lease[a].host \in V6 /\ now \in Time
  BY Addresses DEF Mapped, IInv, LeasesOK, Leasable, TypeOK
<1>2. KeepLock(t, a, lease[a].host, a)
  BY DEF AnswerHost
<1>3. lease' = [lease EXCEPT ![a].last = now]
  BY DEF AnswerHost
<1>4. lease' \in [Leasable -> Lease]
  <2>1. [lease[a] EXCEPT !.last = now] \in Lease
    BY <1>1 DEF IInv, TypeOK, Lease
  <2> QED
    BY <1>3, <2>1 DEF IInv, TypeOK
<1>5. \A b \in Leasable : lease'[b].st = lease[b].st /\ lease'[b].host = lease[b].host
  BY <1>1, <1>3 DEF IInv, TypeOK, Lease
<1>6. Mapped' = Mapped
  BY <1>5 DEF Mapped
<1>7. LeasesOK' /\ OneLease'
  BY <1>5, <1>6 DEF IInv, LeasesOK, OneLease, AnswerHost
<1>8. TablesDisjoint'
  BY <1>5, <1>6 DEF IInv, TablesDisjoint, AnswerHost, Static, Consistent, Mapped
<1>9. TypeOK' /\ LockHeld'
  BY <1>1, <1>2, <1>4, KeepLockStep DEF AnswerHost, IInv, TypeOK
<1>10. JobsOK'
  BY <1>1, <1>2, <1>5, <1>6, KeepLockStep DEF IInv, JobsOK, Mapped
<1> QED
  BY <1>7, <1>8, <1>9, <1>10 DEF IInv

\* A new lease: the host had none, mapped or dormant, unless it is the one
\* that is being reactivated.
LEMMA AssignStep ==
  ASSUME IInv, NEW t \in Threads, mapLock = NoThread,
         NEW h \in V6, Find6(h) = NoMap, Assign(t, h)
  PROVE  IInv'
<1> PICK a \in Candidates(h) :
      /\ lease' = [lease EXCEPT ![a] = [@ EXCEPT !.st = "mapped", !.host = h,
                                                !.last = now]]
      /\ linked4' = IF Links(a) THEN linked4 \cup {a} ELSE linked4
      /\ touched' = [touched EXCEPT ![a] = now]
      /\ KeepLock(t, a, h, a)
      /\ UNCHANGED <<now, fileMaps, cache>>
  BY DEF Assign
<1>1. HostOf(h) = {} /\ Cover6(h) = {}
  BY DEF Find6, HostMap, StaticMap, NoMap
<1>2. a \in Leasable /\ a \in V4 /\ a \notin Mapped /\ now \in Time
  BY Addresses
  DEF Candidates, FreeUsable, Oldest, Dormant, Mapped, Leasable, IInv, TypeOK
<1>3. \A b \in Leasable : lease[b].st # "free" /\ lease[b].host = h => b = a
  <2> SUFFICES ASSUME NEW b \in Leasable, lease[b].st # "free", lease[b].host = h
               PROVE  b = a
    OBVIOUS
  <2>1. b \in Dormant
    BY <1>1 DEF HostOf, Mapped, Dormant, IInv, TypeOK, Lease
  <2>2. a \in Dormant /\ lease[a].host = h
    BY <2>1 DEF Candidates
  <2> QED
    BY <2>1, <2>2 DEF IInv, OneLease, Dormant
<1>4. lease'[a] = [lease[a] EXCEPT !.st = "mapped", !.host = h, !.last = now]
      /\ \A b \in Leasable \ {a} : lease'[b] = lease[b]
  BY <1>2 DEF IInv, TypeOK
<1>5. lease'[a].st = "mapped" /\ lease'[a].host = h /\ lease'[a] \in Lease
  BY <1>2, <1>4 DEF IInv, TypeOK, Lease
<1>6. Mapped' = Mapped \cup {a}
  BY <1>2, <1>4, <1>5 DEF Mapped
<1>7. lease' \in [Leasable -> Lease]
  BY <1>4, <1>5 DEF IInv, TypeOK
<1>8. TypeOK' /\ LockHeld'
  BY <1>2, <1>7, KeepLockStep DEF IInv, TypeOK
<1>9. JobsOK'
  BY <1>2, <1>5, <1>6, KeepLockStep DEF IInv, JobsOK
<1>10. LeasesOK'
  BY <1>4, <1>5, <1>6 DEF IInv, LeasesOK
<1>11. OneLease'
  BY <1>3, <1>4, <1>5 DEF IInv, OneLease
<1>12. TablesDisjoint'
  <2>1. Static' = Static
    BY DEF Static
  <2>2. \A b \in Mapped', m \in Static : lease'[b].host \notin Map6[m]
    BY <1>1, <1>4, <1>5, <1>6 DEF IInv, TablesDisjoint, Cover6, Mapped
  <2>3. \A b \in linked4', m \in Static : Map4[m] # {b}
    BY DEF IInv, TablesDisjoint, Links
  <2> QED
    BY <2>1, <2>2, <2>3 DEF IInv, TablesDisjoint, Consistent
<1> QED
  BY <1>8, <1>9, <1>10, <1>11, <1>12 DEF IInv

\* Noting a cache entry, or its age-out, changes neither state nor host.
LEMMA NoteEntry ==
  ASSUME NEW l \in Lease, NEW c \in Slots \cup {NoSlot}
  PROVE  LET k == [l EXCEPT !.ce = c]
         IN k \in Lease /\ k.st = l.st /\ k.host = l.host
BY DEF Lease

LEMMA NoteAgeOut ==
  ASSUME NEW l \in Lease, NEW x \in Time
  PROVE  LET k == [l EXCEPT !.last = x, !.ce = NoSlot]
         IN k \in Lease /\ k.st = l.st /\ k.host = l.host
BY DEF Lease

\* Publishing touches no lease but its cache_entry.
LEMMA PublishStep ==
  ASSUME IInv, NEW t \in Threads, Publish(t)
  PROVE  IInv'
<1> DEFINE v == job[t].v4
           h == job[t].v6
           d == job[t].d
           Owned(c) == IF d # NoAddr THEN [lease EXCEPT ![d].ce = c] ELSE lease
<1>1. v \in V4 /\ h \in V6 /\ now \in Time /\ mapLock = t /\ d \in Leasable \cup {NoAddr}
  BY DEF Publish, IInv, TypeOK, JobsOK, LockHeld, Job
<1>2. \/ \E s \in Slots : cache' = [cache EXCEPT ![s] = Line(s, v, h, d)] /\ lease' = Owned(s)
      \/ cache' = cache /\ lease' = Owned(NoSlot)
  BY DEF Publish, Inserted, Same, Hits4, Hits6
<1>3. \A s \in Slots : Line(s, v, h, d) \in Entry
  <2> SUFFICES ASSUME NEW s \in Slots PROVE Line(s, v, h, d) \in Entry
    OBVIOUS
  <2>1. (d # NoAddr \/ (s \in Same(v, h) /\ cache[s].rep)) \in BOOLEAN
    BY DEF Same, Hits4, Hits6, IInv, TypeOK, Entry, NoEntry
  <2> QED
    BY <1>1, <2>1 DEF Entry, Line
<1>4. cache' \in [Slots -> Entry \cup {NoEntry}]
  BY <1>2, <1>3 DEF IInv, TypeOK
<1>5. \E c \in Slots \cup {NoSlot} : lease' = Owned(c)
  BY <1>2
<1>6. \A b \in Leasable :
        /\ lease'[b] \in Lease
        /\ lease'[b].st = lease[b].st
        /\ lease'[b].host = lease[b].host
  <2> PICK c \in Slots \cup {NoSlot} : lease' = Owned(c)
    BY <1>5
  <2> SUFFICES ASSUME NEW b \in Leasable
               PROVE  /\ lease'[b] \in Lease
                      /\ lease'[b].st = lease[b].st
                      /\ lease'[b].host = lease[b].host
    OBVIOUS
  <2>1. lease[b] \in Lease
    BY DEF IInv, TypeOK
  <2>2. lease'[b] = lease[b] \/ lease'[b] = [lease[b] EXCEPT !.ce = c]
    BY DEF IInv, TypeOK
  <2> QED
    BY <2>1, <2>2, NoteEntry
<1>7. lease' \in [Leasable -> Lease]
  BY <1>5, <1>6 DEF IInv, TypeOK
<1>8. Mapped' = Mapped
  BY <1>6 DEF Mapped
<1>9. LeasesOK' /\ OneLease'
  BY <1>6, <1>8 DEF IInv, LeasesOK, OneLease, Publish
<1>10. TablesDisjoint'
  BY <1>6, <1>8 DEF IInv, TablesDisjoint, Publish, Static, Consistent, Mapped
<1>11. TypeOK'
  <2>1. job' \in [Threads -> Job]
    BY DEF Publish, IInv, TypeOK, NoJob, Job
  <2> QED
    BY <1>4, <1>7, <2>1 DEF Publish, IInv, TypeOK
<1>12. LockHeld'
  BY <1>1, Distinct DEF Publish, IInv, LockHeld, TypeOK
<1>13. JobsOK'
  <2>1. \A u \in Threads : pc'[u] # "publish"
    BY <1>12, Distinct DEF LockHeld, Publish
  <2> QED
    BY <2>1 DEF Publish, IInv, JobsOK, TypeOK
<1> QED
  BY <1>9, <1>10, <1>11, <1>12, <1>13 DEF IInv

\* Evicting cache entries changes no binding.
LEMMA EvictStep ==
  ASSUME IInv, NEW S \in SUBSET {s \in Slots : Used(s)}, Evict(S)
  PROVE  /\ cache' \in [Slots -> Entry \cup {NoEntry}]
         /\ lease' \in [Leasable -> Lease]
         /\ \A b \in Leasable : lease'[b].st = lease[b].st /\ lease'[b].host = lease[b].host
         /\ Mapped' = Mapped
<1>1. cache' \in [Slots -> Entry \cup {NoEntry}]
  BY DEF Evict, IInv, TypeOK
<1>2. \A b \in Leasable :
        /\ lease'[b] \in Lease
        /\ lease'[b].st = lease[b].st
        /\ lease'[b].host = lease[b].host
  <2> SUFFICES ASSUME NEW b \in Leasable
               PROVE  /\ lease'[b] \in Lease
                      /\ lease'[b].st = lease[b].st
                      /\ lease'[b].host = lease[b].host
    OBVIOUS
  <2>1. CASE lease'[b] = lease[b]
    BY <2>1 DEF IInv, TypeOK
  <2>2. CASE /\ lease[b].ce \in S
             /\ lease'[b] = [lease[b] EXCEPT !.last = cache[lease[b].ce].last, !.ce = NoSlot]
    <3>1. cache[lease[b].ce].last \in Time
      BY <2>2 DEF IInv, TypeOK, Used, Entry
    <3>2. lease[b] \in Lease
      BY DEF IInv, TypeOK
    <3> QED
      BY <2>2, <3>1, <3>2, NoteAgeOut
  <2> QED
    BY <2>1, <2>2 DEF Evict, Report
<1>3. lease' \in [Leasable -> Lease]
  BY <1>2 DEF Evict, Report
<1> QED
  BY <1>1, <1>2, <1>3 DEF Mapped

LEMMA AgeCacheStep == ASSUME IInv, AgeCache PROVE IInv'
<1> PICK S \in SUBSET {s \in Slots : Used(s)} : Evict(S)
  BY DEF AgeCache
<1>1. TypeOK'
  BY EvictStep DEF AgeCache, IInv, TypeOK
<1>2. LockHeld'
  BY DEF AgeCache, IInv, LockHeld
<1>3. JobsOK'
  BY EvictStep DEF AgeCache, IInv, JobsOK, Mapped
<1>4. LeasesOK' /\ OneLease'
  BY EvictStep DEF AgeCache, IInv, LeasesOK, OneLease
<1>5. TablesDisjoint'
  BY EvictStep DEF AgeCache, IInv, TablesDisjoint, Static, Consistent, Mapped
<1> QED
  BY <1>1, <1>2, <1>3, <1>4, <1>5 DEF IInv

\* A new map-file: what it publishes meets nothing that stays.
LEMMA ReloadStep == ASSUME IInv, NEW F \in FileVersions, Reload(F) PROVE IInv'
<1> PICK S \in SUBSET {s \in Slots : Used(s)} : Evict(S)
  BY DEF Reload
<1>1. fileMaps' \subseteq F /\ F \subseteq Maps \ Conf /\ \A m \in fileMaps' : ~ Conflicts(m)
  BY Mappings DEF Reload
<1>2. TypeOK'
  BY <1>1, EvictStep DEF Reload, IInv, TypeOK
<1>3. LockHeld'
  BY DEF Reload, IInv, LockHeld
<1>4. JobsOK'
  BY EvictStep DEF Reload, IInv, JobsOK, Mapped
<1>5. LeasesOK' /\ OneLease'
  BY EvictStep DEF Reload, IInv, LeasesOK, OneLease
<1>6. Consistent(Static)'
  <2> SUFFICES ASSUME NEW m \in Static', NEW n \in Static', m # n
               PROVE  Map4[m] # Map4[n] /\ Map6[m] \cap Map6[n] = {}
    BY DEF Consistent
  <2>1. CASE m \in Conf /\ n \in Conf
    BY <2>1, Loaded DEF Consistent
  <2>2. CASE m \in fileMaps' /\ n \in fileMaps'
    BY <1>1, <2>2, Loaded DEF Consistent
  <2>3. CASE m \in Conf /\ n \in fileMaps'
    BY <1>1, <2>3 DEF Conflicts
  <2>4. CASE m \in fileMaps' /\ n \in Conf
    BY <1>1, <2>4 DEF Conflicts
  <2> QED
    BY <2>1, <2>2, <2>3, <2>4 DEF Static
<1>7. \A a \in Mapped', m \in Static' : lease'[a].host \notin Map6[m]
  BY <1>1, EvictStep DEF IInv, TablesDisjoint, Static, Conflicts, Mapped
<1>8. \A a \in linked4', m \in Static' : Map4[m] # {a}
  BY <1>1 DEF IInv, TablesDisjoint, Static, Conflicts, Reload
<1>9. TablesDisjoint'
  BY <1>6, <1>7, <1>8 DEF TablesDisjoint
<1> QED
  BY <1>2, <1>3, <1>4, <1>5, <1>9 DEF IInv

\* Aging the pool only takes bindings away, and only while no lookup is
\* about to publish one.
LEMMA AgePoolStep == ASSUME IInv, AgePool PROVE IInv'
<1>1. \A b \in Leasable :
        \/ lease'[b] = NoLease
        \/ lease'[b] = [lease[b] EXCEPT !.st = "dormant"] /\ b \in IdleLeases
        \/ lease'[b] = lease[b] /\ b \notin IdleLeases
  BY DEF AgePool
<1>2. \A b \in Leasable :
        /\ lease'[b] \in Lease
        /\ lease'[b] = NoLease \/ lease'[b].host = lease[b].host
        /\ lease'[b].st # "free" => lease[b].st # "free"
        /\ lease'[b].st = "mapped" => lease'[b] = lease[b]
  <2> SUFFICES ASSUME NEW b \in Leasable
               PROVE  /\ lease'[b] \in Lease
                      /\ lease'[b] = NoLease \/ lease'[b].host = lease[b].host
                      /\ lease'[b].st # "free" => lease[b].st # "free"
                      /\ lease'[b].st = "mapped" => lease'[b] = lease[b]
    OBVIOUS
  <2>1. lease[b] \in Lease /\ 0 \in Time
    BY Durations DEF IInv, TypeOK, Time
  <2>2. CASE lease'[b] = NoLease
    BY <2>1, <2>2 DEF NoLease, Lease
  <2>3. CASE lease'[b] = [lease[b] EXCEPT !.st = "dormant"] /\ b \in IdleLeases
    <3>1. lease[b].st = "mapped"
      BY <2>3 DEF IdleLeases, Mapped
    <3> QED
      BY <2>1, <2>3, <3>1 DEF Lease
  <2>4. CASE lease'[b] = lease[b]
    BY <2>1, <2>4
  <2> QED
    BY <1>1, <2>2, <2>3, <2>4
<1>3. lease' \in [Leasable -> Lease]
  BY <1>2 DEF AgePool
<1>4. Mapped' \subseteq Mapped /\ \A b \in Mapped' : lease'[b] = lease[b]
  BY <1>2 DEF Mapped
<1>5. linked4' = linked4 \ IdleLeases
  BY DEF AgePool
<1>6. linked4' \subseteq Mapped'
  <2> SUFFICES ASSUME NEW b \in linked4' PROVE b \in Mapped'
    OBVIOUS
  <2>1. b \in Leasable /\ lease[b].st = "mapped" /\ b \notin IdleLeases
    BY <1>5 DEF IInv, LeasesOK, Mapped
  <2>2. b \notin Dormant \cup IdleLeases
    BY <2>1 DEF Dormant
  <2>3. lease'[b] = lease[b]
    BY <2>1, <2>2 DEF AgePool
  <2> QED
    BY <2>1, <2>3 DEF Mapped
<1>7. TypeOK'
  BY <1>3, <1>5 DEF AgePool, IInv, TypeOK
<1>8. LockHeld'
  BY DEF AgePool, IInv, LockHeld
<1>9. JobsOK'
  <2>1. \A t \in Threads : pc[t] # "publish"
    BY Distinct DEF AgePool, MainFree, IInv, LockHeld
  <2> QED
    BY <2>1 DEF AgePool, IInv, JobsOK
<1>10. LeasesOK'
  <2>1. NoLease.st = "free"
    BY DEF NoLease
  <2> QED
    BY <1>2, <1>6, <2>1 DEF IInv, LeasesOK
<1>11. OneLease'
  <2>1. NoLease.st = "free"
    BY DEF NoLease
  <2> QED
    BY <1>2, <2>1 DEF IInv, OneLease
<1>12. TablesDisjoint'
  BY <1>4, <1>5 DEF IInv, TablesDisjoint, Static, Consistent, AgePool
<1> QED
  BY <1>7, <1>8, <1>9, <1>10, <1>11, <1>12 DEF IInv

LEMMA TickStep == ASSUME IInv, Tick PROVE IInv'
<1>1. LeasesOK' /\ OneLease' /\ TablesDisjoint' /\ Mapped' = Mapped
  BY SameTables DEF Tick
<1>2. now' \in Time
  BY Durations DEF Tick, IInv, TypeOK, Time
<1>3. TypeOK'
  BY <1>2 DEF Tick, IInv, TypeOK
<1>4. LockHeld' /\ JobsOK'
  BY <1>1 DEF Tick, IInv, LockHeld, JobsOK
<1> QED
  BY <1>1, <1>3, <1>4 DEF IInv

\* A lookup, step by step.
LEMMA LookupStep ==
  ASSUME IInv, NEW t \in Threads, Lookup(t)
  PROVE  IInv'
<1>1. CASE \E v \in Ask4 : Probe4(t, v)
  <2> PICK v \in Ask4 : Probe4(t, v)
    BY <1>1
  <2>1. CASE \E s \in Hits4(v) : Hit(t, s)
    BY <2>1, HitStep DEF Hits4
  <2>2. CASE Miss(t, "resolve4", [NoJob EXCEPT !.v4 = v])
    <3>1. v \in V4
      BY Addresses
    <3>2. [NoJob EXCEPT !.v4 = v] \in Job /\ [NoJob EXCEPT !.v4 = v].v4 = v
      BY <3>1 DEF NoJob, Job
    <3> QED
      BY <2>2, <3>1, <3>2, MissStep
  <2> QED
    BY <2>1, <2>2 DEF Probe4
<1>2. CASE \E h \in Ask6, dyn \in BOOLEAN : Probe6(t, h, dyn)
  <2> PICK h \in Ask6, dyn \in BOOLEAN : Probe6(t, h, dyn)
    BY <1>2
  <2>1. CASE \E s \in Hits6(h) : Hit(t, s)
    BY <2>1, HitStep DEF Hits6
  <2>2. CASE Miss(t, "resolve6", [NoJob EXCEPT !.v6 = h, !.dyn = dyn])
    <3>1. h \in V6
      BY Addresses
    <3>2. /\ [NoJob EXCEPT !.v6 = h, !.dyn = dyn] \in Job
          /\ [NoJob EXCEPT !.v6 = h, !.dyn = dyn].v6 = h
      BY <3>1 DEF NoJob, Job
    <3> QED
      BY <2>2, <3>1, <3>2, MissStep
  <2> QED
    BY <2>1, <2>2 DEF Probe6
<1>3. CASE Resolve4(t)
  <2> DEFINE v == job[t].v4
  <2>1. v \in V4 /\ mapLock = NoThread /\ pc[t] # "publish"
    BY <1>3 DEF Resolve4, IInv, JobsOK
  <2>2. CASE Find4(v).type = "host" /\ AnswerHost(t, v)
    <3>1. v \in Mapped
      BY <2>2 DEF Find4, PoolMap, StaticMap, NoMap, IInv, LeasesOK
    <3> QED
      BY <2>1, <2>2, <3>1, AnswerHostStep
  <2>3. CASE /\ Find4(v).type = "static" /\ Forward(v) # NoAddr
             /\ AnswerStatic(t, Find4(v).map, v, Forward(v))
    <3>1. Forward(v) \in V6
      BY <2>1, <2>3, ForwardType DEF IInv
    <3> QED
      BY <2>1, <2>3, <3>1, AnswerStaticStep
  <2>4. CASE Refuse(t)
    BY <2>1, <2>4, RefuseStep
  <2> QED
    BY <1>3, <2>2, <2>3, <2>4 DEF Resolve4
<1>4. CASE Resolve6(t)
  <2> DEFINE h == job[t].v6
  <2>1. h \in V6 /\ mapLock = NoThread /\ pc[t] # "publish"
    BY <1>4 DEF Resolve6, IInv, JobsOK
  <2>2. CASE Find6(h).type = "host" /\ AnswerHost(t, Find6(h).addr)
    BY <2>1, <2>2, Find6Host, AnswerHostStep DEF IInv
  <2>3. CASE /\ Find6(h).type = "static" /\ Backward(h) # NoAddr
             /\ AnswerStatic(t, Find6(h).map, Backward(h), h)
    <3>1. Backward(h) \in V4
      BY <2>1, <2>3, BackwardType DEF IInv
    <3> QED
      BY <2>1, <2>3, <3>1, AnswerStaticStep
  <2>4. CASE Refuse(t)
    BY <2>1, <2>4, RefuseStep
  <2>5. CASE Find6(h) = NoMap /\ Assign(t, h)
    BY <2>1, <2>5, AssignStep
  <2> QED
    BY <1>4, <2>2, <2>3, <2>4, <2>5 DEF Resolve6
<1>5. CASE Publish(t)
  BY <1>5, PublishStep
<1> QED
  BY <1>1, <1>2, <1>3, <1>4, <1>5 DEF Lookup

LEMMA NextIInv == IInv /\ [Next]_vars => IInv'
<1> SUFFICES ASSUME IInv, [Next]_vars PROVE IInv'
  OBVIOUS
<1>1. CASE \E t \in Threads : Lookup(t)
  BY <1>1, LookupStep
<1>2. CASE AgeCache
  BY <1>2, AgeCacheStep
<1>3. CASE AgePool
  BY <1>3, AgePoolStep
<1>4. CASE \E F \in FileVersions : Reload(F)
  BY <1>4, ReloadStep
<1>5. CASE Tick
  BY <1>5, TickStep
<1>6. CASE UNCHANGED vars
  <2>1. LeasesOK' /\ OneLease' /\ TablesDisjoint' /\ Mapped' = Mapped
    BY <1>6, SameTables DEF vars
  <2>2. TypeOK' /\ LockHeld' /\ JobsOK'
    BY <1>6, <2>1 DEF vars, IInv, TypeOK, LockHeld, JobsOK
  <2> QED
    BY <2>1, <2>2 DEF IInv
<1> QED
  BY <1>1, <1>2, <1>3, <1>4, <1>5, <1>6 DEF Next

-----------------------------------------------------------------------------
(* The theorems.                                                           *)

THEOREM Inductive == Spec => []IInv
BY InitIInv, NextIInv, PTL DEF Spec

\* Every variable keeps its type: in particular every cached pair and every
\* lookup about to publish is a pair of addresses, never a failed lookup.
THEOREM TypeCorrect == Spec => []TypeOK
<1>1. IInv => TypeOK
  BY DEF IInv
<1> QED
  BY <1>1, Inductive, PTL

\* No host is ever given two pool addresses (map_ip6_to_ip4 looks the host up
\* again under map_mutex, and assign_dynamic looks at the dormant list first).
THEOREM OneLeasePerHost == Spec => []OneLease
<1>1. IInv => OneLease
  BY DEF IInv
<1> QED
  BY <1>1, Inductive, PTL

\* The mapping lists never hold two overlapping IPv6 entries nor the same IPv4
\* range twice, whatever reloads and assignments do (insert_map4, insert_map6,
\* the conflict filter of addrmap_reload).
THEOREM TablesStayDisjoint == Spec => []TablesDisjoint
<1>1. IInv => TablesDisjoint
  BY DEF IInv
<1> QED
  BY <1>1, Inductive, PTL

----------------------------------------------------------------------------
(* Leases under all the threads: what the cache and a lease know of each   *)
(* other, that the mapper implements LeaseTable, and that the cache never  *)
(* disagrees with the tables behind it.                                    *)

\* Map-files hold no /32 for a leasable address (see the finding on dynamic.c:122).
FilesLeaveLeases ==
  \A F \in FileVersions : \A m \in F : \A a \in Leasable : Map4[m] # {a}

\* A conversion to IPv6 yields an address of the mapping's own range, or of a range of
\* tayga.conf: local_addr6 may be generated in the NAT64 prefix.
Embedding ==
  \A m \in Maps : \A v \in Map4[m] :
    To6[m][v] # NoAddr => \E n \in Conf \cup {m} : To6[m][v] \in Map6[n]

----------------------------------------------------------------------------
(* The inductive invariant, beside IInv. *)

\* insert_map4 never refused a lease, and will refuse none that comes back.
Linked == linked4 = Mapped
\* No /32 of a file or of tayga.conf stands where a lease would be linked.
Unclaimed ==
  /\ \A a \in Leasable : lease[a].st # "free" => \A m \in Conf : Map4[m] # {a}
  /\ \A a \in Leasable, m \in fileMaps : Map4[m] # {a}

\* No two entries hold the same pair: cache_insert looks for it first.
Singles ==
  \A r, s \in Slots :
    Used(r) /\ Used(s) /\ cache[r].v4 = cache[s].v4 /\ cache[r].v6 = cache[s].v6 => r = s

\* A pair that no lease answered for is of a static mapping.
StaticPairs ==
  /\ \A s \in Slots : Used(s) /\ ~cache[s].rep => \E m \in Static : cache[s].v6 \in Map6[m]
  /\ \A t \in Threads : pc[t] = "publish" /\ job[t].d = NoAddr =>
       \E m \in Static : job[t].v6 \in Map6[m]

\* No time is in the future.
Past ==
  /\ \A a \in Leasable : lease[a].last <= now /\ touched[a] <= now
  /\ \A s \in Slots : Used(s) => cache[s].last <= now

\* Of a lease and its entry the entry has the later use, but for a lookup that is about
\* to refresh it: an age-out may overwrite the lease's.
Publishing(a) == \E t \in Threads : pc[t] = "publish" /\ job[t].d = a
Recent ==
  \A a \in Leasable : lease[a].ce # NoSlot =>
    lease[a].last <= cache[lease[a].ce].last \/ Publishing(a)

\* Leases are asked for by packets only.
Asked == \A t \in Threads : pc[t] = "resolve6" => job[t].v6 \in Ask6

\* Each part is needed to keep another.
LeaseInv ==
  /\ Linked /\ Unclaimed /\ Singles /\ LeaseTracked /\ StaticPairs
  /\ Past /\ Recent /\ LastUseKnown /\ Asked

\* Nothing is cached, leased or published at the start.
LEMMA LeaseInit == Init => LeaseInv
<1> SUFFICES ASSUME Init PROVE LeaseInv OBVIOUS
<1>1. Mapped = {} /\ linked4 = {} BY DEF Init, Mapped, NoLease
<1>2. \A a \in Leasable : lease[a].st = "free" /\ lease[a].ce = NoSlot /\ lease[a].last = 0
  BY DEF Init, NoLease
<1>3. \A s \in Slots : ~Used(s) BY DEF Init, Used
<1>4. \A t \in Threads : pc[t] = "idle" BY DEF Init
<1>5. Past BY <1>2, <1>3 DEF Past, Init
<1>6. Linked /\ Unclaimed /\ Singles /\ StaticPairs BY <1>1, <1>2, <1>3, <1>4
      DEF Init, Linked, Unclaimed, Singles, StaticPairs
<1>7. LeaseTracked BY <1>2, <1>3 DEF LeaseTracked
<1>8. Recent /\ LastUseKnown /\ Asked BY <1>1, <1>2, <1>4 DEF Recent, LastUseKnown, Asked
<1> QED BY <1>5, <1>6, <1>7, <1>8 DEF LeaseInv

\* What the types say of the numbers and of the entries.
LEMMA Numbers ==
  ASSUME IInv
  PROVE  /\ now \in Nat
         /\ \A a \in Leasable : lease[a] \in Lease /\ lease[a].last \in Nat /\ touched[a] \in Nat
         /\ \A s \in Slots : Used(s) => /\ cache[s] \in Entry /\ cache[s].last \in Nat
                                        /\ cache[s].v4 \in V4 /\ cache[s].v6 \in V6
         /\ NoSlot \notin Slots /\ NoAddr \notin V4 /\ NoAddr \notin Leasable
<1>1. Time \subseteq Nat BY Durations DEF Time
<1>2. Leasable \subseteq V4 BY Addresses DEF Leasable
<1>3. \A a \in Leasable : lease[a] \in Lease BY DEF IInv, TypeOK
<1>4. \A s \in Slots : Used(s) => cache[s] \in Entry BY DEF IInv, TypeOK, Used
<1> QED BY <1>1, <1>2, <1>3, <1>4, Distinct DEF IInv, TypeOK, Lease, Entry

\* An entry that is a lease's own is used.
LEMMA OwnUsed ==
  ASSUME IInv, LeaseTracked, NEW a \in Leasable, lease[a].ce # NoSlot
  PROVE  /\ lease[a].ce \in Slots /\ Used(lease[a].ce) /\ cache[lease[a].ce].rep
         /\ cache[lease[a].ce].v4 = a /\ cache[lease[a].ce].v6 = lease[a].host /\ a \in Mapped
<1>1. lease[a].ce \in Slots BY Numbers DEF Lease
<1>2. Used(lease[a].ce) BY DEF LeaseTracked, Used, NoEntry
<1> QED BY <1>1, <1>2 DEF LeaseTracked

\* A pair of a static mapping is no lease's.
LEMMA StaticNotLeased ==
  ASSUME IInv, NEW a \in Mapped, NEW m \in Static, lease[a].host \in Map6[m]
  PROVE  FALSE
BY DEF IInv, TablesDisjoint

----------------------------------------------------------------------------
(* The steps of a lookup. *)

\* Between the locks a lookup changes only what it remembers.
LEMMA JobsOnly ==
  ASSUME IInv, LeaseInv, NEW t \in Threads, pc[t] # "publish",
         UNCHANGED <<now, fileMaps, lease, linked4, cache, touched>>,
         \A u \in Threads \ {t} : pc'[u] = pc[u] /\ job'[u] = job[u],
         pc'[t] = "publish" /\ job'[t].d = NoAddr => \E m \in Static : job'[t].v6 \in Map6[m],
         pc'[t] = "resolve6" => job'[t].v6 \in Ask6
  PROVE  LeaseInv'
<1>1. Mapped' = Mapped /\ Static' = Static /\ \A s \in Slots : Used(s)' = Used(s)
  BY DEF Mapped, Static, Used
<1>2. Linked' /\ Unclaimed' /\ Singles' BY <1>1 DEF LeaseInv, Linked, Unclaimed, Singles
<1>3. LeaseTracked' BY <1>1 DEF LeaseInv, LeaseTracked
<1>4. StaticPairs'
  <2>1. \A u \in Threads : pc'[u] = "publish" /\ job'[u].d = NoAddr =>
          \E m \in Static : job'[u].v6 \in Map6[m]
    BY DEF LeaseInv, StaticPairs
  <2> QED BY <1>1, <2>1 DEF LeaseInv, StaticPairs
<1>5. Past' BY <1>1 DEF LeaseInv, Past
<1>6. Recent'
  <2>1. \A a : Publishing(a) => Publishing(a)'
    <3> SUFFICES ASSUME NEW a, Publishing(a) PROVE Publishing(a)' OBVIOUS
    <3>1. PICK u \in Threads : pc[u] = "publish" /\ job[u].d = a BY DEF Publishing
    <3>2. pc'[u] = "publish" /\ job'[u].d = a BY <3>1
    <3> QED BY <3>2 DEF Publishing
  <2> QED BY <2>1 DEF LeaseInv, Recent
<1>7. LastUseKnown' BY <1>1 DEF LeaseInv, LastUseKnown, LastUse
<1>8. Asked' BY DEF LeaseInv, Asked
<1> QED BY <1>2, <1>3, <1>4, <1>5, <1>6, <1>7, <1>8 DEF LeaseInv

\* A hit refreshes the entry; if the pair is a lease's, so is the entry.
LEMMA HitKeeps ==
  ASSUME IInv, LeaseInv, NEW t \in Threads, NEW s \in Slots, Used(s), Hit(t, s)
  PROVE  LeaseInv'
<1>1. /\ cache' = [cache EXCEPT ![s].last = now]
      /\ UNCHANGED <<now, fileMaps, lease, linked4, mapLock, pc, job>>
  BY DEF Hit
<1>2. Mapped' = Mapped /\ Static' = Static BY <1>1 DEF Mapped, Static
<1>3. cache'[s] = [cache[s] EXCEPT !.last = now] /\ \A r \in Slots \ {s} : cache'[r] = cache[r]
  BY <1>1 DEF IInv, TypeOK
<1>4. /\ cache'[s].v4 = cache[s].v4 /\ cache'[s].v6 = cache[s].v6
      /\ cache'[s].rep = cache[s].rep /\ cache'[s].last = now
  BY <1>3, Numbers DEF Entry
<1>5. Used(s)' BY <1>4, Numbers DEF Used, NoEntry
<1>6. \A r \in Slots : /\ Used(r)' = Used(r)
                       /\ cache'[r].v4 = cache[r].v4 /\ cache'[r].v6 = cache[r].v6
                       /\ cache'[r].rep = cache[r].rep
                       /\ cache'[r].last = IF r = s THEN now ELSE cache[r].last
  BY <1>3, <1>4, <1>5 DEF Used
<1>7. Linked' /\ Unclaimed' /\ Asked' BY <1>1, <1>2 DEF LeaseInv, Linked, Unclaimed, Asked
<1>8. Singles' BY <1>6 DEF LeaseInv, Singles
<1>9. LeaseTracked'
  BY <1>1, <1>2, <1>6, OwnUsed DEF LeaseInv, LeaseTracked
<1>10. StaticPairs' BY <1>1, <1>2, <1>6 DEF LeaseInv, StaticPairs
<1>11. \A a \in Leasable : touched'[a] = touched[a] \/ touched'[a] = now
  BY DEF Hit, Touch, IInv, TypeOK
<1>12. Past' BY <1>1, <1>6, <1>11, Numbers DEF LeaseInv, Past
<1>13. Recent'
  <2> SUFFICES ASSUME NEW a \in Leasable, lease[a].ce # NoSlot
               PROVE  lease[a].last <= cache'[lease[a].ce].last \/ Publishing(a)
    BY <1>1 DEF Recent, Publishing
  <2>1. lease[a].ce \in Slots BY OwnUsed DEF LeaseInv
  <2>2. lease[a].last <= now BY DEF LeaseInv, Past
  <2> QED BY <1>6, <2>1, <2>2 DEF LeaseInv, Recent
<1>14. LastUseKnown'
  <2> SUFFICES ASSUME NEW a \in Mapped PROVE touched'[a] <= LastUse(a)'
    BY <1>2 DEF LastUseKnown
  <2>1. a \in Leasable BY DEF Mapped
  <2>2. touched[a] <= LastUse(a) /\ touched[a] <= now /\ lease[a].last <= now
    BY <2>1 DEF LeaseInv, LastUseKnown, Past
  <2>3. CASE lease[a].ce = s
    BY <1>1, <1>6, <1>11, <2>1, <2>2, <2>3, Numbers DEF LastUse
  <2>4. CASE lease[a].ce # s
    <3>1. LastUse(a)' = LastUse(a)
      <4>1. CASE lease[a].ce = NoSlot BY <1>1, <4>1 DEF LastUse
      <4>2. CASE lease[a].ce # NoSlot
        <5>1. lease[a].ce \in Slots BY <2>1, <4>2, OwnUsed DEF LeaseInv
        <5> QED BY <1>1, <1>3, <2>4, <5>1 DEF LastUse
      <4> QED BY <4>1, <4>2
    <3>2. ~(a = cache[s].v4 /\ lease[a].host = cache[s].v6)
      <4> SUFFICES ASSUME a = cache[s].v4, lease[a].host = cache[s].v6 PROVE FALSE OBVIOUS
      <4>1. CASE cache[s].rep BY <2>4, <4>1 DEF LeaseInv, LeaseTracked
      <4>2. CASE ~cache[s].rep
        <5>1. PICK m \in Static : cache[s].v6 \in Map6[m] BY <4>2 DEF LeaseInv, StaticPairs
        <5> QED BY <5>1, StaticNotLeased
      <4> QED BY <4>1, <4>2
    <3>3. touched'[a] = touched[a]
      BY <2>1, <3>2 DEF Hit, Touch, IInv, TypeOK
    <3> QED BY <2>2, <3>1, <3>3
  <2> QED BY <2>3, <2>4
<1> QED BY <1>7, <1>8, <1>9, <1>10, <1>12, <1>13, <1>14 DEF LeaseInv

\* Nobody is about to publish while map_mutex is free.
LEMMA NoPublisher ==
  ASSUME IInv, mapLock = NoThread
  PROVE  /\ \A t \in Threads : pc[t] # "publish"
         /\ \A a : ~Publishing(a)
BY Distinct DEF IInv, LockHeld, Publishing

\* The clock goes on.
LEMMA TickKeeps == ASSUME IInv, LeaseInv, Tick PROVE LeaseInv'
<1> USE DEF Tick
<1>1. Mapped' = Mapped /\ Static' = Static /\ \A s \in Slots : Used(s)' = Used(s)
  BY DEF Mapped, Static, Used
<1>2. Linked' /\ Unclaimed' /\ Singles' /\ StaticPairs' BY <1>1
      DEF LeaseInv, Linked, Unclaimed, Singles, StaticPairs
<1>3. LeaseTracked' BY <1>1 DEF LeaseInv, LeaseTracked
<1>4. Past' BY <1>1, Numbers DEF LeaseInv, Past
<1>5. Recent' BY DEF LeaseInv, Recent, Publishing
<1>6. LastUseKnown' BY <1>1 DEF LeaseInv, LastUseKnown, LastUse
<1>7. Asked' BY DEF LeaseInv, Asked
<1> QED BY <1>2, <1>3, <1>4, <1>5, <1>6, <1>7 DEF LeaseInv

\* A lease answers, known before or new: its last use is now, until its entry has it.
LEMMA LeaseAnswers ==
  ASSUME IInv, LeaseInv, NEW t \in Threads, mapLock = NoThread,
         NEW a \in Leasable, NEW h \in V6, KeepLock(t, a, h, a),
         UNCHANGED <<now, fileMaps, cache>>,
         touched' = [touched EXCEPT ![a] = now],
         lease'[a] = [lease[a] EXCEPT !.st = "mapped", !.host = h, !.last = now],
         \A b \in Leasable \ {a} : lease'[b] = lease[b],
         linked4' = linked4 \cup {a},
         a \in Mapped => lease[a].host = h,
         \A m \in Conf : Map4[m] # {a}
  PROVE  LeaseInv'
<1>1. a \in V4 /\ a # NoAddr BY Numbers, Addresses DEF Leasable
<1>2. /\ pc'[t] = "publish" /\ job'[t].d = a
      /\ \A u \in Threads \ {t} : pc'[u] = pc[u] /\ pc'[u] # "publish" /\ job'[u] = job[u]
  BY <1>1, KeepLockStep
<1>3. /\ lease'[a].st = "mapped" /\ lease'[a].host = h /\ lease'[a].last = now
      /\ lease'[a].ce = lease[a].ce
  BY Numbers DEF Lease
<1>4. \A b \in Leasable : lease'[b].ce = lease[b].ce BY <1>3
<1>5. Mapped' = Mapped \cup {a}
  <2>1. \A b \in Leasable : lease'[b].st = "mapped" <=> b = a \/ lease[b].st = "mapped"
    BY <1>3
  <2> QED BY <2>1 DEF Mapped
<1>6. Static' = Static /\ \A s \in Slots : Used(s)' = Used(s) BY DEF Static, Used
<1>7. Linked' BY <1>5 DEF LeaseInv, Linked
<1>8. Unclaimed'
  <2>1. \A b \in Leasable : b # a => lease'[b].st = lease[b].st OBVIOUS
  <2> QED BY <2>1 DEF LeaseInv, Unclaimed
<1>9. Singles' BY <1>6 DEF LeaseInv, Singles
<1>10. LeaseTracked'
  <2>1. ASSUME NEW b \in Leasable, lease'[b].ce # NoSlot
        PROVE  b \in Mapped' /\ cache[lease'[b].ce].rep /\ cache[lease'[b].ce].v4 = b
               /\ cache[lease'[b].ce].v6 = lease'[b].host
    <3>1. b \in Mapped /\ cache[lease[b].ce].rep /\ cache[lease[b].ce].v4 = b
          /\ cache[lease[b].ce].v6 = lease[b].host
      BY <1>4, <2>1 DEF LeaseInv, LeaseTracked
    <3>2. lease'[b].host = lease[b].host BY <1>3, <3>1
    <3> QED BY <1>4, <1>5, <3>1, <3>2
  <2>2. \A s \in Slots : Used(s)' /\ cache[s].rep =>
          cache[s].v4 \in Leasable /\ lease'[cache[s].v4].ce = s
    BY <1>4, <1>6 DEF LeaseInv, LeaseTracked
  <2> QED BY <2>1, <2>2 DEF LeaseTracked
<1>11. StaticPairs' BY <1>1, <1>2, <1>6 DEF LeaseInv, StaticPairs
<1>12. touched'[a] = now /\ \A b \in Leasable \ {a} : touched'[b] = touched[b]
  BY DEF IInv, TypeOK
<1>13. Past'
  <2>1. \A b \in Leasable : b # a => lease'[b].last <= now /\ touched'[b] <= now
    BY <1>12 DEF LeaseInv, Past
  <2>2. lease'[a].last <= now /\ touched'[a] <= now BY <1>3, <1>12, Numbers
  <2>3. \A b \in Leasable : lease'[b].last <= now /\ touched'[b] <= now BY <2>1, <2>2
  <2> QED BY <1>6, <2>3 DEF LeaseInv, Past
<1>14. Recent'
  <2> SUFFICES ASSUME NEW b \in Leasable, lease'[b].ce # NoSlot, ~Publishing(b)'
               PROVE  lease'[b].last <= cache[lease'[b].ce].last
    BY DEF Recent
  <2>1. b # a BY <1>2 DEF Publishing
  <2> QED BY <2>1, NoPublisher DEF LeaseInv, Recent
<1>15. LastUseKnown'
  <2> SUFFICES ASSUME NEW b \in Mapped' PROVE touched'[b] <= LastUse(b)' BY DEF LastUseKnown
  <2>1. CASE b = a
    <3>1. touched'[b] = now /\ lease'[b].last = now BY <1>3, <1>12, <2>1
    <3>2. CASE lease'[b].ce = NoSlot BY <3>1, <3>2, Numbers DEF LastUse
    <3>3. CASE lease'[b].ce # NoSlot
      <4>1. cache[lease[b].ce].last \in Nat /\ lease'[b].ce = lease[b].ce
        BY <1>4, <2>1, <3>3, OwnUsed, Numbers DEF LeaseInv
      <4> QED BY <3>1, <4>1, Numbers DEF LastUse
    <3> QED BY <3>2, <3>3
  <2>2. CASE b # a
    <3>1. b \in Mapped /\ b \in Leasable BY <1>5, <2>2 DEF Mapped
    <3>2. LastUse(b)' = LastUse(b) BY <2>2, <3>1 DEF LastUse
    <3> QED BY <1>12, <2>2, <3>1, <3>2 DEF LeaseInv, LastUseKnown
  <2> QED BY <2>1, <2>2
<1>16. Asked' BY <1>2 DEF LeaseInv, Asked
<1> QED BY <1>7, <1>8, <1>9, <1>10, <1>11, <1>13, <1>14, <1>15, <1>16 DEF LeaseInv

\* DYNAMIC_HOST: the lease is the host's, and its /32 is in map4_list.
LEMMA AnswerHostKeeps ==
  ASSUME IInv, LeaseInv, NEW t \in Threads, mapLock = NoThread, NEW a \in Mapped, AnswerHost(t, a)
  PROVE  LeaseInv'
<1>1. a \in Leasable /\ lease[a].host \in V6 BY DEF Mapped, IInv, LeasesOK
<1>2. lease' = [lease EXCEPT ![a].last = now] BY DEF AnswerHost
<1>3. /\ lease'[a] = [lease[a] EXCEPT !.last = now]
      /\ \A b \in Leasable \ {a} : lease'[b] = lease[b]
  BY <1>1, <1>2 DEF IInv, TypeOK
<1>4. lease[a] = [lease[a] EXCEPT !.st = "mapped", !.host = lease[a].host]
  BY <1>1, Numbers DEF Lease, Mapped
<1>5. lease'[a] = [lease[a] EXCEPT !.st = "mapped", !.host = lease[a].host, !.last = now]
  BY <1>1, <1>3, <1>4, Numbers DEF Lease, Mapped
<1>6. linked4' = linked4 \cup {a} BY DEF AnswerHost, LeaseInv, Linked
<1>7. \A m \in Conf : Map4[m] # {a} BY <1>1 DEF LeaseInv, Unclaimed, Mapped
<1> QED BY <1>1, <1>3, <1>5, <1>6, <1>7, LeaseAnswers DEF AnswerHost

\* What assign_dynamic may give, insert_map4 accepts.
LEMMA CandidateLinks ==
  ASSUME IInv, LeaseInv, NEW h \in V6, NEW a \in Candidates(h)
  PROVE  a \in Leasable /\ a \notin Mapped /\ Links(a) /\ \A m \in Conf : Map4[m] # {a}
<1>1. a \in Leasable /\ a \notin Mapped
  BY DEF Candidates, FreeUsable, Oldest, Dormant, Mapped
<1>2. ASSUME NEW m \in Conf PROVE Map4[m] # {a}
  <2>1. CASE a \in FreeUsable
    <3>1. Find4(a) = PoolMap BY <2>1 DEF FreeUsable
    <3>2. Inside(a) = {} BY <1>1, <3>1 DEF Find4, HostMap, StaticMap, NoMap, PoolMap
    <3>3. a \in Map4[m] => Pool \subseteq Map4[m] BY <3>2 DEF Inside, Cover4, Static
    <3> QED BY <1>1, <3>3, Addresses DEF Leasable
  <2>2. CASE a \in Dormant BY <1>1, <2>2 DEF Dormant, LeaseInv, Unclaimed
  <2> QED BY <2>1, <2>2 DEF Candidates, Oldest
<1>3. Links(a) BY <1>1, <1>2 DEF Links, Static, LeaseInv, Unclaimed
<1> QED BY <1>1, <1>2, <1>3

\* A lease is assigned.
LEMMA AssignKeeps ==
  ASSUME IInv, LeaseInv, NEW t \in Threads, mapLock = NoThread, NEW h \in V6, Assign(t, h)
  PROVE  LeaseInv'
<1> PICK a \in Candidates(h) :
      /\ lease' = [lease EXCEPT ![a] = [@ EXCEPT !.st = "mapped", !.host = h,
                                                !.last = now]]
      /\ linked4' = IF Links(a) THEN linked4 \cup {a} ELSE linked4
      /\ touched' = [touched EXCEPT ![a] = now]
      /\ KeepLock(t, a, h, a)
      /\ UNCHANGED <<now, fileMaps, cache>>
  BY DEF Assign
<1>1. a \in Leasable /\ a \notin Mapped /\ Links(a) /\ \A m \in Conf : Map4[m] # {a}
  BY CandidateLinks
<1>2. /\ lease'[a] = [lease[a] EXCEPT !.st = "mapped", !.host = h, !.last = now]
      /\ \A b \in Leasable \ {a} : lease'[b] = lease[b]
  BY <1>1 DEF IInv, TypeOK
<1>3. linked4' = linked4 \cup {a} BY <1>1
<1> QED BY <1>1, <1>2, <1>3, LeaseAnswers

\* A pair enters the cache: if it is a lease's, the entry is the lease's own from now on,
\* and no other entry was.
LEMMA PublishKeeps ==
  ASSUME IInv, LeaseInv, NEW t \in Threads, Publish(t)
  PROVE  LeaseInv'
<1> DEFINE v == job[t].v4
           h == job[t].v6
           d == job[t].d
           Own(c) == lease' = IF d # NoAddr THEN [lease EXCEPT ![d].ce = c] ELSE lease
<1>1. /\ pc[t] = "publish" /\ UNCHANGED <<now, fileMaps, linked4, touched>>
      /\ \/ \E s \in Inserted(v, h) :
              cache' = [cache EXCEPT ![s] = Line(s, v, h, d)] /\ Own(s)
         \/ Inserted(v, h) = {} /\ Own(NoSlot) /\ UNCHANGED cache
      /\ pc' = [pc EXCEPT ![t] = "idle"] /\ job' = [job EXCEPT ![t] = NoJob]
  BY DEF Publish
<1>2. /\ v \in V4 /\ h \in V6
      /\ d # NoAddr => d = v /\ d \in Mapped /\ d \in Leasable /\ lease[d].host = h
  BY <1>1 DEF IInv, JobsOK, Mapped
<1> HIDE DEF v, h, d, Own
<1>3. \A u \in Threads : pc'[u] # "publish"
  BY PublishStep, <1>1, Distinct DEF IInv, LockHeld, Publish
<1>4. \A b : Publishing(b) => b = d
  BY <1>1 DEF IInv, LockHeld, Publishing, d
<1>5. Same(v, h) \subseteq Slots /\ \A s \in Slots :
        s \in Same(v, h) <=> Used(s) /\ cache[s].v4 = v /\ cache[s].v6 = h
  BY DEF Same, Hits4, Hits6
<1>6. \A r, s \in Same(v, h) : r = s BY <1>5 DEF LeaseInv, Singles
<1>7. d # NoAddr /\ lease[d].ce # NoSlot => lease[d].ce \in Same(v, h)
  BY <1>2, <1>5, OwnUsed DEF LeaseInv
<1>8. \A b \in Leasable : lease[b].ce \in Same(v, h) => b = v
  BY <1>5, OwnUsed, Numbers DEF LeaseInv
<1>9. Linked' /\ Unclaimed' /\ Mapped' = Mapped /\ \A b \in Leasable :
        lease'[b].host = lease[b].host /\ lease'[b].last = lease[b].last
  <2>1. \A b \in Leasable : /\ lease'[b].st = lease[b].st /\ lease'[b].host = lease[b].host
                            /\ lease'[b].last = lease[b].last
    <3>1. \E c : Own(c) BY <1>1
    <3>2. PICK c : Own(c) BY <3>1
    <3>3. \A b \in Leasable : lease'[b] = lease[b] \/ lease'[b] = [lease[b] EXCEPT !.ce = c]
      BY <3>2 DEF Own, IInv, TypeOK
    <3> QED BY <3>3, Numbers DEF Lease
  <2>2. Mapped' = Mapped BY <2>1 DEF Mapped
  <2> QED BY <1>1, <2>1, <2>2 DEF LeaseInv, Linked, Unclaimed
<1>10. Asked' BY <1>1 DEF LeaseInv, Asked, IInv, TypeOK
<1>11. Static' = Static BY <1>1 DEF Static
<1>12. CASE Inserted(v, h) = {} /\ Own(NoSlot) /\ UNCHANGED cache
  <2>1. Same(v, h) = {} BY <1>12 DEF Inserted
  <2>2. d # NoAddr => lease[d].ce = NoSlot BY <1>7, <2>1
  <2>3. \A b \in Leasable : lease'[b].ce = lease[b].ce
    <3>1. CASE d = NoAddr BY <1>12, <3>1 DEF Own
    <3>2. CASE d # NoAddr
      <4>1. lease' = [lease EXCEPT ![d].ce = NoSlot] BY <1>12, <3>2 DEF Own
      <4>2. ASSUME NEW b \in Leasable, b # d PROVE lease'[b].ce = lease[b].ce
        BY <4>1, <4>2 DEF IInv, TypeOK
      <4>3. lease'[d].ce = NoSlot
        BY <1>2, <3>2, <4>1, Numbers DEF IInv, TypeOK, Lease
      <4> QED BY <2>2, <3>2, <4>2, <4>3
    <3> QED BY <3>1, <3>2
  <2>4. \A s \in Slots : Used(s)' = Used(s) BY <1>12 DEF Used
  <2>5. Singles' /\ StaticPairs' BY <1>3, <1>11, <1>12, <2>4
        DEF LeaseInv, Singles, StaticPairs
  <2>6. LeaseTracked' BY <1>9, <1>12, <2>3, <2>4 DEF LeaseInv, LeaseTracked
  <2>7. Past' BY <1>1, <1>9, <1>12, <2>4 DEF LeaseInv, Past
  <2>8. Recent'
    <3> SUFFICES ASSUME NEW b \in Leasable, lease'[b].ce # NoSlot
                 PROVE  lease'[b].last <= cache[lease'[b].ce].last
      BY <1>12 DEF Recent
    <3>1. ~Publishing(b) BY <1>4, <2>2, <2>3, Numbers
    <3> QED BY <1>9, <2>3, <3>1 DEF LeaseInv, Recent
  <2>9. LastUseKnown'
    <3>1. \A b \in Mapped : LastUse(b)' = LastUse(b)
      BY <1>9, <1>12, <2>3 DEF LastUse, Mapped
    <3> QED BY <1>1, <1>9, <3>1 DEF LeaseInv, LastUseKnown
  <2> QED BY <1>9, <1>10, <2>5, <2>6, <2>7, <2>8, <2>9 DEF LeaseInv
<1>13. ASSUME NEW s \in Inserted(v, h), cache' = [cache EXCEPT ![s] = Line(s, v, h, d)], Own(s)
       PROVE  LeaseInv'
  <2>1. s \in Slots /\ (s \in Same(v, h) \/ (Same(v, h) = {} /\ ~Used(s)))
    BY <1>5, <1>13 DEF Inserted
  <2>2. /\ cache'[s] = Line(s, v, h, d)
        /\ \A r \in Slots \ {s} : cache'[r] = cache[r] /\ Used(r)' = Used(r)
    BY <1>13, <2>1 DEF IInv, TypeOK, Used
  <2>3. /\ cache'[s].v4 = v /\ cache'[s].v6 = h /\ cache'[s].last = now
        /\ cache'[s].rep = (d # NoAddr \/ (s \in Same(v, h) /\ cache[s].rep))
    BY <2>2 DEF Line
  <2>4. \A b \in Leasable : lease'[b].ce = IF b = d THEN s ELSE lease[b].ce
    <3>1. CASE d = NoAddr BY <1>13, <3>1, Numbers DEF Own
    <3>2. CASE d # NoAddr
      <4>1. lease' = [lease EXCEPT ![d].ce = s] BY <1>13, <3>2 DEF Own
      <4>2. ASSUME NEW b \in Leasable, b # d PROVE lease'[b].ce = lease[b].ce
        BY <4>1, <4>2 DEF IInv, TypeOK
      <4>3. lease'[d].ce = s BY <1>2, <3>2, <4>1, Numbers DEF IInv, TypeOK, Lease
      <4> QED BY <4>2, <4>3
    <3> QED BY <3>1, <3>2
  <2>5. \A b \in Leasable : lease[b].ce = s => s \in Same(v, h) /\ b = v
    <3> SUFFICES ASSUME NEW b \in Leasable, lease[b].ce = s PROVE s \in Same(v, h) /\ b = v
      OBVIOUS
    <3>1. lease[b].ce # NoSlot BY <2>1, Numbers
    <3>2. Used(s) BY <3>1, OwnUsed DEF LeaseInv
    <3> QED BY <1>8, <2>1, <3>2
  <2>6. d # NoAddr => lease[d].ce = NoSlot \/ lease[d].ce = s
    BY <1>6, <1>7, <2>1
  <2>7. Singles'
    <3> SUFFICES ASSUME NEW r \in Slots \ {s}, Used(r), cache[r].v4 = v, cache[r].v6 = h
                 PROVE  FALSE
      BY <2>2, <2>3 DEF LeaseInv, Singles
    <3> QED BY <1>5, <1>6, <2>1
  <2>8. LeaseTracked'
    <3>1. ASSUME NEW b \in Leasable, lease'[b].ce # NoSlot
          PROVE  b \in Mapped /\ cache'[lease'[b].ce].rep /\ cache'[lease'[b].ce].v4 = b
                 /\ cache'[lease'[b].ce].v6 = lease[b].host
      <4>1. CASE b = d BY <1>2, <2>3, <2>4, <4>1, Numbers
      <4>2. CASE b # d
        <5>1. lease'[b].ce = lease[b].ce /\ lease[b].ce \in Slots /\ b \in Mapped
              /\ cache[lease[b].ce].rep /\ cache[lease[b].ce].v4 = b
              /\ cache[lease[b].ce].v6 = lease[b].host
          BY <2>4, <3>1, <4>2, OwnUsed DEF LeaseInv
        <5>2. CASE lease[b].ce # s BY <2>2, <5>1, <5>2
        <5>3. CASE lease[b].ce = s
          <6>1. s \in Same(v, h) /\ b = v BY <2>5, <5>3
          <6>2. cache[s].v6 = h BY <1>5, <2>1, <6>1
          <6> QED BY <2>3, <5>1, <5>3, <6>1, <6>2
        <5> QED BY <5>2, <5>3
      <4> QED BY <4>1, <4>2
    <3>2. ASSUME NEW r \in Slots, Used(r)', cache'[r].rep
          PROVE  cache'[r].v4 \in Leasable /\ lease'[cache'[r].v4].ce = r
      <4>1. CASE r # s
        <5>1. cache'[r] = cache[r] /\ Used(r) BY <2>2, <3>2, <4>1
        <5>2. cache[r].v4 \in Leasable /\ lease[cache[r].v4].ce = r
          BY <3>2, <5>1 DEF LeaseInv, LeaseTracked
        <5>3. cache[r].v4 # d BY <2>6, <4>1, <5>2, Numbers
        <5> QED BY <2>4, <5>1, <5>2, <5>3
      <4>2. CASE r = s /\ d # NoAddr BY <1>2, <2>3, <2>4, <4>2
      <4>3. CASE r = s /\ d = NoAddr
        <5>1. s \in Same(v, h) /\ cache[s].rep BY <2>3, <3>2, <4>3
        <5>2. v \in Leasable /\ lease[v].ce = s
          BY <1>5, <2>1, <5>1 DEF LeaseInv, LeaseTracked
        <5> QED BY <2>3, <2>4, <4>3, <5>2, Numbers
      <4> QED BY <4>1, <4>2, <4>3
    <3> QED BY <1>9, <3>1, <3>2 DEF LeaseTracked
  <2>9. StaticPairs'
    <3>1. ASSUME NEW r \in Slots, Used(r)', ~cache'[r].rep
          PROVE  \E m \in Static : cache'[r].v6 \in Map6[m]
      <4>1. CASE r # s BY <2>2, <3>1, <4>1 DEF LeaseInv, StaticPairs
      <4>2. CASE r = s
        <5>1. d = NoAddr BY <2>3, <3>1, <4>2
        <5> QED BY <1>1, <2>3, <4>2, <5>1 DEF LeaseInv, StaticPairs, d, h
      <4> QED BY <4>1, <4>2
    <3> QED BY <1>3, <1>11, <3>1 DEF StaticPairs
  <2>10. Past'
    <3>1. \A r \in Slots : Used(r)' => cache'[r].last <= now
      BY <2>2, <2>3, Numbers DEF LeaseInv, Past
    <3> QED BY <1>1, <1>9, <3>1 DEF LeaseInv, Past
  <2>11. Recent'
    <3> SUFFICES ASSUME NEW b \in Leasable, lease'[b].ce # NoSlot
                 PROVE  lease[b].last <= cache'[lease'[b].ce].last
      BY <1>9 DEF Recent
    <3>1. CASE lease'[b].ce = s BY <2>3, <3>1 DEF LeaseInv, Past
    <3>2. CASE lease'[b].ce # s
      <4>1. b # d /\ lease'[b].ce = lease[b].ce /\ ~Publishing(b) BY <1>4, <2>4, <3>2
      <4>2. lease[b].ce \in Slots BY <4>1, OwnUsed DEF LeaseInv
      <4> QED BY <2>2, <3>2, <4>1, <4>2 DEF LeaseInv, Recent
    <3> QED BY <3>1, <3>2
  <2>12. LastUseKnown'
    <3> SUFFICES ASSUME NEW b \in Mapped PROVE touched[b] <= LastUse(b)'
      BY <1>1, <1>9 DEF LastUseKnown
    <3>1. b \in Leasable BY DEF Mapped
    <3>2. CASE lease'[b].ce = s
      <4>1. LastUse(b)' = IF lease[b].last < now THEN now ELSE lease[b].last
        BY <1>9, <2>1, <2>3, <3>1, <3>2, Numbers DEF LastUse
      <4> QED BY <3>1, <4>1, Numbers DEF LeaseInv, Past
    <3>3. CASE lease'[b].ce # s
      <4>1. lease'[b].ce = lease[b].ce BY <2>4, <3>1, <3>3
      <4>2. lease[b].ce = NoSlot \/ lease[b].ce \in Slots \ {s}
        BY <3>1, <3>3, <4>1, OwnUsed DEF LeaseInv
      <4>3. LastUse(b)' = LastUse(b) BY <1>9, <2>2, <3>1, <4>1, <4>2 DEF LastUse
      <4> QED BY <4>3 DEF LeaseInv, LastUseKnown
    <3> QED BY <3>2, <3>3
  <2> QED BY <1>9, <1>10, <2>7, <2>8, <2>9, <2>10, <2>11, <2>12 DEF LeaseInv
<1> QED BY <1>1, <1>12, <1>13

----------------------------------------------------------------------------
(* The main thread. *)

\* report_ageout, for entries of leases: the lease takes over the entry's last use.
LEMMA ReportAll ==
  ASSUME IInv, LeaseInv, NEW S \in SUBSET {s \in Slots : Used(s)}, NEW a \in Leasable
  PROVE  Report(S)[a] = IF lease[a].ce \in S
                        THEN [lease[a] EXCEPT !.last = cache[lease[a].ce].last, !.ce = NoSlot]
                        ELSE lease[a]
<1>1. lease[a].ce \in S => a \in linked4 /\ cache[lease[a].ce].v4 = a /\ cache[lease[a].ce].rep
  BY OwnUsed, Numbers DEF LeaseInv, Linked
<1> QED BY <1>1 DEF Report

\* An eviction while nobody publishes: no last use is lost.
LEMMA EvictKeeps ==
  ASSUME IInv, LeaseInv, MainFree, NEW S \in SUBSET {s \in Slots : Used(s)}, Evict(S),
         UNCHANGED <<now, linked4, pc, job, touched>>,
         \A m \in fileMaps', a \in Leasable : Map4[m] # {a},
         fileMaps' = fileMaps \/ S = {s \in Slots : Used(s)}
  PROVE  LeaseInv'
<1>1. \A a \in Leasable :
        lease'[a] = IF lease[a].ce \in S
                    THEN [lease[a] EXCEPT !.last = cache[lease[a].ce].last, !.ce = NoSlot]
                    ELSE lease[a]
  BY ReportAll DEF Evict
<1>2. \A a \in Leasable :
        /\ lease'[a].st = lease[a].st /\ lease'[a].host = lease[a].host
        /\ lease[a].ce \in S => lease'[a].ce = NoSlot /\ lease'[a].last = cache[lease[a].ce].last
        /\ lease[a].ce \notin S => lease'[a].ce = lease[a].ce /\ lease'[a].last = lease[a].last
  BY <1>1, Numbers DEF Lease
<1>3. \A s \in Slots : /\ Used(s)' <=> Used(s) /\ s \notin S
                       /\ Used(s)' => cache'[s] = cache[s]
  BY DEF Evict, Used
<1>4. Mapped' = Mapped BY <1>2 DEF Mapped
<1>5. \A t \in Threads : pc[t] # "publish" BY NoPublisher DEF MainFree
<1>6. \A a : ~Publishing(a) BY NoPublisher DEF MainFree
<1>7. Linked' /\ Unclaimed' /\ Asked' BY <1>2, <1>4 DEF LeaseInv, Linked, Unclaimed, Asked
<1>8. Singles' BY <1>3 DEF LeaseInv, Singles
<1>9. LeaseTracked'
  <2>1. ASSUME NEW a \in Leasable, lease'[a].ce # NoSlot
        PROVE  a \in Mapped /\ cache'[lease'[a].ce].rep /\ cache'[lease'[a].ce].v4 = a
               /\ cache'[lease'[a].ce].v6 = lease'[a].host
    <3>1. lease[a].ce \notin S /\ lease'[a].ce = lease[a].ce BY <1>2, <2>1
    <3>2. /\ lease[a].ce \in Slots /\ Used(lease[a].ce) /\ a \in Mapped
          /\ cache[lease[a].ce].rep /\ cache[lease[a].ce].v4 = a
          /\ cache[lease[a].ce].v6 = lease[a].host
      BY <2>1, <3>1, OwnUsed DEF LeaseInv
    <3> QED BY <1>2, <1>3, <3>1, <3>2
  <2>2. ASSUME NEW s \in Slots, Used(s)', cache'[s].rep
        PROVE  cache'[s].v4 \in Leasable /\ lease'[cache'[s].v4].ce = s
    <3>1. cache'[s] = cache[s] /\ Used(s) /\ s \notin S BY <1>3, <2>2
    <3>2. cache[s].v4 \in Leasable /\ lease[cache[s].v4].ce = s
      BY <2>2, <3>1 DEF LeaseInv, LeaseTracked
    <3> QED BY <1>2, <3>1, <3>2
  <2> QED BY <1>4, <2>1, <2>2 DEF LeaseTracked
<1>10. StaticPairs'
  <2>1. CASE fileMaps' = fileMaps
    <3>1. Static' = Static BY <2>1 DEF Static
    <3> QED BY <1>3, <1>5, <3>1 DEF LeaseInv, StaticPairs
  <2>2. CASE S = {s \in Slots : Used(s)} BY <1>3, <1>5, <2>2 DEF StaticPairs
  <2> QED BY <2>1, <2>2
<1>11. Past'
  <2>1. \A a \in Leasable : lease'[a].last <= now
    BY <1>2 DEF LeaseInv, Past
  <2> QED BY <1>3, <2>1 DEF LeaseInv, Past
<1>12. Recent'
  <2> SUFFICES ASSUME NEW a \in Leasable, lease'[a].ce # NoSlot
               PROVE  lease'[a].last <= cache'[lease'[a].ce].last
    BY DEF Recent
  <2>1. lease[a].ce \notin S /\ lease'[a].ce = lease[a].ce /\ lease'[a].last = lease[a].last
    BY <1>2
  <2>2. lease[a].ce \in Slots /\ Used(lease[a].ce) BY <2>1, OwnUsed DEF LeaseInv
  <2> QED BY <1>3, <1>6, <2>1, <2>2 DEF LeaseInv, Recent
<1>13. LastUseKnown'
  <2> SUFFICES ASSUME NEW a \in Mapped PROVE touched[a] <= LastUse(a)'
    BY <1>4 DEF LastUseKnown
  <2>1. a \in Leasable /\ touched[a] <= LastUse(a)
    BY DEF Mapped, LeaseInv, LastUseKnown
  <2>2. CASE lease[a].ce \in S
    <3>1. lease[a].ce # NoSlot /\ lease[a].ce \in Slots /\ Used(lease[a].ce)
      BY <2>2, Numbers
    <3>2. lease[a].last <= cache[lease[a].ce].last
      BY <1>6, <2>1, <3>1 DEF LeaseInv, Recent
    <3>3. LastUse(a) = cache[lease[a].ce].last
      BY <2>1, <3>1, <3>2, Numbers DEF LastUse
    <3>4. LastUse(a)' = cache[lease[a].ce].last
      BY <1>2, <2>1, <2>2 DEF LastUse
    <3> QED BY <2>1, <3>3, <3>4
  <2>3. CASE lease[a].ce \notin S
    <3>1. lease[a].ce # NoSlot =>
            lease[a].ce \in Slots /\ cache'[lease[a].ce] = cache[lease[a].ce]
      <4>1. CASE lease[a].ce # NoSlot
        <5>1. lease[a].ce \in Slots /\ Used(lease[a].ce) BY <2>1, <4>1, OwnUsed DEF LeaseInv
        <5> QED BY <1>3, <2>3, <5>1
      <4> QED BY <4>1
    <3>2. LastUse(a)' = LastUse(a) BY <1>2, <2>1, <2>3, <3>1 DEF LastUse
    <3> QED BY <2>1, <3>2
  <2> QED BY <2>2, <2>3
<1> QED BY <1>7, <1>8, <1>9, <1>10, <1>11, <1>12, <1>13 DEF LeaseInv

\* Leases rest and expire; none of them had an entry.
LEMMA AgePoolKeeps ==
  ASSUME IInv, LeaseInv, AgePool
  PROVE  LeaseInv'
<1> DEFINE gone == {a \in Dormant \cup IdleLeases : lease[a].last + MaxLease < now}
<1>1. /\ MainFree /\ linked4' = linked4 \ IdleLeases
      /\ UNCHANGED <<now, fileMaps, cache, pc, job, touched>>
      /\ \A a \in Leasable :
           lease'[a] = IF a \in gone THEN NoLease
                       ELSE IF a \in IdleLeases THEN [lease[a] EXCEPT !.st = "dormant"]
                       ELSE lease[a]
  BY DEF AgePool
<1>2. \A a \in IdleLeases : a \in Mapped /\ lease[a].ce = NoSlot BY DEF IdleLeases
<1>3. \A a \in gone : a \in Dormant \cup IdleLeases OBVIOUS
<1>4. Dormant \cap Mapped = {} /\ Dormant \subseteq Leasable /\ Mapped \subseteq Leasable
  BY DEF Dormant, Mapped
<1> HIDE DEF gone
<1>5. \A a \in Leasable : a \in Dormant => lease[a].ce = NoSlot
  BY <1>4 DEF LeaseInv, LeaseTracked
<1>6. \A a \in Leasable : lease'[a].ce = lease[a].ce
  <2> SUFFICES ASSUME NEW a \in Leasable PROVE lease'[a].ce = lease[a].ce OBVIOUS
  <2>1. CASE a \in gone
    <3>1. lease[a].ce = NoSlot BY <1>2, <1>3, <1>5, <2>1
    <3>2. lease'[a] = NoLease BY <1>1, <2>1
    <3> QED BY <3>1, <3>2 DEF NoLease
  <2>2. CASE a \notin gone /\ a \in IdleLeases
    <3>1. lease'[a] = [lease[a] EXCEPT !.st = "dormant"] BY <1>1, <2>2
    <3> QED BY <3>1, Numbers DEF Lease
  <2>3. CASE a \notin gone /\ a \notin IdleLeases BY <1>1, <2>3
  <2> QED BY <2>1, <2>2, <2>3
<1>7. \A a \in Leasable :
        /\ a \in Mapped \ IdleLeases => lease'[a] = lease[a] /\ lease'[a].st = "mapped"
        /\ a \notin Mapped \ IdleLeases => lease'[a].st # "mapped"
        /\ lease'[a].st # "free" => lease[a].st # "free"
        /\ lease'[a].last <= now
  <2> SUFFICES ASSUME NEW a \in Leasable
               PROVE  /\ a \in Mapped \ IdleLeases => lease'[a] = lease[a] /\ lease'[a].st = "mapped"
                      /\ a \notin Mapped \ IdleLeases => lease'[a].st # "mapped"
                      /\ lease'[a].st # "free" => lease[a].st # "free"
                      /\ lease'[a].last <= now
    OBVIOUS
  <2>1. lease[a].last <= now /\ 0 <= now BY Numbers DEF LeaseInv, Past
  <2>2. CASE a \in gone
    <3>1. lease'[a] = NoLease BY <1>1, <2>2
    <3>2. lease'[a].st = "free" /\ lease'[a].last = 0 BY <3>1 DEF NoLease
    <3>3. a \notin Mapped \ IdleLeases BY <1>2, <1>3, <1>4, <2>2
    <3> QED BY <2>1, <3>2, <3>3
  <2>3. CASE a \notin gone /\ a \in IdleLeases
    <3>1. lease'[a] = [lease[a] EXCEPT !.st = "dormant"] BY <1>1, <2>3
    <3>2. lease'[a].st = "dormant" /\ lease'[a].last = lease[a].last /\ lease[a].st = "mapped"
      BY <1>2, <2>3, <3>1, Numbers DEF Lease, Mapped
    <3> QED BY <2>1, <2>3, <3>2
  <2>4. CASE a \notin gone /\ a \notin IdleLeases
    BY <1>1, <2>1, <2>4 DEF Mapped
  <2> QED BY <2>2, <2>3, <2>4
<1>8. Mapped' = Mapped \ IdleLeases
  BY <1>4, <1>7 DEF Mapped
<1>9. Static' = Static /\ \A s \in Slots : Used(s)' = Used(s) BY <1>1 DEF Static, Used
<1>10. Linked' BY <1>1, <1>8 DEF LeaseInv, Linked
<1>11. Unclaimed' BY <1>1, <1>7 DEF LeaseInv, Unclaimed
<1>12. Singles' /\ StaticPairs' BY <1>1, <1>9 DEF LeaseInv, Singles, StaticPairs
<1>13. Asked' BY <1>1 DEF LeaseInv, Asked
<1>14. \A a \in Leasable : lease'[a].ce # NoSlot => a \in Mapped \ IdleLeases
  BY <1>2, <1>6 DEF LeaseInv, LeaseTracked
<1>15. LeaseTracked'
  <2>1. \A a \in Leasable : lease'[a].ce # NoSlot =>
          a \in Mapped' /\ cache'[lease'[a].ce].rep /\ cache'[lease'[a].ce].v4 = a
          /\ cache'[lease'[a].ce].v6 = lease'[a].host
    BY <1>1, <1>7, <1>8, <1>14 DEF LeaseInv, LeaseTracked
  <2>2. \A s \in Slots : Used(s)' /\ cache'[s].rep =>
          cache'[s].v4 \in Leasable /\ lease'[cache'[s].v4].ce = s
    BY <1>1, <1>6, <1>9 DEF LeaseInv, LeaseTracked
  <2> QED BY <2>1, <2>2 DEF LeaseTracked
<1>16. Past' BY <1>1, <1>7, <1>9 DEF LeaseInv, Past
<1>17. Recent'
  BY <1>1, <1>7, <1>14 DEF LeaseInv, Recent, Publishing
<1>18. LastUseKnown' 
  <2> SUFFICES ASSUME NEW a \in Mapped' PROVE touched[a] <= LastUse(a)'
    BY <1>1 DEF LastUseKnown
  <2>1. a \in Mapped /\ a \in Leasable /\ lease'[a] = lease[a] BY <1>4, <1>7, <1>8
  <2>2. LastUse(a)' = LastUse(a) BY <1>1, <2>1 DEF LastUse
  <2> QED BY <2>1, <2>2 DEF LeaseInv, LastUseKnown
<1> QED BY <1>10, <1>11, <1>12, <1>13, <1>15, <1>16, <1>17, <1>18 DEF LeaseInv

\* A lookup that gives up changes only what it remembers.
LEMMA RefuseKeeps ==
  ASSUME IInv, LeaseInv, NEW t \in Threads, pc[t] # "publish", Refuse(t)
  PROVE  LeaseInv'
<1>1. /\ UNCHANGED <<now, fileMaps, lease, linked4, cache, touched>>
      /\ pc' = [pc EXCEPT ![t] = "idle"] /\ job' = [job EXCEPT ![t] = NoJob]
  BY DEF Refuse, Leave
<1>2. pc'[t] = "idle" /\ \A u \in Threads \ {t} : pc'[u] = pc[u] /\ job'[u] = job[u]
  BY <1>1 DEF IInv, TypeOK
<1> QED BY <1>1, <1>2, JobsOnly

\* A static mapping answers with an address in its own IPv6 range, or in another's.
LEMMA AnswerStaticKeeps ==
  ASSUME IInv, LeaseInv, NEW t \in Threads, pc[t] # "publish", mapLock = NoThread,
         NEW m, NEW v \in V4, NEW h \in V6, AnswerStatic(t, m, v, h),
         \E n \in Static : h \in Map6[n]
  PROVE  LeaseInv'
<1>1. CASE Pair[m]
  <2>1. KeepLock(t, v, h, NoAddr) /\ UNCHANGED <<now, fileMaps, lease, linked4, cache, touched>>
    BY <1>1 DEF AnswerStatic
  <2>2. /\ pc'[t] = "publish" /\ job'[t].v6 = h
        /\ \A u \in Threads \ {t} : pc'[u] = pc[u] /\ job'[u] = job[u]
    BY <2>1, KeepLockStep
  <2> QED BY <2>1, <2>2, JobsOnly
<1>2. CASE ~Pair[m]
  <2>1. Refuse(t) BY <1>2 DEF AnswerStatic, Refuse
  <2> QED BY <2>1, RefuseKeeps
<1> QED BY <1>1, <1>2

\* A lookup, step by step.
LEMMA LookupKeeps ==
  ASSUME Embedding, IInv, LeaseInv, NEW t \in Threads, Lookup(t)
  PROVE  LeaseInv'
<1>1. CASE \E v \in Ask4 : Probe4(t, v)
  <2> PICK v \in Ask4 : Probe4(t, v) BY <1>1
  <2>1. CASE \E s \in Hits4(v) : Hit(t, s) BY <2>1, HitKeeps DEF Hits4
  <2>2. CASE Miss(t, "resolve4", [NoJob EXCEPT !.v4 = v])
    <3>1. /\ pc[t] = "idle" /\ pc'[t] = "resolve4"
          /\ \A u \in Threads \ {t} : pc'[u] = pc[u] /\ job'[u] = job[u]
      BY <2>2 DEF Miss, IInv, TypeOK
    <3> QED BY <2>2, <3>1, JobsOnly DEF Miss
  <2> QED BY <2>1, <2>2 DEF Probe4
<1>2. CASE \E h \in Ask6, dyn \in BOOLEAN : Probe6(t, h, dyn)
  <2> PICK h \in Ask6, dyn \in BOOLEAN : Probe6(t, h, dyn) BY <1>2
  <2>1. CASE \E s \in Hits6(h) : Hit(t, s) BY <2>1, HitKeeps DEF Hits6
  <2>2. CASE Miss(t, "resolve6", [NoJob EXCEPT !.v6 = h, !.dyn = dyn])
    <3>1. /\ pc[t] = "idle" /\ pc'[t] = "resolve6" /\ job'[t].v6 = h
          /\ \A u \in Threads \ {t} : pc'[u] = pc[u] /\ job'[u] = job[u]
      BY <2>2 DEF Miss, IInv, TypeOK, NoJob
    <3> QED BY <2>2, <3>1, JobsOnly DEF Miss
  <2> QED BY <2>1, <2>2 DEF Probe6
<1>3. CASE Resolve4(t)
  <2> DEFINE v == job[t].v4
  <2>1. v \in V4 /\ mapLock = NoThread /\ pc[t] # "publish"
    BY <1>3 DEF Resolve4, IInv, JobsOK
  <2>2. CASE Find4(v).type = "host" /\ AnswerHost(t, v)
    <3>1. v \in Mapped
      BY <2>2 DEF Find4, PoolMap, StaticMap, NoMap, IInv, LeasesOK
    <3> QED BY <2>1, <2>2, <3>1, AnswerHostKeeps
  <2>3. CASE /\ Find4(v).type = "static" /\ Forward(v) # NoAddr
             /\ AnswerStatic(t, Find4(v).map, v, Forward(v))
    <3>1. Forward(v) \in V6 BY <2>1, <2>3, ForwardType DEF IInv
    <3>2. Find4(v).map \in Static /\ Find4(v).map \in Maps /\ v \in Map4[Find4(v).map]
      BY <2>1, <2>3, Find4Static DEF IInv
    <3>3. Forward(v) = To6[Find4(v).map][v] BY <2>3 DEF Forward
    <3>4. \E n \in Conf \cup {Find4(v).map} : Forward(v) \in Map6[n]
      BY <2>3, <3>2, <3>3 DEF Embedding
    <3>5. \E n \in Static : Forward(v) \in Map6[n] BY <3>2, <3>4 DEF Static
    <3> QED BY <2>1, <2>3, <3>1, <3>5, AnswerStaticKeeps
  <2>4. CASE Refuse(t) BY <2>1, <2>4, RefuseKeeps
  <2> QED BY <1>3, <2>2, <2>3, <2>4 DEF Resolve4
<1>4. CASE Resolve6(t)
  <2> DEFINE h == job[t].v6
  <2>1. h \in V6 /\ mapLock = NoThread /\ pc[t] # "publish"
    BY <1>4 DEF Resolve6, IInv, JobsOK
  <2>2. CASE Find6(h).type = "host" /\ AnswerHost(t, Find6(h).addr)
    BY <2>1, <2>2, Find6Host, AnswerHostKeeps DEF IInv
  <2>3. CASE /\ Find6(h).type = "static" /\ Backward(h) # NoAddr
             /\ AnswerStatic(t, Find6(h).map, Backward(h), h)
    <3>1. Backward(h) \in V4 BY <2>1, <2>3, BackwardType DEF IInv
    <3>2. \E n \in Static : h \in Map6[n] BY <2>1, <2>3, Find6Static DEF IInv
    <3> QED BY <2>1, <2>3, <3>1, <3>2, AnswerStaticKeeps
  <2>4. CASE Refuse(t) BY <2>1, <2>4, RefuseKeeps
  <2>5. CASE Assign(t, h) BY <2>1, <2>5, AssignKeeps
  <2> QED BY <1>4, <2>2, <2>3, <2>4, <2>5 DEF Resolve6
<1>5. CASE Publish(t) BY <1>5, PublishKeeps
<1> QED BY <1>1, <1>2, <1>3, <1>4, <1>5 DEF Lookup

\* Every step keeps it, if map-files stay off the leases.
LEMMA LeaseNext ==
  ASSUME FilesLeaveLeases, Embedding, IInv, LeaseInv, [Next]_vars
  PROVE  LeaseInv'
<1>1. CASE \E t \in Threads : Lookup(t) BY <1>1, LookupKeeps
<1>2. CASE AgeCache
  <2> PICK S \in SUBSET {s \in Slots : Used(s)} : Evict(S) BY <1>2 DEF AgeCache
  <2>1. \A m \in fileMaps', a \in Leasable : Map4[m] # {a}
    BY <1>2 DEF AgeCache, LeaseInv, Unclaimed
  <2> QED BY <1>2, <2>1, EvictKeeps DEF AgeCache
<1>3. CASE AgePool BY <1>3, AgePoolKeeps
<1>4. CASE \E F \in FileVersions : Reload(F)
  <2> PICK F \in FileVersions : Reload(F) BY <1>4
  <2>1. \A m \in fileMaps', a \in Leasable : Map4[m] # {a} BY DEF Reload, FilesLeaveLeases
  <2> QED BY <2>1, EvictKeeps DEF Reload
<1>5. CASE Tick BY <1>5, TickKeeps
<1>6. CASE UNCHANGED vars
  <2>1. Mapped' = Mapped /\ Static' = Static /\ \A s \in Slots : Used(s)' = Used(s)
    BY <1>6 DEF vars, Mapped, Static, Used
  <2>2. Linked' /\ Unclaimed' /\ Singles' /\ StaticPairs' BY <1>6, <2>1
        DEF vars, LeaseInv, Linked, Unclaimed, Singles, StaticPairs
  <2>3. LeaseTracked' BY <1>6, <2>1 DEF vars, LeaseInv, LeaseTracked
  <2>4. Past' /\ Asked' BY <1>6, <2>1 DEF vars, LeaseInv, Past, Asked
  <2>5. Recent' BY <1>6 DEF vars, LeaseInv, Recent, Publishing
  <2>6. LastUseKnown' BY <1>6, <2>1 DEF vars, LeaseInv, LastUseKnown, LastUse
  <2> QED BY <2>2, <2>3, <2>4, <2>5, <2>6 DEF LeaseInv
<1> QED BY <1>1, <1>2, <1>3, <1>4, <1>5, <1>6 DEF Next

----------------------------------------------------------------------------
(* The theorems. *)

\* The types and tables of IInv with the leases and entries of LeaseInv hold always,
\* whatever the lookups, passes and reloads do to one another.
THEOREM LeasesInductive ==
  ASSUME FilesLeaveLeases, Embedding
  PROVE  Spec => [](IInv /\ LeaseInv)
<1>1. IInv /\ LeaseInv /\ [Next]_vars => (IInv /\ LeaseInv)' BY LeaseNext, NextIInv
<1>2. Init => IInv /\ LeaseInv BY LeaseInit, InitIInv
<1> QED BY <1>1, <1>2, PTL DEF Spec

\* A lease and its cache entry never lose each other.
THEOREM LeaseTrackedAlways ==
  ASSUME FilesLeaveLeases, Embedding PROVE Spec => []LeaseTracked
<1>1. IInv /\ LeaseInv => LeaseTracked BY DEF LeaseInv
<1>2. Spec => [](IInv /\ LeaseInv) BY LeasesInductive
<1> QED BY <1>1, <1>2, PTL

\* The last packet of a lease is on record.
THEOREM LastUseKnownAlways ==
  ASSUME FilesLeaveLeases, Embedding PROVE Spec => []LastUseKnown
<1>1. IInv /\ LeaseInv => LastUseKnown BY DEF LeaseInv
<1>2. Spec => [](IInv /\ LeaseInv) BY LeasesInductive
<1> QED BY <1>1, <1>2, PTL

\* The tables answer for a lease as for a mapping of its own.
LEMMA LeaseAnswered ==
  ASSUME IInv, LeaseInv, NEW a \in Mapped
  PROVE  /\ Find4(a) = HostMap(a) /\ Find6(lease[a].host) = HostMap(a)
         /\ Forward(a) = lease[a].host /\ Backward(lease[a].host) = a
<1>1. a \in linked4 BY DEF LeaseInv, Linked
<1>2. Find4(a) = HostMap(a) BY <1>1 DEF Find4
<1>3. Forward(a) = lease[a].host BY <1>2 DEF Forward, HostMap
<1>4. a \in HostOf(lease[a].host) BY DEF HostOf
<1>5. \A b \in HostOf(lease[a].host) : b = a BY DEF HostOf, Mapped, IInv, OneLease
<1>6. Find6(lease[a].host) = HostMap(CHOOSE b \in HostOf(lease[a].host) : TRUE)
  BY <1>4 DEF Find6
<1>7. (CHOOSE b \in HostOf(lease[a].host) : TRUE) = a BY <1>4, <1>5
<1>8. Find6(lease[a].host) = HostMap(a) BY <1>6, <1>7
<1>9. Backward(lease[a].host) = a BY <1>8 DEF Backward, HostMap
<1> QED BY <1>2, <1>3, <1>8, <1>9

\* Every lease translates both ways.
THEOREM RoundTripAlways ==
  ASSUME FilesLeaveLeases, Embedding PROVE Spec => []RoundTrip
<1>1. IInv /\ LeaseInv => RoundTrip BY LeaseAnswered DEF RoundTrip
<1>2. Spec => [](IInv /\ LeaseInv) BY LeasesInductive
<1> QED BY <1>1, <1>2, PTL

----------------------------------------------------------------------------
(* What a step does to the leases. *)

\* The lease table is as it was, but for cache entries.
Untouched ==
  \A a \in Leasable : /\ lease'[a].st = lease[a].st /\ lease'[a].host = lease[a].host
                      /\ lease'[a].last = lease[a].last
\* The lease of a is used now, and no other lease changes.
Refreshed(a) ==
  /\ lease'[a].st = lease[a].st /\ lease'[a].host = lease[a].host /\ lease'[a].last = now
  /\ \A b \in Leasable \ {a} : lease'[b] = lease[b]
\* Address a is h's from now on, and no other lease changes.
Given(a, h) ==
  /\ lease'[a].st = "mapped" /\ lease'[a].host = h /\ lease'[a].last = now
  /\ \A b \in Leasable \ {a} : lease'[b] = lease[b]

\* A lookup refreshes a lease, gives one to a host that asks, or leaves them alone.
LEMMA LookupLeases ==
  ASSUME IInv, LeaseInv, NEW t \in Threads, Lookup(t)
  PROVE  /\ now' = now
         /\ \/ Untouched
            \/ \E a \in Mapped : Refreshed(a)
            \/ \E h \in Ask6 : Find6(h) = NoMap /\ \E a \in Candidates(h) : Given(a, h)
<1>1. lease' = lease => Untouched BY DEF Untouched
<1>2. CASE \E v \in Ask4 : Probe4(t, v)
  BY <1>1, <1>2 DEF Probe4, Hit, Miss
<1>3. CASE \E h \in Ask6, dyn \in BOOLEAN : Probe6(t, h, dyn)
  BY <1>1, <1>3 DEF Probe6, Hit, Miss
<1>4. ASSUME NEW a \in Mapped, AnswerHost(t, a) PROVE now' = now /\ Refreshed(a)
  <2>1. a \in Leasable BY DEF Mapped
  <2>2. lease' = [lease EXCEPT ![a].last = now] /\ now' = now BY <1>4 DEF AnswerHost
  <2>3. lease'[a] = [lease[a] EXCEPT !.last = now]
        /\ \A b \in Leasable \ {a} : lease'[b] = lease[b]
    BY <2>1, <2>2 DEF IInv, TypeOK
  <2> QED BY <2>1, <2>2, <2>3, Numbers DEF Refreshed, Lease
<1>5. ASSUME NEW h \in V6, Assign(t, h) PROVE now' = now /\ \E a \in Candidates(h) : Given(a, h)
  <2>1. PICK a \in Candidates(h) :
          /\ lease' = [lease EXCEPT ![a] = [@ EXCEPT !.st = "mapped", !.host = h, !.last = now]]
          /\ now' = now
    BY <1>5 DEF Assign
  <2>2. a \in Leasable BY CandidateLinks
  <2>3. lease'[a] = [lease[a] EXCEPT !.st = "mapped", !.host = h, !.last = now]
        /\ \A b \in Leasable \ {a} : lease'[b] = lease[b]
    BY <2>1, <2>2 DEF IInv, TypeOK
  <2>4. Given(a, h) BY <2>2, <2>3, Numbers DEF Given, Lease
  <2> QED BY <2>1, <2>4
<1>6. CASE Resolve4(t)
  <2> DEFINE v == job[t].v4
  <2>1. CASE Find4(v).type = "host" /\ AnswerHost(t, v)
    <3>1. v \in Mapped
      BY <2>1 DEF Find4, PoolMap, StaticMap, NoMap, IInv, LeasesOK
    <3> QED BY <1>4, <2>1, <3>1
  <2>2. CASE \E m, h : AnswerStatic(t, m, v, h) BY <1>1, <2>2 DEF AnswerStatic
  <2>3. CASE Refuse(t) BY <1>1, <2>3 DEF Refuse
  <2> QED BY <1>6, <2>1, <2>2, <2>3 DEF Resolve4
<1>7. CASE Resolve6(t)
  <2> DEFINE h == job[t].v6
  <2>1. h \in V6 /\ h \in Ask6
    BY <1>7 DEF Resolve6, IInv, JobsOK, LeaseInv, Asked
  <2>2. CASE Find6(h).type = "host" /\ AnswerHost(t, Find6(h).addr)
    BY <1>4, <2>1, <2>2, Find6Host DEF IInv
  <2>3. CASE \E m, v : AnswerStatic(t, m, v, h) BY <1>1, <2>3 DEF AnswerStatic
  <2>4. CASE Refuse(t) BY <1>1, <2>4 DEF Refuse
  <2>5. CASE Find6(h) = NoMap /\ Assign(t, h) BY <1>5, <2>1, <2>5
  <2> QED BY <1>7, <2>2, <2>3, <2>4, <2>5 DEF Resolve6
<1>8. CASE Publish(t)
  <2> DEFINE Owned(c) == IF job[t].d # NoAddr THEN [lease EXCEPT ![job[t].d].ce = c] ELSE lease
  <2>1. now' = now /\ \E c : lease' = Owned(c)
    BY <1>8 DEF Publish
  <2>2. PICK c : lease' = Owned(c) BY <2>1
  <2>3. \A a \in Leasable : lease'[a] = lease[a] \/ lease'[a] = [lease[a] EXCEPT !.ce = c]
    BY <2>2 DEF IInv, TypeOK
  <2>4. Untouched BY <2>3, Numbers DEF Untouched, Lease
  <2> QED BY <2>1, <2>4
<1> QED BY <1>2, <1>3, <1>6, <1>7, <1>8 DEF Lookup

\* An eviction brings the last use of mapped leases up to date.
Updated(a) ==
  /\ lease[a].st = "mapped"
  /\ lease'[a].st = lease[a].st /\ lease'[a].host = lease[a].host
  /\ lease'[a].last \in lease[a].last .. now
\* It stays as it was, but for its cache entry.
Kept(a) ==
  /\ lease'[a].st = lease[a].st /\ lease'[a].host = lease[a].host
  /\ lease'[a].last = lease[a].last

\* An eviction does to each lease one of the two.
LEMMA EvictLeases ==
  ASSUME IInv, LeaseInv, MainFree, NEW S \in SUBSET {s \in Slots : Used(s)}, Evict(S),
         NEW a \in Leasable
  PROVE  Kept(a) \/ Updated(a)
<1>1. lease'[a] = IF lease[a].ce \in S
                  THEN [lease[a] EXCEPT !.last = cache[lease[a].ce].last, !.ce = NoSlot]
                  ELSE lease[a]
  BY ReportAll DEF Evict
<1>2. CASE lease[a].ce \in S
  <2>1. /\ lease'[a].st = lease[a].st /\ lease'[a].host = lease[a].host
        /\ lease'[a].last = cache[lease[a].ce].last
    BY <1>1, <1>2, Numbers DEF Lease
  <2>2. lease[a].ce # NoSlot /\ a \in Mapped BY <1>2, OwnUsed, Numbers DEF LeaseInv
  <2>3. cache[lease[a].ce].last \in Nat /\ cache[lease[a].ce].last <= now
    BY <1>2, Numbers DEF LeaseInv, Past
  <2>4. lease[a].last <= cache[lease[a].ce].last
    BY <2>2, NoPublisher DEF MainFree, LeaseInv, Recent
  <2>5. lease[a].last \in Nat /\ now \in Nat BY Numbers
  <2> QED BY <2>1, <2>2, <2>3, <2>4, <2>5 DEF Updated, Mapped
<1>3. CASE lease[a].ce \notin S BY <1>1, <1>3 DEF Kept
<1> QED BY <1>2, <1>3

\* A pass over the pool.
LEMMA AgePoolLeases ==
  ASSUME IInv, LeaseInv, AgePool, NEW a \in Leasable
  PROVE  \/ lease'[a] = lease[a]
         \/ /\ a \in IdleLeases
            /\ lease'[a].st = "dormant" /\ lease'[a].host = lease[a].host
            /\ lease'[a].last = lease[a].last
         \/ /\ a \in Dormant \cup IdleLeases /\ lease[a].last + MaxLease < now
            /\ lease'[a] = NoLease
<1> DEFINE gone == {b \in Dormant \cup IdleLeases : lease[b].last + MaxLease < now}
<1>1. lease'[a] = IF a \in gone THEN NoLease
                  ELSE IF a \in IdleLeases THEN [lease[a] EXCEPT !.st = "dormant"]
                  ELSE lease[a]
  BY DEF AgePool
<1>2. CASE a \in gone
  <2>1. a \in Dormant \cup IdleLeases /\ lease[a].last + MaxLease < now BY <1>2
  <2> HIDE DEF gone
  <2>2. lease'[a] = NoLease BY <1>1, <1>2
  <2> QED BY <2>1, <2>2
<1> HIDE DEF gone
<1>3. CASE a \notin gone /\ a \in IdleLeases
  <2>1. lease'[a] = [lease[a] EXCEPT !.st = "dormant"] BY <1>1, <1>3
  <2>2. /\ lease'[a].st = "dormant" /\ lease'[a].host = lease[a].host
        /\ lease'[a].last = lease[a].last
    BY <2>1, Numbers DEF Lease
  <2> QED BY <1>3, <2>2
<1>4. CASE a \notin gone /\ a \notin IdleLeases BY <1>1, <1>4
<1> QED BY <1>2, <1>3, <1>4

\* A mapped lease stays with its host, unless it is idle.
LEMMA MappedStays ==
  ASSUME IInv, LeaseInv, [Next]_vars, NEW a \in Mapped, a \notin IdleLeases
  PROVE  lease'[a].st = "mapped" /\ lease'[a].host = lease[a].host
<1>1. a \in Leasable /\ lease[a].st = "mapped" BY DEF Mapped
<1>2. CASE \E t \in Threads : Lookup(t)
  <2>1. CASE Untouched BY <1>1, <2>1 DEF Untouched
  <2>2. CASE \E b \in Mapped : Refreshed(b) BY <1>1, <2>2 DEF Refreshed
  <2>3. CASE \E h \in Ask6 : \E b \in Candidates(h) : Given(b, h)
    <3>1. PICK h \in Ask6 : \E b \in Candidates(h) : Given(b, h) BY <2>3
    <3>2. PICK b \in Candidates(h) : Given(b, h) BY <3>1
    <3>3. b # a BY CandidateLinks, Addresses
    <3> QED BY <1>1, <3>2, <3>3 DEF Given
  <2> QED BY <1>2, <2>1, <2>2, <2>3, LookupLeases
<1>3. CASE AgeCache
  <2> PICK S \in SUBSET {s \in Slots : Used(s)} : Evict(S) BY <1>3 DEF AgeCache
  <2>1. Kept(a) \/ Updated(a) BY <1>1, <1>3, EvictLeases DEF AgeCache
  <2> QED BY <1>1, <2>1 DEF Kept, Updated
<1>4. CASE \E F \in FileVersions : Reload(F)
  <2> PICK S \in SUBSET {s \in Slots : Used(s)} : MainFree /\ Evict(S) BY <1>4 DEF Reload
  <2>1. Kept(a) \/ Updated(a) BY <1>1, EvictLeases
  <2> QED BY <1>1, <2>1 DEF Kept, Updated
<1>5. CASE AgePool
  <2>1. a \notin Dormant BY <1>1 DEF Dormant
  <2> QED BY <1>1, <1>5, <2>1, AgePoolLeases
<1>6. CASE Tick \/ UNCHANGED vars BY <1>1, <1>6 DEF Tick, vars
<1> QED BY <1>2, <1>3, <1>4, <1>5, <1>6 DEF Next

\* A lease keeps its address until MinLease seconds after its last packet.
THEOREM LeaseProtectedAlways ==
  ASSUME FilesLeaveLeases, Embedding PROVE Spec => LeaseProtected
<1> DEFINE Keeps == \A a \in Leasable :
                      lease[a].st = "mapped" /\ touched[a] + MinLease >= now =>
                        lease'[a].st = "mapped" /\ lease'[a].host = lease[a].host
<1>1. ASSUME IInv, LeaseInv, [Next]_vars PROVE Keeps
  <2> SUFFICES ASSUME NEW a \in Leasable, lease[a].st = "mapped", touched[a] + MinLease >= now
               PROVE  lease'[a].st = "mapped" /\ lease'[a].host = lease[a].host
    OBVIOUS
  <2>1. a \in Mapped BY DEF Mapped
  <2>2. a \notin IdleLeases
    <3> SUFFICES ASSUME lease[a].ce = NoSlot, lease[a].last + MinLease < now PROVE FALSE
      BY DEF IdleLeases
    <3>1. touched[a] <= LastUse(a) BY <1>1, <2>1 DEF LeaseInv, LastUseKnown
    <3>2. LastUse(a) = lease[a].last BY DEF LastUse
    <3>3. MinLease \in Nat /\ touched[a] \in Nat /\ lease[a].last \in Nat /\ now \in Nat
      BY <1>1, Numbers, Durations
    <3> QED BY <3>1, <3>2, <3>3
  <2> QED BY <1>1, <2>1, <2>2, MappedStays
<1>2. IInv /\ LeaseInv /\ [Next]_vars => [Keeps]_vars BY <1>1
<1>3. Spec => [](IInv /\ LeaseInv) BY LeasesInductive
<1>4. Spec => [][Keeps]_vars BY <1>2, <1>3, PTL DEF Spec
<1> QED BY <1>4 DEF LeaseProtected

----------------------------------------------------------------------------
(* AddrMap implements LeaseTable. *)

\* What LeaseTable sees of a lease.
Row(a) == [st |-> lease[a].st, host |-> lease[a].host, last |-> lease[a].last]

\* A step that leaves every row alone is none of LeaseTable's.
LEMMA TableStutters ==
  ASSUME now' = now, \A a \in Leasable : Kept(a)
  PROVE  UNCHANGED Table!vars
<1>1. \A a \in Leasable : Row(a)' = Row(a) BY DEF Row, Kept
<1> QED BY <1>1 DEF Table!vars, Row

\* Refreshed leases.
LEMMA TableUses ==
  ASSUME now' = now, \A a \in Leasable : Kept(a) \/ Updated(a)
  PROVE  Table!Next
<1>1. ASSUME NEW a \in Leasable PROVE Row(a)' = Row(a) \/ Table!Use(a)
  <2>1. CASE Kept(a) BY <2>1 DEF Row, Kept
  <2>2. CASE Updated(a)
    <3>1. Row(a)' = [Row(a) EXCEPT !.last = lease'[a].last] BY <2>2 DEF Row, Updated
    <3> QED BY <2>2, <3>1 DEF Table!Use, Row, Updated
  <2> QED BY <2>1, <2>2
<1>2. Table!Uses BY <1>1 DEF Table!Uses, Row
<1> QED BY <1>2 DEF Table!Next

\* A lease that is given to a host is its own, a free one, or the longest idle.
LEMMA TableGives ==
  ASSUME IInv, LeaseInv, now' = now, NEW h \in Ask6, Find6(h) = NoMap,
         NEW a \in Candidates(h), Given(a, h)
  PROVE  Table!Next
<1> DEFINE tab == [b \in Leasable |-> [st |-> lease[b].st, host |-> lease[b].host,
                                       last |-> lease[b].last]]
<1>1. a \in Leasable /\ h \in V6 /\ HostOf(h) = {}
  BY CandidateLinks, Addresses DEF Find6, HostMap, StaticMap, NoMap
<1>2. tab' = [tab EXCEPT ![a] = [st |-> "mapped", host |-> h, last |-> now]]
  BY <1>1 DEF Given
<1>3. Table!Give(a, h) BY <1>2 DEF Table!Give
<1>4. CASE a \in Dormant /\ lease[a].host = h
  <2>1. tab[a].st = "dormant" /\ tab[a].host = h BY <1>1, <1>4 DEF Dormant
  <2> HIDE DEF tab
  <2>2. tab' = [tab EXCEPT ![a] = [st |-> "mapped", host |-> tab[a].host, last |-> now]]
    BY <1>2, <2>1
  <2>3. Table!Return(a) BY <2>1, <2>2 DEF Table!Return, Table!Give, tab
  <2> QED BY <1>1, <2>3 DEF Table!Next
<1>5. CASE \A b \in Dormant : lease[b].host # h
  <2>1. \A b \in Leasable : lease[b].st = "free" \/ lease[b].host # h
    BY <1>1, <1>5, Numbers DEF HostOf, Mapped, Dormant, Lease
  <2>2. Table!Known(h) = {} BY <2>1 DEF Table!Known
  <2>3. CASE a \in FreeUsable
    <3>1. Table!Grant(a, h) BY <1>1, <1>3, <2>2, <2>3 DEF Table!Grant, FreeUsable
    <3> QED BY <1>1, <3>1 DEF Table!Next
  <2>4. CASE a \in Oldest
    <3>1. a \in Dormant /\ \A b \in Dormant : lease[a].last <= lease[b].last
      BY <2>4 DEF Oldest
    <3>2. Table!TakeOver(a, h)
      BY <1>1, <1>3, <2>2, <3>1 DEF Table!TakeOver, Table!In, Dormant
    <3> QED BY <1>1, <3>2 DEF Table!Next
  <2> QED BY <1>5, <2>3, <2>4 DEF Candidates
<1> QED BY <1>4, <1>5 DEF Candidates

\* A pass over the pool: what rests was idle, what is freed was idle for too long.
LEMMA TableAges ==
  ASSUME IInv, LeaseInv, AgePool
  PROVE  Table!Next
<1>1. now' = now BY DEF AgePool
<1>2. ASSUME NEW a \in Leasable PROVE Row(a)' = Row(a) \/ Table!Rest(a) \/ Table!Expire(a)
  <2>1. CASE lease'[a] = lease[a] BY <2>1 DEF Row
  <2>2. CASE /\ a \in IdleLeases
             /\ lease'[a].st = "dormant" /\ lease'[a].host = lease[a].host
             /\ lease'[a].last = lease[a].last
    <3>1. Row(a)' = [Row(a) EXCEPT !.st = "dormant"] BY <2>2 DEF Row
    <3>2. Table!Idle(a) BY <2>2 DEF Table!Idle, IdleLeases, Mapped
    <3>3. Table!Rest(a) BY <3>1, <3>2 DEF Table!Rest, Row
    <3> QED BY <3>3
  <2>3. CASE /\ a \in Dormant \cup IdleLeases /\ lease[a].last + MaxLease < now
             /\ lease'[a] = NoLease
    <3>0. lease'[a].st = "free" /\ lease'[a].host = NoAddr /\ lease'[a].last = 0
      BY <2>3 DEF NoLease
    <3>1. Row(a)' = Table!Free BY <3>0 DEF Row, Table!Free
    <3>2. lease[a].st = "dormant" \/ Table!Idle(a)
      BY <2>3 DEF Table!Idle, IdleLeases, Mapped, Dormant
    <3>3. Table!Expire(a) BY <2>3, <3>1, <3>2 DEF Table!Expire, Row
    <3> QED BY <3>3
  <2> QED BY <2>1, <2>2, <2>3, AgePoolLeases
<1>3. Table!Ages BY <1>1, <1>2 DEF Table!Ages, Row
<1> QED BY <1>3 DEF Table!Next

\* Each step of the mapper is one of the table's, or none.
LEMMA TableStep ==
  ASSUME IInv, LeaseInv, [Next]_vars
  PROVE  [Table!Next]_(Table!vars)
<1>1. CASE \E t \in Threads : Lookup(t)
  <2>1. now' = now BY <1>1, LookupLeases
  <2>2. CASE Untouched BY <2>1, <2>2, TableStutters DEF Untouched, Kept
  <2>3. CASE \E a \in Mapped : Refreshed(a)
    <3> PICK a \in Mapped : Refreshed(a) BY <2>3
    <3>1. a \in Leasable /\ lease[a].st = "mapped" BY DEF Mapped
    <3>2. lease[a].last <= now /\ lease[a].last \in Nat /\ now \in Nat
      BY <3>1, Numbers DEF LeaseInv, Past
    <3>3. Updated(a) BY <3>1, <3>2 DEF Refreshed, Updated
    <3>4. \A b \in Leasable : Kept(b) \/ Updated(b) BY <3>3 DEF Refreshed, Kept
    <3> QED BY <2>1, <3>4, TableUses
  <2>4. CASE \E h \in Ask6 : Find6(h) = NoMap /\ \E a \in Candidates(h) : Given(a, h)
    BY <2>1, <2>4, TableGives
  <2> QED BY <1>1, <2>2, <2>3, <2>4, LookupLeases
<1>2. CASE AgeCache
  <2> PICK S \in SUBSET {s \in Slots : Used(s)} : Evict(S) BY <1>2 DEF AgeCache
  <2>1. \A a \in Leasable : Kept(a) \/ Updated(a) BY <1>2, EvictLeases DEF AgeCache
  <2> QED BY <1>2, <2>1, TableUses DEF AgeCache
<1>3. CASE \E F \in FileVersions : Reload(F)
  <2> PICK S \in SUBSET {s \in Slots : Used(s)} : MainFree /\ Evict(S) BY <1>3 DEF Reload
  <2>1. \A a \in Leasable : Kept(a) \/ Updated(a) BY EvictLeases
  <2> QED BY <1>3, <2>1, TableUses DEF Reload
<1>4. CASE AgePool BY <1>4, TableAges
<1>5. CASE Tick BY <1>5 DEF Tick, Table!Next, Table!Tick
<1>6. CASE UNCHANGED vars BY <1>6 DEF vars, Table!vars
<1> QED BY <1>1, <1>2, <1>3, <1>4, <1>5, <1>6 DEF Next

\* The mapper, with its threads, locks and cache, does to the pool only what LeaseTable
\* does: a lease is given, refreshed, rested and freed as one thread alone would.
THEOREM LeaseTableImplemented ==
  ASSUME FilesLeaveLeases, Embedding PROVE Spec => ImplementsLeaseTable
<1>1. Init => Table!Init BY DEF Init, NoLease, Table!Init, Table!Free
<1>2. IInv /\ LeaseInv /\ [Next]_vars => [Table!Next]_(Table!vars) BY TableStep
<1>3. Spec => [](IInv /\ LeaseInv) BY LeasesInductive
<1> QED BY <1>1, <1>2, <1>3, PTL DEF Spec, ImplementsLeaseTable, Table!Spec

----------------------------------------------------------------------------
(* The cache never disagrees with the tables behind it. *)

\* A map-file mapping with a leasable address covers the pool, and no mapping of
\* tayga.conf has the pool's range: insert_map4 would refuse it.
PoolApart ==
  /\ \A F \in FileVersions : \A m \in F : \A a \in Leasable :
       a \in Map4[m] => Pool \subseteq Map4[m]
  /\ \A m \in Conf : Map4[m] # Pool

\* What cache_pair says of a conversion: it pairs the addresses of the two ranges one
\* to one, where it does not refuse. A local_addr6 generated in the NAT64 prefix is in
\* no range of its own: this leaves such a configuration out.
OneToOne ==
  \A m \in Maps : Pair[m] =>
    /\ \A v \in Map4[m] : To6[m][v] # NoAddr =>
         To6[m][v] \in Map6[m] /\ From6[m][To6[m][v]] = v
    /\ \A h \in Map6[m] : From6[m][h] # NoAddr =>
         From6[m][h] \in Map4[m] /\ To6[m][From6[m][h]] = h
    /\ Kind[m] = "host" => \A v \in Map4[m] : Map4[m] = {v}

----------------------------------------------------------------------------
(* The inductive invariant, beside IInv and LeaseInv. *)

\* The tables answer with this pair, both ways.
Answers(v, h) == Forward(v) = h /\ Backward(h) = v

\* No table changes between the answer and its publication.
Promised == \A t \in Threads : pc[t] = "publish" => Answers(job[t].v4, job[t].v6)

\* A leased address was the pool's to give, and nothing more specific has come since.
Bare ==
  \A a \in Leasable : lease[a].st # "free" =>
    \A m \in Conf : a \in Map4[m] => Pool \subseteq Map4[m]

\* No mapping competes with the pool entry.
Apart ==
  /\ \A m \in Static : Map4[m] # Pool
  /\ \A m \in fileMaps, a \in Leasable : a \in Map4[m] => Pool \subseteq Map4[m]

\* The last two keep what is cached for an address true when it is leased.
CacheInv == CacheCoherent /\ Promised /\ Bare /\ Apart

----------------------------------------------------------------------------
(* What changes an answer. *)

\* An answer stays while both searches find what they found.
LEMMA PairStays ==
  ASSUME NEW v \in V4, NEW h \in V6, Answers(v, h),
         Find4(v)' = Find4(v), Find6(h)' = Find6(h),
         Find4(v).type = "host" => lease'[v].host = lease[v].host
  PROVE  Answers(v, h)'
<1>1. h # NoAddr /\ v # NoAddr BY Distinct
<1>2. Forward(v)' = h
  <2>1. CASE Find4(v).type = "host" BY <2>1 DEF Answers, Forward
  <2>2. CASE Find4(v).type # "host"
    <3>1. Find4(v).type = "static" /\ To6[Find4(v).map][v] = h
          /\ (Kind[Find4(v).map] = "subnet" => Find6(h) = Find4(v))
      BY <1>1, <2>2 DEF Answers, Forward
    <3> QED BY <3>1 DEF Forward
  <2> QED BY <2>1, <2>2
<1>3. Backward(h)' = v
  <2>1. CASE Find6(h).type = "host" BY <2>1 DEF Answers, Backward
  <2>2. CASE Find6(h).type # "host"
    <3>1. Find6(h).type = "static" /\ From6[Find6(h).map][h] = v
          /\ (Kind[Find6(h).map] # "host" => Find4(v) = Find6(h))
      BY <1>1, <2>2 DEF Answers, Backward
    <3> QED BY <3>1 DEF Backward
  <2> QED BY <2>1, <2>2
<1> QED BY <1>2, <1>3 DEF Answers

\* The searches do not see a lease's last use or cache entry.
LEMMA QuietTables ==
  ASSUME IInv, UNCHANGED <<fileMaps, linked4>>,
         \A b \in Leasable : lease'[b].st = lease[b].st /\ lease'[b].host = lease[b].host,
         NEW v \in V4, NEW h \in V6, Answers(v, h)
  PROVE  Answers(v, h)'
<1>1. Mapped' = Mapped /\ Static' = Static BY DEF Mapped, Static
<1>2. HostOf(h)' = HostOf(h) /\ Cover4(v)' = Cover4(v) /\ Cover6(h)' = Cover6(h)
  <2>1. \A b \in Mapped : lease'[b].host = lease[b].host BY DEF Mapped
  <2> QED BY <1>1, <2>1 DEF HostOf, Cover4, Cover6
<1>3. Find6(h)' = Find6(h) BY <1>2 DEF Find6
<1>4. Find4(v)' = Find4(v) BY <1>2 DEF Find4, Inside
<1>5. Find4(v).type = "host" => v \in Leasable
  BY DEF Find4, PoolMap, StaticMap, NoMap, IInv, TypeOK
<1> QED BY <1>3, <1>4, <1>5, PairStays

\* A mapping that pairs one to one answers both ways, if IPv4 finds it or must.
LEMMA StaticAnswers ==
  ASSUME IInv, Apart, OneToOne, NEW m \in Static, Pair[m], m \in Maps,
         NEW v \in V4, v \in Map4[m], NEW h \in V6, h \in Map6[m],
         To6[m][v] = h, From6[m][h] = v,
         Find4(v) = StaticMap(m) \/ Kind[m] = "host"
  PROVE  Answers(v, h)
<1>1. HostOf(h) = {} BY DEF HostOf, IInv, TablesDisjoint
<1>2. Cover6(h) = {m} BY DEF Cover6, IInv, TablesDisjoint, Consistent
<1>3. Find6(h) = StaticMap(m)
  <2>1. (CHOOSE n \in Cover6(h) : TRUE) = m BY <1>2
  <2> QED BY <1>1, <1>2, <2>1 DEF Find6
<1>4. Find4(v) = StaticMap(m)
  <2> SUFFICES ASSUME Kind[m] = "host" PROVE Find4(v) = StaticMap(m) OBVIOUS
  <2>1. Map4[m] = {v} BY DEF OneToOne
  <2>2. v \notin linked4 BY <2>1 DEF IInv, TablesDisjoint
  <2>3. ~ (Pool \subseteq Map4[m])
    <3>1. Map4[m] # Pool BY DEF Apart
    <3>2. Pool \subseteq {v} => Pool = {v} BY Addresses
    <3> QED BY <2>1, <3>1, <3>2
  <2>4. m \in Cover4(v) /\ m \in Inside(v) BY <2>3 DEF Cover4, Inside
  <2>5. \A n \in Cover4(v) : Map4[m] \subseteq Map4[n] BY <2>1 DEF Cover4
  <2>6. ASSUME NEW n \in Cover4(v), Map4[n] \subseteq Map4[m] PROVE n = m
    <3>1. n \in Static /\ v \in Map4[n] BY DEF Cover4
    <3>2. Map4[n] = Map4[m] BY <2>1, <2>6, <3>1
    <3> QED BY <3>1, <3>2 DEF IInv, TablesDisjoint, Consistent
  <2>7. Longest(Cover4(v)) = m BY <2>4, <2>5, <2>6 DEF Longest
  <2> QED BY <2>2, <2>4, <2>7 DEF Find4
<1>5. Forward(v) = h BY <1>3, <1>4 DEF Forward, StaticMap
<1>6. Backward(h) = v BY <1>3, <1>4 DEF Backward, StaticMap
<1> QED BY <1>5, <1>6 DEF Answers

----------------------------------------------------------------------------
(* The steps. *)

\* A step that leaves the answers alone and publishes, if anything, one of them.
LEMMA QuietStep ==
  ASSUME IInv, IInv', CacheInv, UNCHANGED <<fileMaps, linked4>>,
         \A b \in Leasable : lease'[b].st = lease[b].st /\ lease'[b].host = lease[b].host,
         \A s \in Slots : Used(s)' =>
           \/ \E r \in Slots : /\ Used(r) /\ cache'[s].v4 = cache[r].v4
                               /\ cache'[s].v6 = cache[r].v6
           \/ \E t \in Threads : /\ pc[t] = "publish" /\ cache'[s].v4 = job[t].v4
                                 /\ cache'[s].v6 = job[t].v6,
         \A t \in Threads : pc'[t] = "publish" =>
           \/ pc[t] = "publish" /\ job'[t] = job[t]
           \/ Answers(job'[t].v4, job'[t].v6)
  PROVE  CacheInv'
<1>1. \A v \in V4, h \in V6 : Answers(v, h) => Answers(v, h)' BY QuietTables
<1>2. CacheCoherent'
  <2> SUFFICES ASSUME NEW s \in Slots, Used(s)'
               PROVE  Answers(cache[s].v4, cache[s].v6)'
    BY DEF CacheCoherent, Answers
  <2>1. cache'[s].v4 \in V4 /\ cache'[s].v6 \in V6
    BY DEF IInv, TypeOK, Used, Entry
  <2>2. Answers(cache'[s].v4, cache'[s].v6)
    BY DEF CacheInv, CacheCoherent, Promised, Answers
  <2>3. PICK v \in V4, h \in V6 : v = cache'[s].v4 /\ h = cache'[s].v6 BY <2>1
  <2>4. Answers(v, h)' BY <1>1, <2>2, <2>3
  <2> QED BY <2>3, <2>4
<1>3. Promised'
  <2> SUFFICES ASSUME NEW t \in Threads, pc'[t] = "publish"
               PROVE  Answers(job[t].v4, job[t].v6)'
    BY DEF Promised
  <2>1. job'[t].v4 \in V4 /\ job'[t].v6 \in V6 BY DEF IInv, JobsOK
  <2>2. Answers(job'[t].v4, job'[t].v6) BY DEF CacheInv, Promised
  <2>3. PICK v \in V4, h \in V6 : v = job'[t].v4 /\ h = job'[t].v6 BY <2>1
  <2>4. Answers(v, h)' BY <1>1, <2>2, <2>3
  <2> QED BY <2>3, <2>4
<1>4. Bare' /\ Apart' BY DEF CacheInv, Bare, Apart, Static
<1> QED BY <1>2, <1>3, <1>4 DEF CacheInv

\* A lookup answers from a lease: with the pair of the lease.
LEMMA HostAnswered ==
  ASSUME IInv, IInv', LeaseInv, CacheInv, NEW t \in Threads, mapLock = NoThread,
         NEW a \in Mapped, AnswerHost(t, a)
  PROVE  CacheInv'
<1>1. a \in Leasable BY DEF Mapped
<1>2. /\ UNCHANGED <<fileMaps, linked4, cache>>
      /\ lease' = [lease EXCEPT ![a].last = now]
      /\ pc' = [pc EXCEPT ![t] = "publish"]
      /\ job' = [job EXCEPT ![t] = [@ EXCEPT !.v4 = a, !.v6 = lease[a].host, !.d = a]]
  BY DEF AnswerHost, KeepLock
<1>3. \A b \in Leasable : lease'[b].st = lease[b].st /\ lease'[b].host = lease[b].host
  <2>1. \A b \in Leasable : lease'[b] = lease[b] \/ lease'[b] = [lease[b] EXCEPT !.last = now]
    BY <1>1, <1>2 DEF IInv, TypeOK
  <2> QED BY <2>1, Numbers DEF Lease
<1>4. Answers(job'[t].v4, job'[t].v6)
  <2>1. job'[t].v4 = a /\ job'[t].v6 = lease[a].host BY <1>2 DEF IInv, TypeOK, Job
  <2> QED BY <2>1, LeaseAnswered DEF Answers
<1>5. \A u \in Threads : pc'[u] = "publish" =>
        \/ pc[u] = "publish" /\ job'[u] = job[u]
        \/ Answers(job'[u].v4, job'[u].v6)
  BY <1>2, <1>4 DEF IInv, TypeOK
<1>6. \A s \in Slots : Used(s)' = Used(s) BY <1>2 DEF Used
<1> QED BY <1>2, <1>3, <1>5, <1>6, QuietStep

\* A lookup answers from a static mapping: with a pair both lists agree on.
LEMMA StaticAnswered ==
  ASSUME IInv, IInv', LeaseInv, CacheInv, NEW t \in Threads, pc[t] # "publish",
         NEW m, NEW v \in V4, NEW h \in V6, AnswerStatic(t, m, v, h),
         Pair[m] => Answers(v, h)
  PROVE  CacheInv'
<1>1. UNCHANGED <<fileMaps, linked4, lease, cache>> BY DEF AnswerStatic
<1>2. \A u \in Threads \ {t} : pc'[u] = pc[u] /\ job'[u] = job[u]
  BY DEF AnswerStatic, KeepLock, Leave, IInv, TypeOK
<1>3. pc'[t] = "publish" => Answers(job'[t].v4, job'[t].v6)
  <2>1. CASE Pair[m]
    <3>1. job' = [job EXCEPT ![t] = [@ EXCEPT !.v4 = v, !.v6 = h, !.d = NoAddr]]
      BY <2>1 DEF AnswerStatic, KeepLock
    <3>2. job'[t].v4 = v /\ job'[t].v6 = h BY <3>1 DEF IInv, TypeOK, Job
    <3> QED BY <2>1, <3>2
  <2>2. CASE ~ Pair[m]
    <3>1. pc' = [pc EXCEPT ![t] = "idle"] BY <2>2 DEF AnswerStatic, Leave
    <3> QED BY <3>1 DEF IInv, TypeOK
  <2> QED BY <2>1, <2>2
<1>4. \A s \in Slots : Used(s)' = Used(s) BY <1>1 DEF Used
<1> QED BY <1>1, <1>2, <1>3, <1>4, QuietStep

\* An address is given: it was the pool's, so no pair of it was cached; nobody knew the
\* host, so none of the host either.
LEMMA AddressGiven ==
  ASSUME IInv, LeaseInv, CacheInv, NEW t \in Threads, mapLock = NoThread,
         NEW h \in V6, Find6(h) = NoMap, Assign(t, h)
  PROVE  CacheInv'
<1> PICK a \in Candidates(h) :
      /\ lease' = [lease EXCEPT ![a] = [@ EXCEPT !.st = "mapped", !.host = h, !.last = now]]
      /\ linked4' = IF Links(a) THEN linked4 \cup {a} ELSE linked4
      /\ KeepLock(t, a, h, a)
      /\ UNCHANGED <<fileMaps, cache>>
  BY DEF Assign
<1>1. a \in Leasable /\ a \notin Mapped /\ linked4' = linked4 \cup {a} BY CandidateLinks
<1>2. /\ lease'[a] = [lease[a] EXCEPT !.st = "mapped", !.host = h, !.last = now]
      /\ \A b \in Leasable \ {a} : lease'[b] = lease[b]
  BY <1>1 DEF IInv, TypeOK
<1>3. lease'[a].st = "mapped" /\ lease'[a].host = h BY <1>1, <1>2, Numbers DEF Lease
<1>4. Inside(a) = {}
  <2>1. CASE a \in FreeUsable
    BY <2>1 DEF FreeUsable, Find4, HostMap, PoolMap, StaticMap, NoMap
  <2>2. CASE a \in Dormant
    BY <1>1, <2>2 DEF Dormant, CacheInv, Bare, Apart, Inside, Cover4, Static
  <2> QED BY <2>1, <2>2 DEF Candidates, Oldest
<1>5. a \in Pool /\ a \in V4 /\ a \notin linked4
  BY <1>1, Addresses DEF Leasable, LeaseInv, Linked
<1>6. Forward(a) = NoAddr
  <2>1. Find4(a) = PoolMap BY <1>4, <1>5 DEF Find4
  <2> QED BY <2>1 DEF Forward, PoolMap
<1>7. HostOf(h) = {} /\ Backward(h) = NoAddr
  <2>1. HostOf(h) = {} BY DEF Find6, HostMap, NoMap
  <2> QED BY <2>1 DEF Backward, NoMap
<1>8. Mapped' = Mapped \cup {a} BY <1>1, <1>2, <1>3 DEF Mapped
<1>9. \A k \in V6 : HostOf(k)' = IF k = h THEN {a} ELSE HostOf(k)
  <2> TAKE k \in V6
  <2>1. \A b \in Mapped : lease'[b].host = lease[b].host BY <1>1, <1>2 DEF Mapped
  <2>2. HostOf(k)' = {b \in Mapped \cup {a} : lease'[b].host = k} BY <1>8 DEF HostOf
  <2> QED BY <1>1, <1>3, <1>7, <2>1, <2>2 DEF HostOf
<1>10. ASSUME NEW v \in V4, NEW k \in V6, Answers(v, k) PROVE Answers(v, k)'
  <2>1. v # a /\ k # h BY <1>6, <1>7, <1>10, Distinct DEF Answers
  <2>2. Static' = Static BY DEF Static
  <2>3. Find4(v)' = Find4(v) BY <1>1, <2>1, <2>2 DEF Find4, Inside, Cover4
  <2>4. Find6(k)' = Find6(k)
    <3>1. HostOf(k)' = HostOf(k) BY <1>9, <2>1
    <3>2. Cover6(k)' = Cover6(k) BY <2>2 DEF Cover6
    <3> QED BY <3>1, <3>2 DEF Find6
  <2>5. Find4(v).type = "host" => v \in Leasable
    BY DEF Find4, PoolMap, StaticMap, NoMap, IInv, TypeOK
  <2> QED BY <1>2, <1>10, <2>1, <2>3, <2>4, <2>5, PairStays
<1>11. Answers(a, h)'
  <2>1. Find4(a)' = HostMap(a) BY <1>1 DEF Find4
  <2>2. Forward(a)' = h BY <1>3, <2>1 DEF Forward, HostMap
  <2>3. HostOf(h)' = {a} BY <1>9
  <2>4. Find6(h)' = HostMap(CHOOSE b \in HostOf(h)' : TRUE) BY <2>3 DEF Find6
  <2>5. (CHOOSE b \in HostOf(h)' : TRUE) = a BY <2>3
  <2>6. Find6(h)' = HostMap(a) BY <2>4, <2>5
  <2> QED BY <2>2, <2>6 DEF Answers, Backward, HostMap
<1>12. CacheCoherent'
  <2> SUFFICES ASSUME NEW s \in Slots, Used(s)'
               PROVE  Answers(cache[s].v4, cache[s].v6)'
    BY DEF CacheCoherent, Answers
  <2>1. Used(s) /\ cache' = cache BY DEF Used
  <2>2. Answers(cache[s].v4, cache[s].v6) BY <2>1 DEF CacheInv, CacheCoherent, Answers
  <2>3. PICK v \in V4, k \in V6 : v = cache[s].v4 /\ k = cache[s].v6 BY <2>1, Numbers
  <2>4. Answers(v, k)' BY <1>10, <2>2, <2>3
  <2> QED BY <2>1, <2>3, <2>4
<1>13. Promised'
  <2> SUFFICES ASSUME NEW u \in Threads, pc'[u] = "publish"
               PROVE  Answers(job[u].v4, job[u].v6)'
    BY DEF Promised
  <2>1. u = t BY Distinct DEF KeepLock, IInv, LockHeld, TypeOK
  <2>2. job' = [job EXCEPT ![t] = [@ EXCEPT !.v4 = a, !.v6 = h, !.d = a]] BY DEF KeepLock
  <2>3. job'[t].v4 = a /\ job'[t].v6 = h BY <2>2 DEF IInv, TypeOK, Job
  <2> QED BY <1>11, <2>1, <2>3
<1>14. Bare'
  <2> SUFFICES ASSUME NEW b \in Leasable, lease'[b].st # "free",
                      NEW m \in Conf, b \in Map4[m]
               PROVE  Pool \subseteq Map4[m]
    BY DEF Bare
  <2>1. CASE b = a BY <1>4, <2>1 DEF Inside, Cover4, Static
  <2>2. CASE b # a BY <1>2, <2>2 DEF CacheInv, Bare
  <2> QED BY <2>1, <2>2
<1>15. Apart' BY DEF CacheInv, Apart, Static
<1> QED BY <1>12, <1>13, <1>14, <1>15 DEF CacheInv

\* A pass over the pool moves leases without a cache entry: no cached pair is theirs.
LEMMA PoolAged ==
  ASSUME IInv, LeaseInv, CacheInv, AgePool
  PROVE  CacheInv'
<1>1. /\ MainFree /\ linked4' = linked4 \ IdleLeases
      /\ UNCHANGED <<fileMaps, cache, pc, job>>
  BY DEF AgePool
<1>2. \A b \in Leasable : lease[b].st = "mapped" /\ b \notin IdleLeases => lease'[b] = lease[b]
  BY DEF AgePool, Dormant
<1>3. \A b \in Leasable : lease'[b].st = "mapped" => b \in Mapped /\ b \notin IdleLeases
  <2> SUFFICES ASSUME NEW b \in Leasable, lease'[b].st = "mapped"
               PROVE  b \in Mapped /\ b \notin IdleLeases
    OBVIOUS
  <2>1. \/ lease'[b] = NoLease
        \/ lease'[b] = [lease[b] EXCEPT !.st = "dormant"]
        \/ lease'[b] = lease[b] /\ b \notin IdleLeases
    BY DEF AgePool
  <2> QED BY <2>1, Numbers DEF NoLease, Lease, Mapped
<1>4. ASSUME NEW s \in Slots, Used(s) PROVE Answers(cache[s].v4, cache[s].v6)'
  <2>0. PICK v \in V4, h \in V6 : v = cache[s].v4 /\ h = cache[s].v6 BY <1>4, Numbers
  <2>1. Answers(v, h) BY <1>4, <2>0 DEF CacheInv, CacheCoherent, Answers
  <2>2. \A b \in Mapped : b = v \/ lease[b].host = h => b \notin IdleLeases
    <3> SUFFICES ASSUME NEW b \in Mapped, b = v \/ lease[b].host = h
                 PROVE  lease[b].ce # NoSlot
      BY DEF IdleLeases
    <3>1. b = v /\ lease[b].host = h
      BY <2>1, LeaseAnswered DEF Answers
    <3>2. cache[s].rep
      BY <1>4, <2>0, <3>1, StaticNotLeased DEF LeaseInv, StaticPairs
    <3>3. lease[b].ce = s BY <1>4, <2>0, <3>1, <3>2 DEF LeaseInv, LeaseTracked
    <3> QED BY <3>3, Numbers
  <2>3. Static' = Static BY <1>1 DEF Static
  <2>4. Find4(v)' = Find4(v)
    <3>1. v \in linked4 => v \notin IdleLeases BY <2>2 DEF LeaseInv, Linked
    <3>2. v \in linked4' <=> v \in linked4 BY <1>1, <3>1
    <3> QED BY <2>3, <3>2 DEF Find4, Inside, Cover4
  <2>5. Find6(h)' = Find6(h)
    <3>1. HostOf(h)' = HostOf(h) BY <1>2, <1>3, <2>2 DEF HostOf, Mapped
    <3>2. Cover6(h)' = Cover6(h) BY <2>3 DEF Cover6
    <3> QED BY <3>1, <3>2 DEF Find6
  <2>6. Find4(v).type = "host" => lease'[v].host = lease[v].host
    <3>1. Find4(v).type = "host" => v \in Mapped
      BY DEF Find4, PoolMap, StaticMap, NoMap, LeaseInv, Linked
    <3> QED BY <1>2, <2>2, <3>1 DEF Mapped
  <2>7. Answers(v, h)' BY <2>1, <2>4, <2>5, <2>6, PairStays
  <2> QED BY <1>1, <2>0, <2>7
<1>5. CacheCoherent' BY <1>1, <1>4 DEF CacheCoherent, Answers, Used
<1>6. Promised' BY <1>1, Distinct DEF Promised, MainFree, IInv, LockHeld
<1>7. Bare'
  <2>1. \A b \in Leasable : lease'[b].st # "free" => lease[b].st # "free"
    BY AgePoolLeases DEF NoLease, IdleLeases, Mapped
  <2> QED BY <2>1 DEF CacheInv, Bare
<1>8. Apart' BY <1>1 DEF CacheInv, Apart, Static
<1> QED BY <1>5, <1>6, <1>7, <1>8 DEF CacheInv

\* A reload empties the cache with both locks held.
LEMMA FileReloaded ==
  ASSUME PoolApart, IInv, CacheInv, NEW F \in FileVersions, Reload(F)
  PROVE  CacheInv'
<1> PICK S \in SUBSET {s \in Slots : Used(s)} :
      /\ Evict(S) /\ S = {s \in Slots : Used(s)}
  BY DEF Reload
<1>1. \A s \in Slots : ~ Used(s)' BY DEF Evict, Used
<1>2. CacheCoherent' BY <1>1 DEF CacheCoherent
<1>3. Promised' BY Distinct DEF Reload, MainFree, Promised, IInv, LockHeld
<1>4. Bare'
  <2>1. \A b \in Leasable : lease'[b].st = lease[b].st BY EvictStep
  <2> QED BY <2>1 DEF CacheInv, Bare
<1>5. Apart'
  <2>1. \A m \in fileMaps' : m \in F /\ Map4[m] # Pool BY DEF Reload, Conflicts
  <2> QED BY <2>1 DEF Apart, Static, PoolApart
<1> QED BY <1>2, <1>3, <1>4, <1>5 DEF CacheInv

\* A lookup hits, misses, answers or publishes.
LEMMA LookedUp ==
  ASSUME OneToOne, IInv, IInv', LeaseInv, CacheInv, NEW t \in Threads, Lookup(t)
  PROVE  CacheInv'
<1>1. ASSUME NEW s \in Slots, Used(s), Hit(t, s) PROVE CacheInv'
  <2>1. /\ cache' = [cache EXCEPT ![s].last = now]
        /\ UNCHANGED <<fileMaps, lease, linked4, pc, job>>
    BY <1>1 DEF Hit
  <2>2. \A r \in Slots : cache'[r] = cache[r] \/ (r = s /\ cache'[r] = [cache[r] EXCEPT !.last = now])
    BY <2>1 DEF IInv, TypeOK
  <2>3. \A r \in Slots : Used(r)' =>
          Used(r) /\ cache'[r].v4 = cache[r].v4 /\ cache'[r].v6 = cache[r].v6
    BY <1>1, <2>2, Numbers DEF Used, Entry
  <2> QED BY <2>1, <2>3, QuietStep
<1>2. ASSUME NEW where, where # "publish", NEW j, Miss(t, where, j) PROVE CacheInv'
  <2>1. /\ UNCHANGED <<fileMaps, lease, linked4, cache>>
        /\ pc' = [pc EXCEPT ![t] = where] /\ job' = [job EXCEPT ![t] = j]
    BY <1>2 DEF Miss
  <2>2. \A u \in Threads : pc'[u] = "publish" => pc[u] = "publish" /\ job'[u] = job[u]
    BY <1>2, <2>1 DEF IInv, TypeOK
  <2>3. \A s \in Slots : Used(s)' = Used(s) BY <2>1 DEF Used
  <2> QED BY <2>1, <2>2, <2>3, QuietStep
<1>3. ASSUME Refuse(t) PROVE CacheInv'
  <2>1. /\ UNCHANGED <<fileMaps, lease, linked4, cache>>
        /\ pc' = [pc EXCEPT ![t] = "idle"] /\ job' = [job EXCEPT ![t] = NoJob]
    BY <1>3 DEF Refuse, Leave
  <2>2. \A u \in Threads : pc'[u] = "publish" => pc[u] = "publish" /\ job'[u] = job[u]
    BY <2>1 DEF IInv, TypeOK
  <2>3. \A s \in Slots : Used(s)' = Used(s) BY <2>1 DEF Used
  <2> QED BY <2>1, <2>2, <2>3, QuietStep
<1>4. CASE \E v \in Ask4 : Probe4(t, v)
  BY <1>1, <1>2, <1>4 DEF Probe4, Hits4
<1>5. CASE \E h \in Ask6, dyn \in BOOLEAN : Probe6(t, h, dyn)
  BY <1>1, <1>2, <1>5 DEF Probe6, Hits6
<1>6. CASE Resolve4(t)
  <2> DEFINE v == job[t].v4
             m == Find4(v).map
             h == Forward(v)
  <2>1. pc[t] = "resolve4" /\ mapLock = NoThread /\ v \in V4
    BY <1>6 DEF Resolve4, IInv, JobsOK
  <2>2. CASE Find4(v).type = "host" /\ AnswerHost(t, v)
    <3>1. v \in Mapped
      BY <2>2 DEF Find4, PoolMap, StaticMap, NoMap, IInv, LeasesOK
    <3> QED BY <2>1, <2>2, <3>1, HostAnswered
  <2>3. CASE Find4(v).type = "static" /\ h # NoAddr /\ AnswerStatic(t, m, v, h)
    <3>1. h \in V6 BY <2>1, <2>3, ForwardType DEF IInv
    <3>2. m \in Static /\ m \in Maps /\ v \in Map4[m]
      BY <2>1, <2>3, Find4Static DEF IInv
    <3>3. To6[m][v] = h BY <2>3 DEF Forward
    <3>4. Find4(v) = StaticMap(m)
      BY <2>3 DEF Find4, HostMap, PoolMap, StaticMap, NoMap
    <3>5. ASSUME Pair[m] PROVE Answers(v, h)
      <4>1. h \in Map6[m] /\ From6[m][h] = v BY <2>3, <3>2, <3>3, <3>5 DEF OneToOne
      <4> HIDE DEF v, m, h
      <4> QED BY <2>1, <3>1, <3>2, <3>3, <3>4, <3>5, <4>1, StaticAnswers DEF CacheInv
    <3> QED BY <2>1, <2>3, <3>1, <3>5, StaticAnswered
  <2>4. CASE Refuse(t) BY <1>3, <2>4
  <2> QED BY <1>6, <2>2, <2>3, <2>4 DEF Resolve4
<1>7. CASE Resolve6(t)
  <2> DEFINE h == job[t].v6
             m == Find6(h).map
             v == Backward(h)
  <2>1. pc[t] = "resolve6" /\ mapLock = NoThread /\ h \in V6
    BY <1>7 DEF Resolve6, IInv, JobsOK
  <2>2. CASE Find6(h).type = "host" /\ AnswerHost(t, Find6(h).addr)
    <3>1. Find6(h).addr \in Mapped BY <2>1, <2>2, Find6Host DEF IInv
    <3> QED BY <2>1, <2>2, <3>1, HostAnswered
  <2>3. CASE Find6(h).type = "static" /\ v # NoAddr /\ AnswerStatic(t, m, v, h)
    <3>1. v \in V4 BY <2>1, <2>3, BackwardType DEF IInv
    <3>2. m \in Static /\ m \in Maps /\ h \in Map6[m]
      BY <2>1, <2>3, Find6Static DEF IInv
    <3>3. From6[m][h] = v BY <2>3 DEF Backward
    <3>4. Kind[m] # "host" => Find4(v) = Find6(h) BY <2>3, <3>3 DEF Backward
    <3>5. Find6(h) = StaticMap(m) BY <2>3 DEF Find6, HostMap, StaticMap, NoMap
    <3>6. ASSUME Pair[m] PROVE Answers(v, h)
      <4>1. v \in Map4[m] /\ To6[m][v] = h BY <2>3, <3>2, <3>3, <3>6 DEF OneToOne
      <4> HIDE DEF v, m, h
      <4> QED BY <2>1, <3>1, <3>2, <3>3, <3>4, <3>5, <3>6, <4>1, StaticAnswers DEF CacheInv
    <3> QED BY <2>1, <2>3, <3>1, <3>6, StaticAnswered
  <2>4. CASE Refuse(t) BY <1>3, <2>4
  <2>5. CASE Find6(h) = NoMap /\ Assign(t, h) BY <2>1, <2>5, AddressGiven
  <2> QED BY <1>7, <2>2, <2>3, <2>4, <2>5 DEF Resolve6
<1>8. CASE Publish(t)
  <2> DEFINE v == job[t].v4
             h == job[t].v6
             d == job[t].d
  <2>1. /\ pc[t] = "publish" /\ UNCHANGED <<fileMaps, linked4>>
        /\ pc' = [pc EXCEPT ![t] = "idle"] /\ job' = [job EXCEPT ![t] = NoJob]
        /\ \E c : lease' = IF d # NoAddr THEN [lease EXCEPT ![d].ce = c] ELSE lease
        /\ \/ cache' = cache
           \/ \E s \in Slots : cache' = [cache EXCEPT ![s] = Line(s, v, h, d)]
    BY <1>8 DEF Publish, Inserted, Same, Hits4
  <2>2. \A b \in Leasable : lease'[b].st = lease[b].st /\ lease'[b].host = lease[b].host
    <3> PICK c : lease' = IF d # NoAddr THEN [lease EXCEPT ![d].ce = c] ELSE lease BY <2>1
    <3>1. \A b \in Leasable : lease'[b] = lease[b] \/ lease'[b] = [lease[b] EXCEPT !.ce = c]
      BY DEF IInv, TypeOK
    <3> QED BY <3>1, Numbers DEF Lease
  <2>3. \A r \in Slots : cache'[r] = cache[r] \/ (cache'[r].v4 = v /\ cache'[r].v6 = h)
    <3>1. \A s : Line(s, v, h, d).v4 = v /\ Line(s, v, h, d).v6 = h BY DEF Line
    <3> HIDE DEF v, h, d
    <3>2. ASSUME NEW s \in Slots, cache' = [cache EXCEPT ![s] = Line(s, v, h, d)]
          PROVE  \A r \in Slots : cache'[r] = IF r = s THEN Line(s, v, h, d) ELSE cache[r]
      BY <3>2 DEF IInv, TypeOK
    <3>3. CASE \E s \in Slots : cache' = [cache EXCEPT ![s] = Line(s, v, h, d)]
      <4> PICK s \in Slots : cache' = [cache EXCEPT ![s] = Line(s, v, h, d)] BY <3>3
      <4>1. \A r \in Slots : cache'[r] = IF r = s THEN Line(s, v, h, d) ELSE cache[r]
        BY <3>2
      <4> QED BY <3>1, <4>1
    <3>4. CASE cache' = cache BY <3>4
    <3> QED BY <2>1, <3>3, <3>4
  <2>4. \A u \in Threads : pc'[u] = "publish" => pc[u] = "publish" /\ job'[u] = job[u]
    BY <2>1 DEF IInv, TypeOK
  <2>5. \A r \in Slots : Used(r)' =>
          \/ Used(r) /\ cache'[r].v4 = cache[r].v4 /\ cache'[r].v6 = cache[r].v6
          \/ pc[t] = "publish" /\ cache'[r].v4 = job[t].v4 /\ cache'[r].v6 = job[t].v6
    BY <2>1, <2>3 DEF Used
  <2> QED BY <2>1, <2>2, <2>4, <2>5, QuietStep
<1> QED BY <1>4, <1>5, <1>6, <1>7, <1>8 DEF Lookup

\* Each step keeps it.
LEMMA CacheNext ==
  ASSUME PoolApart, OneToOne, IInv, IInv', LeaseInv, CacheInv, [Next]_vars
  PROVE  CacheInv'
<1>1. CASE \E t \in Threads : Lookup(t) BY <1>1, LookedUp
<1>2. CASE AgeCache
  <2> PICK S \in SUBSET {s \in Slots : Used(s)} : Evict(S) BY <1>2 DEF AgeCache
  <2>1. UNCHANGED <<fileMaps, linked4, pc, job>> BY <1>2 DEF AgeCache
  <2>2. \A b \in Leasable : lease'[b].st = lease[b].st /\ lease'[b].host = lease[b].host
    BY EvictStep
  <2>3. \A s \in Slots : Used(s)' => Used(s) /\ cache'[s] = cache[s] BY DEF Evict, Used
  <2> QED BY <2>1, <2>2, <2>3, QuietStep
<1>3. CASE AgePool BY <1>3, PoolAged
<1>4. CASE \E F \in FileVersions : Reload(F) BY <1>4, FileReloaded
<1>5. CASE Tick \/ UNCHANGED vars
  <2>1. UNCHANGED <<fileMaps, lease, linked4, cache, pc, job>> BY <1>5 DEF Tick, vars
  <2>2. \A s \in Slots : Used(s)' = Used(s) BY <2>1 DEF Used
  <2> QED BY <2>1, <2>2, QuietStep
<1> QED BY <1>1, <1>2, <1>3, <1>4, <1>5 DEF Next

----------------------------------------------------------------------------
(* The theorem. *)

\* Whatever pair the cache holds, the tables would answer the same both ways: no
\* reload, lease or pass, between whichever steps of a lookup, leaves a stale one.
THEOREM CacheCoherentAlways ==
  ASSUME PoolApart, OneToOne, Embedding PROVE Spec => []CacheCoherent
<1>1. FilesLeaveLeases BY Addresses DEF PoolApart, FilesLeaveLeases, Leasable
<1>2. Init => CacheInv
  <2> SUFFICES ASSUME Init PROVE CacheInv OBVIOUS
  <2>1. CacheCoherent /\ Promised BY DEF Init, CacheCoherent, Promised, Used
  <2>2. Bare BY DEF Init, Bare, NoLease
  <2>3. Apart BY DEF Init, Apart, Static, PoolApart
  <2> QED BY <2>1, <2>2, <2>3 DEF CacheInv
<1>3. IInv /\ LeaseInv /\ CacheInv /\ [Next]_vars => CacheInv' BY CacheNext, NextIInv
<1>4. Spec => [](IInv /\ LeaseInv) BY <1>1, LeasesInductive
<1>5. CacheInv => CacheCoherent BY DEF CacheInv
<1> QED BY <1>2, <1>3, <1>4, <1>5, PTL DEF Spec
=============================================================================
