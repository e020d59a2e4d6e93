---------------------------- MODULE DynDatabase ----------------------------
(***************************************************************************)
(* dynamic.map, the database of the dynamic pool (src/dynamic.c): written  *)
(* by dynamic_maint from a snapshot, without locks, while lookups go on;   *)
(* read by load_dynamic when the daemon starts.  The daemon may die at any *)
(* time (a fatal error of the TUN device ends it without a last save too), *)
(* and tayga.conf and the clock may have changed when it starts again.     *)
(***************************************************************************)
EXTENDS DynPool

CONSTANTS
  NoRows,          \* dynamic_maint is not writing
  MaxCommit        \* max_commit_delay

ASSUME Delay == MaxCommit \in Nat
ASSUME NoRowsApart == NoRows \notin Seq([addr : Addrs, host : Hosts, last : Time])

\* A rewound lease (see Loaded) stays after the epoch, as rows must.
ASSUME AfterEpoch == \A t \in Boot : t > MinLease

VARIABLES
  phase,      \* "up", "saving" (the last save), "stopping" (g_shutdown), "down"
  file,       \* the rows of dynamic.map
  rows,       \* the rows dynamic_maint is writing, or NoRows
  lastWrite   \* last_map_write

dbvars == <<vars, phase, file, rows, lastWrite>>

Row(a) == [addr |-> a, host |-> host[a], last |-> LastUse(a)]
Running == phase # "down"

-----------------------------------------------------------------------------
(* Saving.                                                                 *)

\* The rows are copied and the request is taken back, in one critical section.
Snapshot(q) ==
  /\ rows' = [i \in DOMAIN q |-> Row(q[i])]
  /\ pending' = FALSE

\* The snapshot cannot be allocated: nothing is written, try again.
NoSnapshot == pending' = TRUE /\ UNCHANGED rows

MustSave(shutdown) ==
  shutdown \/ pending \/ lastWrite + MaxCommit < now \/ lastWrite > now

\* dynamic_maint up to its unlock.
Maint(shutdown) ==
  /\ rows = NoRows
  /\ Age
  /\ IF MustSave(shutdown) THEN Snapshot(mapped' \o dormant') \/ NoSnapshot
     ELSE UNCHANGED <<pending, rows>>
  /\ UNCHANGED <<conf, now, file, lastWrite>>

\* From the main loop, also on its way out.
PeriodicMaint == phase \in {"up", "stopping"} /\ Maint(FALSE) /\ UNCHANGED phase

\* SIGHUP saves, after the reload of the map-file.
Hangup == phase = "up" /\ Maint(TRUE) /\ UNCHANGED phase

\* SIGTERM: a last save, and then g_shutdown.
StopSignal ==
  /\ phase = "up"
  /\ Maint(TRUE)
  /\ phase' = IF rows' = NoRows THEN "stopping" ELSE "saving"

AfterWrite ==
  /\ rows # NoRows
  /\ rows' = NoRows
  /\ phase' = IF phase = "saving" THEN "stopping" ELSE phase
  /\ UNCHANGED <<conf, now, lists>>

\* Mutant: the request is taken back when the write is done.
WriteDone_ClearsPending ==
  AfterWrite /\ file' = rows /\ lastWrite' = now /\ pending' = FALSE

\* write_to_file: a temporary file is renamed over the database.  (That the
\* daemon may die between rename and last_map_write makes no difference: only
\* the file outlives it.  observed_time is still now: the main loop alone
\* sets the clock.)
WriteDone ==
  /\ AfterWrite
  /\ file' = rows
  /\ lastWrite' = now
  /\ UNCHANGED pending

\* Mutant: a failed write is not asked for again.
WriteFails_Forgets == AfterWrite /\ UNCHANGED <<file, lastWrite, pending>>

WriteFails == AfterWrite /\ pending' = TRUE /\ UNCHANGED <<file, lastWrite>>

-----------------------------------------------------------------------------
(* Stopping and starting.                                                  *)

\* The process is gone, and with it everything but the file.
Gone ==
  /\ phase' = "down"
  /\ free' = EmptyPool.free /\ dormant' = EmptyPool.dormant
  /\ host' = EmptyPool.host /\ last' = EmptyPool.last
  /\ mapped' = <<>> /\ entry' = [a \in Addrs |-> NoEntry] /\ pending' = FALSE
  /\ rows' = NoRows /\ lastWrite' = 0
  /\ UNCHANGED <<conf, now, file>>

Crash == Running /\ Gone
Exit == phase = "stopping" /\ rows = NoRows /\ Gone

\* Mutant: a run's last address is not in it.
Room_Short(q, a) ==
  LET ends == {i \in DOMAIN q : q[i].addr + q[i].count > a}
  IN {i \in ends : q[i].addr < a /\ \A j \in ends : i <= j}

\* load_map: the first run that ends at the address or after it, if it covers
\* the address; otherwise the row is a duplicate.
Room(q, a) ==
  LET ends == {i \in DOMAIN q : q[i].addr + q[i].count >= a}
  IN {i \in ends : q[i].addr < a /\ \A j \in ends : i <= j}

Loadable(c, r) == r.addr \notin c.v4 /\ r.host \notin c.v6 /\ r.last > 0

\* One row enters the pool as a dormant lease, or is ignored.
LoadRow(c, p, r) ==
  IF ~ Loadable(c, r) \/ Room(p.free, r.addr) = {} THEN p
  ELSE LET i == CHOOSE j \in Room(p.free, r.addr) : TRUE
           use == [p.last EXCEPT ![r.addr] = r.last]
       IN [free |-> Split(p.free, i, r.addr),
           dormant |-> FiledBy(use, p.dormant, r.addr),
           host |-> [p.host EXCEPT ![r.addr] = r.host],
           last |-> use]

\* The rows of the file, one after the other.
LoadFile(c) ==
  LET f[i \in 0 .. Len(file)] ==
        IF i = 0 THEN EmptyPool ELSE LoadRow(c, f[i - 1], file[i])
  IN f[Len(file)]

\* load_dynamic: rows dated in the future are all made MinLease old and stay
\* dormant; otherwise those used within MinLease become mapped.
Loaded(c, t) ==
  LET p == LoadFile(c)
      future == \E a \in ToSet(p.dormant) : p.last[a] > t
      stale == SelectInSeq(p.dormant, LAMBDA a : p.last[a] + MinLease < t)
      recent == IF future THEN 0
                ELSE IF stale = 0 THEN Len(p.dormant) ELSE stale - 1
  IN /\ free' = p.free
     /\ mapped' = Reverse(SubSeq(p.dormant, 1, recent))
     /\ dormant' = SubSeq(p.dormant, recent + 1, Len(p.dormant))
     /\ host' = p.host
     /\ last' = [a \in Addrs |-> IF future /\ a \in ToSet(p.dormant)
                                 THEN t - MinLease ELSE p.last[a]]

Start ==
  /\ phase = "down"
  /\ \E c \in Configs, t \in Boot : conf' = c /\ now' = t /\ Loaded(c, t)
  /\ phase' = "up"
  /\ UNCHANGED <<entry, pending, file, rows, lastWrite>>

-----------------------------------------------------------------------------
DbInit ==
  /\ Init
  /\ phase = "up" /\ file = <<>> /\ rows = NoRows
  /\ lastWrite = 0

DbNext ==
  \/ /\ Running
     /\ Lookup \/ (Tick /\ rows = NoRows)
     /\ UNCHANGED <<phase, file, rows, lastWrite>>
  \/ PeriodicMaint \/ Hangup \/ StopSignal \/ WriteDone \/ WriteFails
  \/ Crash \/ Exit \/ Start

DbSpec == DbInit /\ [][DbNext]_dbvars

\* The main loop comes back to its maintenance, an allocation and a write that
\* are tried again and again succeed in the end.
DbFairness ==
  /\ WF_dbvars(PeriodicMaint /\ rows' # NoRows)
  /\ WF_dbvars(WriteDone \/ WriteFails)
  /\ SF_dbvars(WriteDone)

DbLiveSpec == DbSpec /\ DbFairness

-----------------------------------------------------------------------------
(* Properties.                                                             *)

Saved(q, a) == \E i \in DOMAIN q : q[i].addr = a /\ q[i].host = host[a]

\* No assignment is forgotten: while the daemon runs, every lease is in the
\* database, or in the rows on their way to it, or a save is pending; a lease
\* assigned during a write and a write that fails included.
SavedOrPending ==
  Running => \A a \in Leased :
    pending \/ Saved(IF rows # NoRows THEN rows ELSE file, a)

\* At every moment, and so wherever the daemon dies, the database is one
\* consistent table: no address and no host in it twice.
DatabaseConsistent ==
  \A i, j \in DOMAIN file :
    i # j => file[i].addr # file[j].addr /\ file[i].host # file[j].host

\* After a restart every host in the database has its address again, unless
\* tayga.conf took it, and one used within MinLease is mapped at once.
RestartKeepsLeases ==
  [][Start =>
       \A i \in DOMAIN file :
         Loadable(conf', file[i]) =>
           /\ file[i].addr \in Leased' /\ host'[file[i].addr] = file[i].host
           /\ (file[i].last + MinLease >= now' /\ \A j \in DOMAIN file : file[j].last <= now')
                => file[i].addr \in ToSet(mapped')]_dbvars

\* docs/man/tayga.conf.5.md:172-175: only without data-dir or STATE_DIRECTORY
\* "dynamic mappings will be lost when the tayga daemon is stopped".  So when
\* the save on the signal succeeds, the daemon leaves no lease behind.
StopSaves ==
  [][Exit /\ lastWrite = now => \A a \in Leased : Saved(file, a)]_dbvars

\* A host's lease reaches the database, although writes may fail and others
\* are assigned meanwhile, if the daemon keeps running and the lease lives on.
Unsaved(h) ==
  phase = "up" /\ \E a \in Leased : host[a] = h /\ ~ Saved(file, a)
SavedInTheEnd == \A h \in Hosts : Unsaved(h) ~> ~ Unsaved(h)
=============================================================================
