----------------------------- MODULE StatsSync -----------------------------
(***************************************************************************)
(* The statistics (src/stats.c) and their export (src/stats_exporter.c):   *)
(* every packet thread counts privately and publishes now and then; a      *)
(* caller that wants up-to-date numbers raises a generation and waits      *)
(* until the threads have acknowledged it, or for 100 ms.                  *)
(*                                                                         *)
(* A thread is named by its slot_idx: the main loop is 0, the workers are  *)
(* 1..W and the telemetry thread, which has no slot, is -1.  One counter   *)
(* per slot stands for all of them: flushes and reads treat them alike.    *)
(***************************************************************************)
EXTENDS Integers, Sequences

LOCAL INSTANCE Functions

CONSTANTS
  W,             \* gcfg.workers
  Batch,         \* STATS_BATCH_SIZE
  Offload,       \* the TUN offload is in effect: gso_dump_stats dumps as well
  Quota,         \* bound: what each thread counts
  MaxReports,    \* bound: SIGUSR2 received
  MaxExports,    \* bound: exports of the telemetry thread
  MaxEvents      \* bound: packets counted, SIGUSR2 and exports together

ASSUME Workers64 == W \in 0..64
ASSUME Sizes == Batch \in Nat \ {0} /\ Offload \in BOOLEAN

Main == 0
Exporter == -1
Workers == 1..W
Slots == 0..W
Callers == {Exporter, Main}
Threads == Slots \cup Callers

ASSUME Bounds == /\ Quota \in [Slots -> Nat]
                 /\ {MaxReports, MaxExports, MaxEvents} \subseteq Nat

VARIABLES
  priv,         \* g_tls_priv of each slot's thread
  batch,        \* its batch_count
  pub,          \* g_worker_pub
  req,          \* g_stats_sync_req
  ack,          \* g_stats_sync_ack
  active,       \* g_worker_slot_active of the workers (that of slot 0 is not read)
  registered,   \* main_registered
  shutdown,     \* g_shutdown
  running,      \* g_telemetry_running
  lock,         \* holders of s_stats_export_mutex
  seqNo,        \* g_stats_snapshot_seq
  status,       \* the status file: its "state", sequence number and counters
  phase,        \* the main thread: "start", "loop", "ending", "final"
  pc,           \* where each thread is
  gen,          \* the generation it loaded, or requested
  call,         \* the call a caller is in
  todo,         \* calls the main thread makes after it
  target,       \* target_main and target_mask
  synced,       \* workers_synced of the snapshot
  got,          \* the counters of the snapshot
  number,       \* its sequence number
  need,         \* history: what had been counted when its request began
  reports,      \* SIGUSR2 so far
  exports       \* exports of the telemetry thread so far

counters == <<priv, batch, pub>>
shake == <<req, ack>>
life == <<active, registered, shutdown, running, phase>>
snap == <<gen, target, synced, got, number, need>>
file == <<lock, seqNo, status>>
work == <<call, todo>>
bounds == <<reports, exports>>
vars == <<counters, shake, life, snap, file, work, pc, bounds>>

Zero == [s \in Slots |-> 0]
NoTarget == [main |-> FALSE, workers |-> {}]
Dumps == IF Offload THEN <<"dump", "dump">> ELSE <<"dump">>

Goto(t, l) == pc' = [pc EXCEPT ![t] = l]

\* What came from outside so far is within its bound.
Bounded == FoldFunction(+, reports + exports, priv) < MaxEvents

-----------------------------------------------------------------------------
(* Counting and publishing.                                                *)

\* A thread counts while it handles packets.
Counting(t) ==
  \/ pc[t] = "run" /\ (t = Main => phase = "loop")
  \/ pc[t] = "drain"

\* One more; a packet read also ends in stats_packet_done, a completion does not.
Count(t) ==
  /\ Counting(t) /\ priv[t] < Quota[t] /\ Bounded
  /\ priv' = [priv EXCEPT ![t] = @ + 1]
  /\ \/ UNCHANGED <<batch, pub>>
     \/ /\ batch[t] + 1 < Batch
        /\ batch' = [batch EXCEPT ![t] = @ + 1]
        /\ UNCHANGED pub
     \/ /\ batch[t] + 1 >= Batch
        /\ batch' = [batch EXCEPT ![t] = 0]
        /\ pub' = [pub EXCEPT ![t] = priv'[t]]
  /\ UNCHANGED <<shake, life, snap, file, work, pc, bounds>>

\* stats_flush_worker.
FlushSlot(t) ==
  /\ pub' = [pub EXCEPT ![t] = priv[t]]
  /\ batch' = [batch EXCEPT ![t] = 0]
  /\ UNCHANGED priv

\* A poll found nothing to read, or a second has passed.
IdleFlush(t) ==
  /\ pc[t] = "run" /\ (t = Main => phase = "loop")
  /\ batch[t] > 0
  /\ FlushSlot(t)
  /\ UNCHANGED <<shake, life, snap, file, work, pc, bounds>>

-----------------------------------------------------------------------------
(* stats_check_sync_request: load the request, flush, acknowledge it.  The *)
(* packet loops call it once a turn; the main thread also while it waits   *)
(* for the export lock.                                                    *)

\* Mutant: The main thread blocks on the lock as the telemetry thread does.
Checking_NotAtLock(t) == pc[t] = "run" /\ (t = Main => phase = "loop")

Checking(t) ==
  \/ pc[t] = "run" /\ (t = Main => phase = "loop")
  \/ pc[t] = "lock" /\ t = Main /\ lock # {}

CheckSync(t) ==
  /\ Checking(t)
  /\ req # ack[t]
  /\ gen' = [gen EXCEPT ![t] = req]
  /\ Goto(t, "flush")
  /\ UNCHANGED <<counters, shake, life, target, synced, got, number, need, file, work, bounds>>

CheckFlush(t) ==
  /\ pc[t] = "flush"
  /\ FlushSlot(t)
  /\ Goto(t, "ack")
  /\ UNCHANGED <<shake, life, snap, file, work, bounds>>

CheckAck(t) ==
  /\ pc[t] = "ack"
  /\ ack' = [ack EXCEPT ![t] = gen[t]]
  /\ gen' = [gen EXCEPT ![t] = 0]
  /\ Goto(t, IF t = Main /\ call[Main] # "none" THEN "lock" ELSE "run")
  /\ UNCHANGED <<counters, req, life, target, synced, got, number, need, file, work, bounds>>

-----------------------------------------------------------------------------
(* Calls: "sync" is stats_sync_workers, "dump" is stats_dump (a            *)
(* synchronised snapshot for the log), "write" is stats_write_json.        *)

Enter(c, kind) ==
  /\ call' = [call EXCEPT ![c] = kind]
  /\ Goto(c, IF kind = "write" THEN "lock" ELSE "begin")

\* The caller's next call, or back to where it waits.
Return(c) ==
  IF c = Main /\ todo # <<>>
  THEN Enter(c, Head(todo)) /\ todo' = Tail(todo)
  ELSE /\ call' = [call EXCEPT ![c] = "none"]
       /\ Goto(c, "run")
       /\ UNCHANGED todo

\* Locals go out of scope: at the end of the waiting loop, and of the call.
EndWait(c) ==
  /\ gen' = [gen EXCEPT ![c] = 0]
  /\ target' = [target EXCEPT ![c] = NoTarget]
EndSnapshot(c) ==
  /\ synced' = [synced EXCEPT ![c] = FALSE]
  /\ got' = [got EXCEPT ![c] = Zero]
  /\ number' = [number EXCEPT ![c] = 0]
  /\ need' = [need EXCEPT ![c] = Zero]

\* Mutant: The main thread does not look at what its trylock returned.
Lock_Anyway(c) ==
  /\ pc[c] = "lock" /\ (lock = {} \/ c = Main)
  /\ \/ lock' = {c} /\ Goto(c, "begin") /\ UNCHANGED work
     \/ Return(c) /\ UNCHANGED lock
  /\ UNCHANGED <<counters, shake, life, snap, seqNo, status, bounds>>

\* The main thread tries, and serves requests in between; the other blocks.
Lock(c) ==
  /\ pc[c] = "lock" /\ lock = {}
  /\ \/ lock' = {c} /\ Goto(c, "begin") /\ UNCHANGED work
     \/ Return(c) /\ UNCHANGED lock           \* the temporary file cannot be opened
  /\ UNCHANGED <<counters, shake, life, snap, seqNo, status, bounds>>

\* stats_sync_slots loads main_registered, ...
Begin(c) ==
  /\ pc[c] = "begin"
  /\ need' = [need EXCEPT ![c] =
               [s \in Slots |-> IF s # Main \/ registered THEN priv[s] ELSE pub[s]]]
  /\ target' = [target EXCEPT ![c].main = registered]
  /\ Goto(c, "target")
  /\ UNCHANGED <<counters, shake, life, gen, synced, got, number, file, work, bounds>>

\* ... and the active flags: in one step, for a flag only ever falls.
Target(c) ==
  /\ pc[c] = "target"
  /\ target' = [target EXCEPT ![c].workers = active]
  /\ Goto(c, "request")
  /\ UNCHANGED <<counters, shake, life, gen, synced, got, number, need, file, work, bounds>>

\* The end of a synchronisation.
Synced(c, ok) ==
  /\ EndWait(c)
  /\ IF call[c] = "sync" THEN Return(c) /\ EndSnapshot(c)
     ELSE /\ synced' = [synced EXCEPT ![c] = ok]
          /\ Goto(c, "read")
          /\ UNCHANGED <<work, got, number, need>>

Alone(c) == target[c] = NoTarget

\* Nobody to ask: the caller flushes its own slot, if it has one.
SyncAlone(c) ==
  /\ pc[c] = "request" /\ Alone(c)
  /\ IF c \in Slots THEN FlushSlot(c) ELSE UNCHANGED counters
  /\ Synced(c, TRUE)
  /\ UNCHANGED <<shake, life, file, bounds>>

\* Mutant: The request waited for is the value before the fetch_add.
Request_Before(c) ==
  /\ pc[c] = "request" /\ ~ Alone(c)
  /\ req' = req + 1
  /\ gen' = [gen EXCEPT ![c] = req]
  /\ Goto(c, IF c \in Slots THEN "ownflush" ELSE "wait")
  /\ UNCHANGED <<counters, ack, life, target, synced, got, number, need, file, work, bounds>>

\* A new generation; the signals that wake idle threads only save time.
Request(c) ==
  /\ pc[c] = "request" /\ ~ Alone(c)
  /\ req' = req + 1
  /\ gen' = [gen EXCEPT ![c] = req + 1]
  /\ Goto(c, IF c \in Slots THEN "ownflush" ELSE "wait")
  /\ UNCHANGED <<counters, ack, life, target, synced, got, number, need, file, work, bounds>>

OwnFlush(c) ==
  /\ pc[c] = "ownflush"
  /\ FlushSlot(c)
  /\ Goto(c, "ownack")
  /\ UNCHANGED <<shake, life, snap, file, work, bounds>>

OwnAck(c) ==
  /\ pc[c] = "ownack"
  /\ ack' = [ack EXCEPT ![c] = gen[c]]
  /\ Goto(c, "wait")
  /\ UNCHANGED <<counters, req, life, snap, file, work, bounds>>

MainAcked(c) == target[c].main => ~ registered \/ ack[Main] >= gen[c]
AllAcked(c) ==
  MainAcked(c) /\ \A w \in target[c].workers : w \notin active \/ ack[w] >= gen[c]

\* A pass of the waiting loop.  What one of its tests finds true stays true,
\* so a pass that succeeds does as if it tested everything at its end.
Acked(c) ==
  /\ pc[c] = "wait" /\ AllAcked(c)
  /\ Synced(c, TRUE)
  /\ UNCHANGED <<counters, shake, life, file, bounds>>

\* 100 ms have passed.
Deadline(c) ==
  /\ pc[c] = "wait" /\ ~ AllAcked(c)
  /\ Synced(c, FALSE)
  /\ UNCHANGED <<counters, shake, life, file, bounds>>

\* The rest of stats_get_snapshot.  The counters of other threads only grow.
Read(c) ==
  /\ pc[c] = "read"
  /\ got' = [got EXCEPT ![c] = pub]
  /\ Goto(c, "report")
  /\ UNCHANGED <<counters, shake, life, gen, target, synced, number, need, file, work,
                 bounds>>

\* stats_dump logs what it read.
Dumped(c) ==
  /\ pc[c] = "report" /\ call[c] = "dump"
  /\ Return(c) /\ EndSnapshot(c)
  /\ UNCHANGED <<counters, shake, life, gen, target, file, bounds>>

\* stats_write_json numbers what it read and prints it to its temporary file.
Numbered(c) ==
  /\ pc[c] = "report" /\ call[c] = "write"
  /\ seqNo' = seqNo + 1
  /\ number' = [number EXCEPT ![c] = seqNo']
  /\ Goto(c, "publish")
  /\ UNCHANGED <<counters, shake, life, gen, target, synced, got, need, lock, status,
                 work, bounds>>

\* It renames the file, which may fail, and unlocks.
Written(c) ==
  /\ pc[c] = "publish"
  /\ \/ status' = [state |-> IF phase = "final" THEN "stopped" ELSE "running",
                   seq |-> number[c], got |-> got[c]]
     \/ UNCHANGED status
  /\ lock' = {}
  /\ Return(c) /\ EndSnapshot(c)
  /\ UNCHANGED <<counters, shake, life, gen, target, seqNo, bounds>>

-----------------------------------------------------------------------------
(* The main thread.  It starts in telemetry_start, which writes the file.  *)

Init ==
  /\ priv = Zero /\ batch = Zero /\ pub = Zero
  /\ req = 0 /\ ack = Zero /\ gen = [t \in Threads |-> 0]
  /\ active = Workers /\ registered = TRUE /\ shutdown = FALSE /\ running = TRUE
  /\ lock = {} /\ seqNo = 0
  /\ status = [state |-> "none", seq |-> 0, got |-> Zero]
  /\ phase = "start"
  /\ pc = [t \in Threads |->
             IF t = Main THEN "lock" ELSE IF t = Exporter THEN "off" ELSE "run"]
  /\ call = [c \in Callers |-> IF c = Main THEN "write" ELSE "none"]
  /\ todo = <<>>
  /\ target = [c \in Callers |-> NoTarget]
  /\ synced = [c \in Callers |-> FALSE]
  /\ number = [c \in Callers |-> 0]
  /\ got = [c \in Callers |-> Zero] /\ need = [c \in Callers |-> Zero]
  /\ reports = 0 /\ exports = 0

\* The end of telemetry_start: the telemetry thread, if it can be created.
StartTelemetry ==
  /\ phase = "start" /\ pc[Main] = "run"
  /\ phase' = "loop"
  /\ \/ Goto(Exporter, "run") /\ UNCHANGED running
     \/ running' = FALSE /\ UNCHANGED pc
  /\ UNCHANGED <<counters, shake, active, registered, shutdown, snap, file, work, bounds>>

\* signal_read.
Usr2 ==
  /\ phase = "loop" /\ pc[Main] = "run" /\ reports < MaxReports /\ Bounded
  /\ reports' = reports + 1
  /\ Enter(Main, "sync")
  /\ todo' = Dumps \o <<"write">>
  /\ UNCHANGED <<counters, shake, life, snap, file, exports>>

\* SIGTERM in the main loop, or a failed TUN device in any packet loop.
Stop(t) ==
  /\ pc[t] = "run" /\ (t = Main => phase = "loop")
  /\ ~ shutdown
  /\ shutdown' = TRUE
  /\ UNCHANGED <<counters, shake, active, registered, running, phase, snap, file,
                 work, pc, bounds>>

\* stats_main_stop.
MainFlush ==
  /\ phase = "loop" /\ pc[Main] = "run" /\ shutdown
  /\ FlushSlot(Main)
  /\ phase' = "ending"
  /\ Goto(Main, "dereg")
  /\ UNCHANGED <<shake, active, registered, shutdown, running, snap, file, work, bounds>>

\* Mutant: stats_main_stop only flushes.
MainDeregister_Forgets ==
  /\ pc[Main] = "dereg"
  /\ Goto(Main, "join")
  /\ UNCHANGED <<counters, shake, life, snap, file, work, bounds>>

MainDeregister ==
  /\ pc[Main] = "dereg"
  /\ registered' = FALSE
  /\ Goto(Main, "join")
  /\ UNCHANGED <<counters, shake, active, shutdown, running, phase, snap, file, work,
                 bounds>>

\* pthread_join of the workers; then frames left behind are counted (Count).
MainJoin ==
  /\ pc[Main] = "join"
  /\ \A w \in Workers : pc[w] = "done"
  /\ Goto(Main, "drain")
  /\ UNCHANGED <<counters, shake, life, snap, file, work, bounds>>

\* The last flush of the main thread, and the dumps.
MainDrained ==
  /\ pc[Main] = "drain"
  /\ FlushSlot(Main)
  /\ Enter(Main, "dump")
  /\ todo' = Tail(Dumps)
  /\ UNCHANGED <<shake, life, snap, file, bounds>>

\* telemetry_stop, up to its pthread_join ...
StopTelemetry ==
  /\ phase = "ending" /\ pc[Main] = "run"
  /\ running' = FALSE
  /\ Goto(Main, IF running THEN "joinx" ELSE "done")
  /\ UNCHANGED <<counters, shake, active, registered, shutdown, phase, snap, file, work,
                 bounds>>

\* ... and after it: the last status.
FinalStatus ==
  /\ pc[Main] = "joinx" /\ pc[Exporter] = "done"
  /\ phase' = "final"
  /\ Enter(Main, "write")
  /\ UNCHANGED <<counters, shake, active, registered, shutdown, running, snap, file,
                 todo, bounds>>

MainEnd ==
  /\ phase = "final" /\ pc[Main] = "run"
  /\ Goto(Main, "done")
  /\ UNCHANGED <<counters, shake, life, snap, file, work, bounds>>

-----------------------------------------------------------------------------
(* The workers and the telemetry thread.                                   *)

\* Mutant: A worker leaves its loop without a last flush.
WorkerLeave_Unflushed(w) ==
  /\ pc[w] = "run" /\ shutdown
  /\ Goto(w, "exit")
  /\ UNCHANGED <<counters, shake, life, snap, file, work, bounds>>

\* A worker leaves its loop, counts the writes it still waited for (Count), ...
WorkerLeave(w) ==
  /\ pc[w] = "run" /\ shutdown
  /\ Goto(w, "drain")
  /\ UNCHANGED <<counters, shake, life, snap, file, work, bounds>>

\* ... flushes for the last time ...
WorkerFlush(w) ==
  /\ pc[w] = "drain"
  /\ FlushSlot(w)
  /\ Goto(w, "exit")
  /\ UNCHANGED <<shake, life, snap, file, work, bounds>>

\* ... and gives up its slot: stats_thread_exit.
WorkerExit(w) ==
  /\ pc[w] = "exit"
  /\ active' = active \ {w}
  /\ Goto(w, "done")
  /\ UNCHANGED <<counters, shake, registered, shutdown, running, phase, snap, file, work,
                 bounds>>

\* telemetry_worker_loop: its interval has passed.
Export ==
  /\ pc[Exporter] = "run" /\ running /\ exports < MaxExports /\ Bounded
  /\ exports' = exports + 1
  /\ Enter(Exporter, "write")
  /\ UNCHANGED <<counters, shake, life, snap, file, todo, reports>>

ExporterEnd ==
  /\ pc[Exporter] = "run" /\ ~ running
  /\ Goto(Exporter, "done")
  /\ UNCHANGED <<counters, shake, life, snap, file, work, bounds>>

-----------------------------------------------------------------------------

CallStep(c) ==
  \/ Lock(c) \/ Begin(c) \/ Target(c) \/ SyncAlone(c) \/ Request(c)
  \/ OwnFlush(c) \/ OwnAck(c) \/ Acked(c) \/ Read(c)
  \/ Dumped(c) \/ Numbered(c) \/ Written(c)
CheckStep(t) == CheckSync(t) \/ CheckFlush(t) \/ CheckAck(t)

WorkerStep(w) == CheckStep(w) \/ WorkerLeave(w) \/ WorkerFlush(w) \/ WorkerExit(w)
MainStep ==
  \/ CallStep(Main) \/ CheckStep(Main)
  \/ StartTelemetry \/ MainFlush \/ MainDeregister \/ MainJoin \/ MainDrained
  \/ StopTelemetry \/ FinalStatus \/ MainEnd
ExporterStep == CallStep(Exporter) \/ ExporterEnd

\* Everything is over: with the main thread, the process.
Finished == pc[Main] = "done" /\ UNCHANGED vars

Next ==
  \/ \E t \in Slots : Count(t) \/ IdleFlush(t) \/ Stop(t)
  \/ \E w \in Workers : WorkerStep(w)
  \/ \E c \in Callers : Deadline(c)
  \/ MainStep \/ ExporterStep
  \/ Usr2 \/ Export
  \/ Finished

Spec == Init /\ [][Next]_vars

\* The threads run; packets, signals, intervals and deadlines may never come.
Fairness ==
  /\ \A w \in Workers : WF_vars(WorkerStep(w))
  /\ WF_vars(MainStep)
  /\ WF_vars(ExporterStep)
LiveSpec == Spec /\ Fairness

-----------------------------------------------------------------------------
(* Properties.                                                             *)

\* A snapshot that claims workers_synced holds all that the active slots had
\* counted when its caller asked (docs/man/tayga.8.md:113), and all that the
\* workers that have ended ever counted.
SyncedSeesCounted ==
  \A c \in Callers :
    pc[c] = "report" /\ synced[c] => \A s \in Slots : got[c][s] >= need[c][s]

\* The status file never goes back: the telemetry thread and the main thread
\* both replace it, and neither puts an older snapshot over a newer one.
StatusMovesOn ==
  [][/\ status'.seq > status.seq
     /\ \A s \in Slots : status'.got[s] >= status.got[s]]_status

\* The "stopped" status is exact: nothing counted by a thread that has ended,
\* or left in the queues at the end, is missing.
StoppedIsExact == status.state = "stopped" => status.got = priv

\* A call ends even if no deadline comes: main loop and telemetry thread never
\* wait for each other, nor for a thread that has gone (stats_exporter.c:45).
CallsEnd == \A c \in Callers : call[c] # "none" ~> call[c] = "none"

\* A daemon told to stop stops: nobody joins a thread that waits for the joiner.
ShutdownEnds == shutdown ~> pc[Main] = "done"
=============================================================================
