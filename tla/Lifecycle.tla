----------------------------- MODULE Lifecycle -----------------------------
(***************************************************************************)
(* The life of a daemon with workers (tayga.c): its device is set up       *)
(* (TunSetup), the workers are created and wait at a gate, setup is        *)
(* committed and the gate opens, packets are written asynchronously        *)
(* (AsyncTun), and a signal or a failed descriptor ends it.  A failure on  *)
(* the way up takes everything back.  Any process may be killed at any     *)
(* point, and an administrator may call --mktun or --rmtun meanwhile.      *)
(*                                                                         *)
(* Reading and translating are left out; a worker writes packets.          *)
(***************************************************************************)
EXTENDS TunSetup, AsyncTun

CONSTANTS
  Daemon,         \* the process that runs
  Quota           \* [Writers -> Nat], bound on the packets of each worker

ASSUME LifecycleAssumption ==
  /\ Daemon \in Processes /\ Queues \in Nat \ {0}
  /\ Writers = 1..Queues

Workers == Writers

VARIABLES
  main,           \* where the main thread of the daemon is
  gate,           \* worker_start_gate
  pc,             \* [Workers -> program counter]
  shutdown,       \* g_shutdown
  failure,        \* g_tun_io_failure
  sent            \* [Workers -> packets given to async_tun_submit]

mainVars == <<main, gate, shutdown, failure>>
threadVars == <<pc, sent>>
vars == <<setupVars, asyncVars, mainVars, threadVars>>

Init ==
  /\ SetupInit /\ AsyncInit
  /\ main = "setup" /\ gate = 0
  /\ pc = [w \in Workers |-> "none"]
  /\ shutdown = FALSE /\ failure = FALSE /\ sent = [w \in Workers |-> 0]

Label(w, label) == pc' = [pc EXCEPT ![w] = label]

----------------------------------------------------------------------------
(* Startup *)

Setup(p) == SetupStep(p) /\ UNCHANGED <<asyncVars, mainVars, threadVars>>

\* What main does after tun_setup, or startup_failed.
Next1(stage) == main' \in {stage, "failed"} /\ UNCHANGED <<gate, shutdown, failure, threadVars>>

StartDispatch ==
  /\ main = "setup"
  /\ \/ At(Daemon, "ready") /\ Next1("async")
     \/ At(Daemon, "refused") /\ Next1("failed")
  /\ UNCHANGED <<setupVars, asyncVars>>

StartAsync ==
  /\ main = "async"
  /\ \/ InitContexts /\ main' = "threads"
     \/ InitFails /\ main' = "failed"
  /\ UNCHANGED <<setupVars, gate, shutdown, failure, threadVars>>

Missing == {w \in Workers : pc[w] = "none"}

CreateWorker(w) ==
  /\ main = "threads" /\ w \in Missing /\ \A v \in Missing : w <= v
  /\ \/ Label(w, "gate") /\ UNCHANGED main
     \/ main' = "failed" /\ UNCHANGED pc
  /\ UNCHANGED <<setupVars, asyncVars, gate, shutdown, failure, sent>>

\* All have arrived at the gate; chroot and the change of user and group may
\* fail, then setup is committed and the gate opens.
OpenGate ==
  /\ main = "threads" /\ Missing = {}
  /\ \/ /\ tun' = [tun EXCEPT ![Daemon] = [Committed(@) EXCEPT !.stage = "running"]]
        /\ main' = "loop" /\ gate' = 1
     \/ main' = "failed" /\ UNCHANGED <<tun, gate>>
  /\ UNCHANGED <<net, lock, before, asyncVars, shutdown, failure, threadVars>>

\* Mutant: workers are left at the gate.
CloseGate_Forgets ==
  /\ main = "failed" /\ main' = "fail_join"
  /\ UNCHANGED <<setupVars, asyncVars, gate, shutdown, failure, threadVars>>
\* startup_failed: the workers may go, ...
CloseGate ==
  /\ main = "failed" /\ main' = "fail_join" /\ gate' = -1
  /\ UNCHANGED <<setupVars, asyncVars, shutdown, failure, threadVars>>

Gone == \A w \in Workers : pc[w] \in {"none", "left"}

\* To free a context again kills the process.
DiesFreeing == \E w \in Writers : FreesTwice(ring[w])

\* ... those created are joined, contexts destroyed, and setup taken back.
StartupFailed ==
  /\ main = "fail_join" /\ Gone /\ main' = "end"
  /\ IF DiesFreeing
     THEN Killed(Daemon) /\ UNCHANGED asyncVars
     ELSE Abort(Daemon, "over") /\ Destroy
  /\ UNCHANGED <<gate, shutdown, failure, threadVars>>

----------------------------------------------------------------------------
(* Workers *)

PassGate(w) ==
  /\ pc[w] = "gate" /\ gate # 0
  /\ Label(w, IF gate = 1 THEN "loop" ELSE "left")
  /\ UNCHANGED <<setupVars, asyncVars, mainVars, sent>>

\* A packet was read and translated; a burst does not look at g_shutdown.
WritePacket(w) ==
  /\ pc[w] = "loop" /\ sent[w] < Quota[w]
  /\ sent' = [sent EXCEPT ![w] = @ + 1]
  /\ Write(w, <<w, sent'[w]>>)
  /\ UNCHANGED <<setupVars, mainVars, pc>>

\* The head of the loop; the context may fail here, or have failed before.
ServiceRing(w) ==
  /\ pc[w] = "loop" /\ ~shutdown
  /\ Service(w)
  /\ IF ring'[w].failed
     THEN Label(w, "stop") /\ shutdown' = TRUE /\ failure' = TRUE
     ELSE UNCHANGED <<pc, shutdown, failure>>
  /\ UNCHANGED <<setupVars, main, gate, sent>>

\* g_shutdown, or poll or read finds a failed descriptor.
LeaveLoop(w) ==
  /\ pc[w] = "loop" /\ Label(w, "stop")
  /\ \/ shutdown /\ UNCHANGED <<shutdown, failure>>
     \/ shutdown' = TRUE /\ failure' = TRUE
  /\ UNCHANGED <<setupVars, asyncVars, main, gate, sent>>

\* async_tun_finish: no packet is accepted any more, ...
StopWriting(w) ==
  /\ pc[w] = "stop" /\ Stop(w) /\ Label(w, "drain")
  /\ UNCHANGED <<setupVars, mainVars, sent>>

\* ... what was accepted is written, ...
Drain(w) ==
  /\ pc[w] = "drain" /\ ~Idle(ring[w]) /\ ~ring[w].failed
  /\ Service(w) /\ ring'[w] # ring[w]
  /\ UNCHANGED <<setupVars, mainVars, threadVars>>

\* ... until nothing is left, or a failure, or after 3 seconds in any case.
LeaveDrain(w) ==
  /\ pc[w] = "drain" /\ Finish(w) /\ Label(w, "left")
  /\ failure' = (failure \/ ring'[w].failed)
  /\ shutdown' = (shutdown \/ ring'[w].failed)
  /\ UNCHANGED <<setupVars, main, gate, sent>>

----------------------------------------------------------------------------
(* The end *)

\* SIGTERM, or the main thread finds a failed descriptor.
Terminate ==
  /\ main = "loop" /\ ~shutdown /\ shutdown' = TRUE
  /\ failure' \in {failure, TRUE}
  /\ UNCHANGED <<setupVars, asyncVars, main, gate, threadVars>>

Join ==
  /\ main = "loop" /\ shutdown /\ Gone /\ main' = "joined"
  /\ Destroy
  /\ UNCHANGED <<setupVars, gate, shutdown, failure, threadVars>>

Over(p) == At(p, "over")

\* main returns; the kernel closes what the process had.
Exit ==
  /\ main = "joined" /\ main' = "end"
  /\ Killed(Daemon)
  /\ UNCHANGED <<asyncVars, gate, shutdown, failure, threadVars>>

\* SIGKILL
Kill(p) ==
  /\ ~Over(p) /\ tun[p].stage # "idle" /\ Killed(p)
  /\ IF p = Daemon THEN main' = "end" /\ pc' = [w \in Workers |-> "left"]
     ELSE UNCHANGED <<main, pc>>
  /\ UNCHANGED <<asyncVars, gate, shutdown, failure, sent>>

\* The kernel goes on with writes until the process is over.
Kernel(w) ==
  /\ main # "end" /\ KernelWrites(w)
  /\ UNCHANGED <<setupVars, mainVars, threadVars>>

Finished == (\A p \in Processes : Over(p)) /\ UNCHANGED vars

MainStep ==
  \/ (main = "setup" /\ Setup(Daemon)) \/ StartDispatch \/ StartAsync
  \/ (\E w \in Workers : CreateWorker(w)) \/ OpenGate
  \/ CloseGate \/ StartupFailed \/ Join \/ Exit
WorkerStep(w) ==
  PassGate(w) \/ ServiceRing(w) \/ (shutdown /\ LeaveLoop(w)) \/ StopWriting(w) \/ LeaveDrain(w)

Next ==
  \/ MainStep
  \/ \E p \in Processes \ {Daemon} : Setup(p)
  \/ \E w \in Workers :
       \/ PassGate(w) \/ WritePacket(w) \/ ServiceRing(w) \/ LeaveLoop(w)
       \/ StopWriting(w) \/ Drain(w) \/ LeaveDrain(w) \/ Kernel(w)
  \/ Terminate
  \/ \E p \in Processes : Kill(p)
  \/ Finished

Spec == Init /\ [][Next]_vars

\* Threads run; the wait for completions has a deadline.  Packets, signals and
\* completions may never come.
Fairness == WF_vars(MainStep) /\ \A w \in Workers : WF_vars(WorkerStep(w))

LiveSpec == Spec /\ Fairness

----------------------------------------------------------------------------
(* Properties *)

\* What a daemon that starts leaves on the network: all that was there, but for
\* the routes it replaces, and all that tayga.conf asks for.
Wanted(n) ==
  [n EXCEPT !.exists = TRUE, !.up = @ \/ Conf.up, !.addrs = @ \cup Conf.addrs,
            !.routes = [d \in Dests |-> IF d \in Conf.routes THEN "tayga" ELSE @[d]]]

Starts == main = "threads" /\ main' = "loop"
\* tun_setup or main gives up, and the process lives to take its setup back.
Undoes(p) == SetupFails(p) \/ (p = Daemon /\ StartupFailed /\ ~DiesFreeing)
Makes(p) == At(p, "made") /\ Made(p)

\* A start that fails leaves the network as it was when the daemon got the lock:
\* the interface setup is transactional (docs/dev/architecture.md:15).
FailedStartUndone == [][StartupFailed /\ lock = Daemon => net' = before[Daemon]]_vars

\* Setup is a transaction unless the process dies in it: a process that fails and
\* lives to take its setup back leaves the network as it was when it got the lock,
\* at whatever request it failed, and whether or not the kernel did what it did not
\* confirm; one that succeeds keeps all that was there; and each queue accepts the
\* offload.  A process that is killed takes nothing back, nor does a daemon that
\* dies freeing a context twice (experimental_io.c:204): see FailedStartUndone.
SetupIsTransaction ==
  [][/\ \A p \in Processes : Undoes(p) /\ lock = p => net' = before[p]
     /\ Starts => /\ net = Wanted(before[Daemon])
                  /\ \A q \in 0..tun[Daemon].queues : tun[Daemon].mask \in Able[q]
     /\ \A p \in Processes : Makes(p) =>
          net' = Closed([before[p] EXCEPT !.exists = TRUE, !.persist = Mode(p) = "mktun"])]_vars

\* Each packet accepted for writing is counted exactly once, as written or as
\* failed, and when a worker has drained its context none is left uncounted.
PacketsCounted ==
  /\ AcceptedCountedOnce
  /\ main \in {"loop", "joined"} =>
       \A w \in Workers : pc[w] = "left" => Uncounted(ring[w]) = {}

\* A start that fails, and a daemon told to stop, come to an end: no worker
\* stays at the gate and nobody waits for a thread that was never created.
EndsInTheEnd == main = "failed" \/ shutdown ~> main = "end"
============================================================================
