--------------------------- MODULE LifecycleProofs ---------------------------
(* Theorems about the process: what holds of its transmit contexts for any number of
   workers, frames and packets, through startup, failure, shutdown and kill; and that the
   set-up of the device is a transaction, for any network and any number of processes. *)
EXTENDS Lifecycle, AsyncTunProofs, SequenceLemmas

\* The numbers of the packets of thread w the device has.
OnWire(w) == {wire[k][2] : k \in {k \in DOMAIN wire : wire[k][1] = w}}

\* async_tun_init has not run.
InSetup == main \in {"setup", "async"}

\* The inductive invariant behind KernelOwnsFrame and WireInOrder.  That no context has
\* storage before async_tun_init is what lets it free and allocate freely.
IInv ==
  /\ ring \in [Writers -> Context]
  /\ wire \in Seq(Writers \X Nat)
  /\ sent \in [Writers -> Nat]
  /\ InSetup => \A w \in Writers : ring[w].storage # "live"
  /\ \A w \in Writers : Good(ring[w], w, sent[w], OnWire(w))
  /\ WireInOrder

\* Packet numbers on the wire are numbers.
LEMMA OnWireNat == ASSUME IInv, NEW w \in Writers PROVE OnWire(w) \in SUBSET Nat
BY DEF IInv, OnWire

\* Nothing is written before the process starts.
LEMMA GoodInit == Init => IInv
<1> SUFFICES ASSUME Init PROVE IInv OBVIOUS
<1> USE SlotFacts
<1>1. NewContext \in Context
  <2>1. 0 \in Slot BY DEF Slot
  <2>2. /\ [s \in Slot |-> "FREE"] \in [Slot -> FrameStates]
        /\ [s \in Slot |-> NoData] \in [Slot -> (Writers \X Nat) \cup {NoData}]
        /\ [s \in Slot |-> FALSE] \in [Slot -> BOOLEAN]
    BY DEF FrameStates, Receiving
  <2> QED BY <2>1, <2>2 DEF NewContext, Context
<1>2. /\ NewContext.queue = <<>> /\ NewContext.kernel = NoSlot /\ NewContext.answer[1] = NoSlot
      /\ NewContext.storage = "none"
  BY DEF NewContext
<1>3. wire = <<>> /\ ring = [w \in Writers |-> NewContext] /\ sent = [w \in Writers |-> 0]
  BY DEF Init, AsyncInit, Workers
<1>4. \A w \in Writers : OnWire(w) = {} BY <1>3 DEF OnWire
<1>5. \A w \in Writers : Good(NewContext, w, 0, {})
  BY <1>1, <1>2 DEF Good, Owned, Ordered
<1>6. WireInOrder BY <1>3 DEF WireInOrder
<1> HIDE DEF NewContext
<1>7. /\ ring \in [Writers -> Context] /\ sent \in [Writers -> Nat]
      /\ wire \in Seq(Writers \X Nat)
  BY <1>1, <1>3
<1>8. \A w \in Writers : Good(ring[w], w, sent[w], OnWire(w)) /\ ring[w].storage # "live"
  BY <1>2, <1>3, <1>4, <1>5
<1> QED BY <1>6, <1>7, <1>8 DEF IInv

\* Steps that touch neither the contexts nor the wire.
LEMMA Elsewhere ==
  ASSUME IInv, UNCHANGED asyncVars, UNCHANGED sent, InSetup' => InSetup
  PROVE  IInv'
BY DEF IInv, asyncVars, OnWire, WireInOrder

\* Steps that replace all contexts.
LEMMA AllContexts ==
  ASSUME IInv, UNCHANGED <<wire, sent>>, ~InSetup',
         ring' \in [Writers -> Context],
         \A w \in Writers : Good(ring'[w], w, sent[w], OnWire(w))
  PROVE  IInv'
BY DEF IInv, OnWire, WireInOrder

\* Calls of a thread for its own context.
LEMMA OneContext ==
  ASSUME IInv, NEW w \in Writers, NEW c, NEW n \in Nat,
         Set(w, c), sent' = [sent EXCEPT ![w] = n], main' = main,
         c.storage = "live" => ring[w].storage = "live",
         Good(c, w, n, OnWire(w))
  PROVE  IInv'
<1>1. /\ ring' = [ring EXCEPT ![w] = c] /\ wire' = wire BY DEF Set
<1>2. c \in Context BY DEF Good
<1>3. \A v \in Writers : OnWire(v)' = OnWire(v) BY <1>1 DEF OnWire
<1>4. \A v \in Writers : Good(ring'[v], v, sent'[v], OnWire(v)') BY <1>1, <1>3 DEF IInv
<1>5. WireInOrder' BY <1>1 DEF IInv, WireInOrder
<1> QED BY <1>1, <1>2, <1>4, <1>5 DEF IInv, InSetup

\* The answer of the kernel, and with it the packet on the wire.
LEMMA KernelStep ==
  ASSUME IInv, NEW w \in Workers, Kernel(w)
  PROVE  IInv'
<1> DEFINE c == ring[w]
<1> DEFINE packet == c.data[c.kernel]
<1>1. w \in Writers BY DEF Workers
<1>2. PICK result \in Results :
        /\ ring' = [ring EXCEPT ![w].kernel = NoSlot, ![w].answer = <<ring[w].kernel, result>>]
        /\ wire' = IF result = "full" THEN Append(wire, packet) ELSE wire
  BY DEF Kernel, KernelWrites
<1>3. /\ c.kernel # NoSlot /\ main' = main /\ sent' = sent
      /\ c \in Context /\ Owned(c) /\ Ordered(c, w, sent[w], OnWire(w))
  BY <1>1 DEF Kernel, KernelWrites, mainVars, threadVars, IInv, Good
<1>4. ~InSetup BY <1>1, <1>3 DEF IInv, Owned
<1>5. packet \in {w} \X Nat /\ \A m \in OnWire(w) : m < packet[2]
  BY <1>3 DEF Ordered, Between, Number
<1> DEFINE d == [c EXCEPT !.kernel = NoSlot, !.answer = <<c.kernel, result>>]
<1>6. ring' = [ring EXCEPT ![w] = d] BY <1>1, <1>2, <1>3 DEF IInv, Context
<1>7. OnWire(w) \in SUBSET Nat /\ sent[w] \in Nat BY <1>1, OnWireNat DEF IInv
<1>8. /\ Good(d, w, sent[w], OnWire(w))
      /\ Good(d, w, sent[w], OnWire(w) \cup {Number(c, c.kernel)})
  <2>1. Good(c, w, sent[w], OnWire(w)) BY <1>1 DEF IInv
  <2> HIDE DEF c
  <2> QED BY <1>1, <1>3, <1>7, <2>1, AnsweredGood
<1>9. ring' \in [Writers -> Context]
  <2>1. d \in Context BY <1>8 DEF Good
  <2> HIDE DEF d
  <2> QED BY <1>6, <2>1 DEF IInv
<1> HIDE DEF d
<1>10. CASE result # "full"
  <2>1. wire' = wire BY <1>2, <1>10
  <2>2. \A v \in Writers : OnWire(v)' = OnWire(v) BY <2>1 DEF OnWire
  <2>3. \A v \in Writers : Good(ring'[v], v, sent'[v], OnWire(v)')
    BY <1>1, <1>3, <1>6, <1>8, <2>2 DEF IInv
  <2>4. WireInOrder' BY <2>1 DEF IInv, WireInOrder
  <2> QED BY <1>3, <1>4, <1>9, <2>1, <2>3, <2>4 DEF IInv, InSetup
<1>11. CASE result = "full"
  <2> HIDE DEF packet, c
  <2>1. wire' = Append(wire, packet) /\ wire \in Seq(Writers \X Nat) /\ packet \in Writers \X Nat
    BY <1>1, <1>2, <1>5, <1>11 DEF IInv
  <2>2. /\ wire' \in Seq(Writers \X Nat) /\ Len(wire) \in Nat
        /\ DOMAIN wire = 1..Len(wire) /\ DOMAIN wire' = 1..Len(wire)+1
        /\ \A k \in DOMAIN wire : wire'[k] = wire[k]
        /\ wire'[Len(wire)+1] = packet
    BY <2>1
  <2>3. \A v \in Writers : OnWire(v)' = IF v = w THEN OnWire(v) \cup {packet[2]} ELSE OnWire(v)
    <3> SUFFICES ASSUME NEW v \in Writers
                 PROVE  OnWire(v)' = IF v = w THEN OnWire(v) \cup {packet[2]} ELSE OnWire(v)
      OBVIOUS
    <3> DEFINE Old == {k \in DOMAIN wire : wire[k][1] = v}
    <3> DEFINE New == {k \in DOMAIN wire' : wire'[k][1] = v}
    <3>1. New = IF v = w THEN Old \cup {Len(wire)+1} ELSE Old
      BY <1>5, <2>2
    <3>2. \A k \in Old : wire'[k][2] = wire[k][2]
      BY <2>2
    <3>3. OnWire(v) = {wire[k][2] : k \in Old} /\ OnWire(v)' = {wire'[k][2] : k \in New}
      BY DEF OnWire
    <3>4. wire'[Len(wire)+1][2] = packet[2] BY <2>2
    <3> HIDE DEF Old, New
    <3> QED BY <3>1, <3>2, <3>3, <3>4
  <2>4. Number(c, c.kernel) = packet[2] BY DEF Number, packet
  <2>5. \A v \in Writers : Good(ring'[v], v, sent'[v], OnWire(v)')
    BY <1>1, <1>3, <1>6, <1>8, <2>3, <2>4 DEF IInv
  <2>6. WireInOrder'
    <3> SUFFICES ASSUME NEW i \in DOMAIN wire', NEW j \in DOMAIN wire',
                        i < j, wire'[i][1] = wire'[j][1]
                 PROVE  wire'[i][2] < wire'[j][2]
      BY DEF WireInOrder
    <3>1. i \in DOMAIN wire BY <2>2
    <3>2. CASE j \in DOMAIN wire
      BY <2>2, <3>1, <3>2 DEF IInv, WireInOrder
    <3>3. CASE j = Len(wire) + 1
      <4>1. wire[i][1] = w /\ wire'[i] = wire[i] /\ wire'[j] = packet
        BY <1>5, <2>2, <3>1, <3>3
      <4>2. wire[i][2] \in OnWire(w) BY <3>1, <4>1 DEF OnWire
      <4> QED BY <1>5, <4>1, <4>2
    <3> QED BY <2>2, <3>2, <3>3
  <2> QED BY <1>3, <1>4, <1>9, <2>2, <2>5, <2>6 DEF IInv, InSetup
<1> QED BY <1>10, <1>11

\* Every step of the process keeps the contexts good and the wire in order.
LEMMA GoodNext == IInv /\ [Next]_vars => IInv'
<1> SUFFICES ASSUME IInv, [Next]_vars PROVE IInv' OBVIOUS
<1> USE DEF Workers
<1>0. \A w \in Writers :
        /\ ring[w] \in Context /\ sent[w] \in Nat /\ OnWire(w) \in SUBSET Nat
        /\ Good(ring[w], w, sent[w], OnWire(w))
  BY OnWireNat DEF IInv
<1>1. CASE UNCHANGED vars
  BY <1>1, Elsewhere DEF vars, threadVars, mainVars, InSetup
<1>2. CASE \E p \in Processes : Setup(p)
  BY <1>2, Elsewhere DEF Setup, threadVars, mainVars, InSetup
<1>3. CASE StartDispatch
  BY <1>3, Elsewhere DEF StartDispatch, Next1, threadVars, InSetup
<1>4. CASE StartAsync
  <2>1. sent' = sent /\ ~InSetup' /\ wire' = wire /\ InSetup
    BY <1>4 DEF StartAsync, threadVars, InSetup, InitContexts, InitFails
  <2>2. \A w \in Writers : ring[w].kernel = NoSlot
    BY <1>0, <2>1 DEF IInv, Good, Owned
  <2>3. \A w \in Writers, storage \in {"live", "freed"} :
          /\ [ring[w] EXCEPT !.storage = storage] \in Context
          /\ Good([ring[w] EXCEPT !.storage = storage], w, sent[w], OnWire(w))
    <3> SUFFICES ASSUME NEW w \in Writers, NEW storage \in {"live", "freed"}
                 PROVE  /\ [ring[w] EXCEPT !.storage = storage] \in Context
                        /\ Good([ring[w] EXCEPT !.storage = storage], w, sent[w], OnWire(w))
      OBVIOUS
    <3> DEFINE c == ring[w]
    <3> DEFINE d == [c EXCEPT !.storage = storage]
    <3>1. c \in Context /\ c.kernel = NoSlot /\ Good(c, w, sent[w], OnWire(w)) BY <1>0, <2>2
    <3> HIDE DEF c
    <3>2. /\ d \in Context /\ d.kernel = NoSlot
          /\ d.frames = c.frames /\ d.data = c.data /\ d.queue = c.queue
          /\ d.outstanding = c.outstanding /\ d.answer = c.answer
      BY <3>1 DEF Context
    <3> HIDE DEF d
    <3>3. Good(d, w, sent[w], OnWire(w)) BY <1>0, <3>1, <3>2, AsideGood
    <3> QED BY <3>2, <3>3 DEF c, d
  <2>4. /\ ring' \in [Writers -> Context]
        /\ \A w \in Writers : Good(ring'[w], w, sent[w], OnWire(w))
    <3>1. CASE InitContexts BY <2>3, <3>1 DEF InitContexts
    <3>2. CASE InitFails
      <4>1. PICK n \in Writers : ring' = [w \in Writers |->
              IF w < n THEN [ring[w] EXCEPT !.storage = "freed"] ELSE ring[w]]
        BY <3>2 DEF InitFails
      <4>2. \A w \in Writers : ring'[w] \in {[ring[w] EXCEPT !.storage = "freed"], ring[w]}
        BY <4>1
      <4>3. \A w \in Writers : ring'[w] \in Context /\ Good(ring'[w], w, sent[w], OnWire(w))
        BY <1>0, <2>3, <4>2
      <4> QED BY <4>1, <4>3
    <3> QED BY <1>4, <3>1, <3>2 DEF StartAsync
  <2> QED BY <2>1, <2>4, AllContexts
<1>5. CASE \E w \in Workers : CreateWorker(w)
  BY <1>5, Elsewhere DEF CreateWorker, InSetup
<1>6. CASE OpenGate
  BY <1>6, Elsewhere DEF OpenGate, threadVars, InSetup
<1>7. CASE CloseGate
  BY <1>7, Elsewhere DEF CloseGate, threadVars, InSetup
<1>8. CASE StartupFailed \/ Join
  <2>1. sent' = sent /\ ~InSetup' /\ (UNCHANGED asyncVars \/ Destroy)
    BY <1>8 DEF StartupFailed, Join, threadVars, InSetup
  <2>2. CASE Destroy
    <3>1. \A w \in Writers : Good(Destroyed(ring[w]), w, sent[w], OnWire(w))
      BY <1>0, DestroyedGood
    <3>2. \A w \in Writers : Destroyed(ring[w]) \in Context BY <3>1 DEF Good
    <3> QED BY <2>1, <2>2, <3>1, <3>2, AllContexts DEF Destroy
  <2> QED BY <2>1, <2>2, Elsewhere
<1>9. CASE Exit
  BY <1>9, Elsewhere DEF Exit, threadVars, InSetup
<1>10. CASE \E w \in Workers : PassGate(w)
  BY <1>10, Elsewhere DEF PassGate, mainVars, InSetup
<1>11. ASSUME NEW w \in Workers, WritePacket(w) PROVE IInv'
  <2>1. /\ sent' = [sent EXCEPT ![w] = sent[w] + 1] /\ sent'[w] = sent[w] + 1 /\ main' = main
        /\ ring[w].storage = "live"
    BY <1>11 DEF WritePacket, Write, Live, mainVars, IInv
  <2>2. PICK how \in Submitted : Set(w, AfterSubmit(ring[w], <<w, sent[w] + 1>>, how))
    BY <1>11, <2>1 DEF WritePacket, Write
  <2>3. Good(AfterSubmit(ring[w], <<w, sent[w] + 1>>, how), w, sent[w] + 1, OnWire(w))
    BY <1>0, <2>1, SubmitGood
  <2>4. sent[w] + 1 \in Nat BY <1>0
  <2> QED BY <2>1, <2>2, <2>3, <2>4, OneContext
<1>12. ASSUME NEW w \in Workers, ServiceRing(w) \/ Drain(w) PROVE IInv'
  <2>1. Service(w) /\ main' = main /\ sent' = sent
    BY <1>12 DEF ServiceRing, Drain, mainVars, threadVars
  <2>2. PICK how \in Submitted : Set(w, Serviced(ring[w], how))
    BY <2>1 DEF Service
  <2>3. ring[w].storage = "live" BY <2>1 DEF Service, Live
  <2>4. Good(Serviced(ring[w], how), w, sent[w], OnWire(w))
    BY <1>0, <2>3, ServicedGood
  <2>5. sent' = [sent EXCEPT ![w] = sent[w]] BY <2>1 DEF IInv
  <2> QED BY <1>0, <2>1, <2>2, <2>3, <2>4, <2>5, OneContext
<1>13. CASE \E w \in Workers : LeaveLoop(w)
  BY <1>13, Elsewhere DEF LeaveLoop, InSetup
<1>14. ASSUME NEW w \in Workers, StopWriting(w) PROVE IInv'
  <2>1. Set(w, Stopping(ring[w])) /\ main' = main /\ sent' = [sent EXCEPT ![w] = sent[w]]
    BY <1>14 DEF StopWriting, Stop, mainVars, IInv
  <2>2. Stopping(ring[w]).storage = ring[w].storage BY <1>0 DEF Stopping, Context
  <2>3. Good(Stopping(ring[w]), w, sent[w], OnWire(w)) BY <1>0, StoppingGood
  <2> QED BY <1>0, <2>1, <2>2, <2>3, OneContext
<1>15. ASSUME NEW w \in Workers, LeaveDrain(w) PROVE IInv'
  <2> DEFINE c == IF Idle(ring[w]) THEN ring[w] ELSE Abandon(ring[w])
  <2>1. Set(w, c)
    BY <1>15 DEF LeaveDrain, Finish
  <2>2. main' = main /\ sent' = [sent EXCEPT ![w] = sent[w]] /\ ring[w].storage = "live"
    BY <1>15 DEF LeaveDrain, Finish, Live, IInv
  <2>3. Good(c, w, sent[w], OnWire(w)) BY <1>0, AbandonGood
  <2> HIDE DEF c
  <2> QED BY <1>0, <2>1, <2>2, <2>3, OneContext
<1>16. CASE Terminate
  BY <1>16, Elsewhere DEF Terminate, threadVars, InSetup
<1>17. CASE \E p \in Processes : Kill(p)
  BY <1>17, Elsewhere DEF Kill, InSetup
<1>18. CASE Finished
  BY <1>18, Elsewhere DEF Finished, vars, threadVars, mainVars, InSetup
<1> QED
  BY <1>1, <1>2, <1>3, <1>4, <1>5, <1>6, <1>7, <1>8, <1>9, <1>10, <1>11, <1>12, <1>13,
     <1>14, <1>15, <1>16, <1>17, <1>18, KernelStep, LifecycleAssumption DEF Next, MainStep

\* A write the kernel has not answered reads storage that is there, in a frame nobody
\* else can have (experimental_io.c), for any number of workers and frames, whatever
\* fails at startup and whenever the process is told to stop.
THEOREM KernelOwnsFrameAlways == Spec => []KernelOwnsFrame
<1>1. IInv => KernelOwnsFrame
  BY DEF IInv, Good, Owned, KernelOwnsFrame
<1> QED BY <1>1, GoodInit, GoodNext, PTL DEF Spec

\* The device sees the packets of a thread in the order they were accepted and none
\* twice, although frames are taken around a ring, a write fails and the drain at the
\* end of the thread gives up.
THEOREM WireInOrderAlways == Spec => []WireInOrder
<1>1. IInv => WireInOrder BY DEF IInv
<1> QED BY <1>1, GoodInit, GoodNext, PTL DEF Spec

----------------------------------------------------------------------------
\* Where a worker can be.
Labels == {"none", "gate", "loop", "stop", "drain", "left"}

\* No worker is past the gate.
Early == main \in {"setup", "async", "threads", "failed"}

\* The gate was opened, so every worker that was created drains before it leaves.
Running == main \in {"loop", "joined"}

\* The inductive invariant behind PacketsCounted.  A context is Active until its worker
\* leaves; a worker leaves without draining only through a gate that closed, or when
\* the process is killed.
CInv ==
  /\ pc \in [Writers -> Labels]
  /\ \A w \in Writers : Tallied(ring[w]) /\ (pc[w] # "left" => Active(ring[w]))
  /\ Early => gate = 0 /\ \A w \in Writers : pc[w] \in {"none", "gate"}
  /\ Running => gate = 1 /\ \A w \in Writers : pc[w] = "left" => Uncounted(ring[w]) = {}

\* Nothing is counted before the process starts.
LEMMA CountInit == Init => CInv
<1> SUFFICES ASSUME Init PROVE CInv OBVIOUS
<1>1. /\ ring = [w \in Writers |-> NewContext] /\ pc = [w \in Writers |-> "none"]
      /\ main = "setup" /\ gate = 0
  BY DEF Init, AsyncInit, Workers
<1>2. /\ NewContext.frames = [s \in Slot |-> "FREE"] /\ NewContext.accepted = 0
      /\ NewContext.completed = 0 /\ NewContext.errors = 0
  BY DEF NewContext
<1> HIDE DEF NewContext
<1>3. Busy(NewContext) = {} /\ Filed(NewContext) BY <1>2 DEF Busy, Filed
<1>4. Open(NewContext) BY <1>3 DEF Open
<1>5. Uncounted(NewContext) = {} BY <1>3, <1>4, OpenUncounted
<1>6. Tallied(NewContext) BY <1>2, <1>5, FS_EmptySet DEF Tallied
<1>7. Active(NewContext) BY <1>3, <1>4, <1>6 DEF Active
<1> QED BY <1>1, <1>6, <1>7 DEF CInv, Early, Running, Labels

\* Steps that change no frame and no counter: what is left is control.
LEMMA CountSame ==
  ASSUME CInv, ring \in [Writers -> Context],
         \A w \in Writers : Same(ring[w], ring'[w]),
         pc' \in [Writers -> Labels],
         \A w \in Writers : pc[w] = "left" => pc'[w] = "left",
         Early' => gate' = 0 /\ \A w \in Writers : pc'[w] \in {"none", "gate"},
         Running' => /\ gate' = 1
                     /\ \A w \in Writers : pc'[w] = "left" => Running /\ pc[w] = "left"
  PROVE  CInv'
<1>1. \A w \in Writers : Uncounted(ring'[w]) = Uncounted(ring[w]) /\ Tallied(ring'[w])
  BY SameTallied DEF CInv
<1>2. \A w \in Writers : pc'[w] # "left" => Active(ring'[w])
  BY SameActive DEF CInv
<1>3. Running' => \A w \in Writers : pc'[w] = "left" => Uncounted(ring'[w]) = {}
  BY <1>1 DEF CInv
<1> QED BY <1>1, <1>2, <1>3 DEF CInv

\* A worker past the gate that changes its own context.
LEMMA CountOne ==
  ASSUME CInv, ring \in [Writers -> Context], NEW w \in Writers, NEW c, NEW label \in Labels,
         ring' = [ring EXCEPT ![w] = c], pc' = [pc EXCEPT ![w] = label],
         main' = main, gate' = gate,
         pc[w] \notin {"none", "gate"},
         Tallied(c), label # "left" => Active(c), label = "left" => Uncounted(c) = {}
  PROVE  CInv'
<1>1. ~Early BY DEF CInv
<1>2. \A v \in Writers : ring'[v] = (IF v = w THEN c ELSE ring[v])
                         /\ pc'[v] = (IF v = w THEN label ELSE pc[v])
  BY DEF CInv
<1>3. pc' \in [Writers -> Labels] BY DEF CInv
<1>4. \A v \in Writers : Tallied(ring'[v]) /\ (pc'[v] # "left" => Active(ring'[v]))
  BY <1>2 DEF CInv
<1>5. Running => \A v \in Writers : pc'[v] = "left" => Uncounted(ring'[v]) = {}
  BY <1>2 DEF CInv
<1>6. (Early' <=> Early) /\ (Running' <=> Running) BY DEF Early, Running
<1> QED BY <1>1, <1>3, <1>4, <1>5, <1>6 DEF CInv

\* Every step of the process keeps the counters exact.
LEMMA CountNext == IInv /\ CInv /\ [Next]_vars => CInv'
<1> SUFFICES ASSUME IInv, CInv, [Next]_vars PROVE CInv' OBVIOUS
<1> USE DEF Workers
<1>0. /\ ring \in [Writers -> Context] /\ pc \in [Writers -> Labels]
      /\ Early => gate = 0 /\ \A w \in Writers : pc[w] \in {"none", "gate"}
      /\ Running => gate = 1
      /\ \A w \in Writers : /\ ring[w] \in Context /\ sent[w] \in Nat /\ OnWire(w) \in SUBSET Nat
                            /\ Good(ring[w], w, sent[w], OnWire(w)) /\ Sound(ring[w])
  BY OnWireNat, GoodSound DEF IInv, CInv
<1>1. \A w \in Writers : pc[w] # "left" => Active(ring[w])
  BY DEF CInv
<1>2. CASE UNCHANGED <<ring, pc, main, gate>>
  BY <1>0, <1>2, SameSame, CountSame DEF Early, Running
<1>3. CASE UNCHANGED <<ring, pc, gate>> /\ Early /\ Early'
  BY <1>0, <1>3, SameSame, CountSame DEF Early, Running
<1>4. CASE UNCHANGED <<ring, pc>> /\ ~Early' /\ ~Running'
  BY <1>0, <1>4, SameSame, CountSame
<1>5. CASE \E p \in Processes : Setup(p)
  BY <1>2, <1>5 DEF Setup, asyncVars, threadVars, mainVars
<1>6. CASE StartDispatch
  BY <1>3, <1>6 DEF StartDispatch, Next1, asyncVars, threadVars, Early
<1>7. CASE StartAsync
  <2>1. UNCHANGED <<pc, gate>> /\ Early /\ Early'
    BY <1>7 DEF StartAsync, threadVars, Early
  <2>2. \A w \in Writers : ring'[w] \in {[ring[w] EXCEPT !.storage = "live"],
                                        [ring[w] EXCEPT !.storage = "freed"], ring[w]}
    BY <1>7 DEF StartAsync, InitContexts, InitFails
  <2>3. \A w \in Writers : Same(ring[w], ring'[w])
    <3> SUFFICES ASSUME NEW w \in Writers PROVE Same(ring[w], ring'[w]) OBVIOUS
    <3>1. PICK c : c = ring[w] OBVIOUS
    <3>2. PICK d : d = ring'[w] OBVIOUS
    <3>3. c \in Context BY <1>0, <3>1
    <3>4. d \in {[c EXCEPT !.storage = "live"], [c EXCEPT !.storage = "freed"], c}
      BY <2>2, <3>1, <3>2
    <3>5. Same(c, d) BY <3>3, <3>4, SameStorage
    <3> QED BY <3>1, <3>2, <3>5
  <2> QED BY <1>0, <2>1, <2>3, CountSame DEF Early, Running
<1>8. CASE \E w \in Workers : CreateWorker(w)
  <2>1. PICK w \in Workers : CreateWorker(w) BY <1>8
  <2>2. /\ UNCHANGED <<ring, gate>> /\ Early /\ Early' /\ pc[w] = "none"
        /\ pc' = [pc EXCEPT ![w] = "gate"] \/ pc' = pc
    BY <2>1 DEF CreateWorker, Missing, Label, asyncVars, Early
  <2>3. pc' \in [Writers -> Labels] /\ \A v \in Writers : pc'[v] \in {"none", "gate"}
    BY <1>0, <2>2 DEF Labels
  <2> QED BY <1>0, <2>2, <2>3, SameSame, CountSame DEF Early, Running
<1>9. CASE OpenGate
  <2>1. UNCHANGED <<ring, pc>> /\ Early BY <1>9 DEF OpenGate, asyncVars, threadVars, Early
  <2>2. CASE main' = "loop" /\ gate' = 1
    BY <1>0, <2>1, <2>2, SameSame, CountSame DEF Early, Running
  <2>3. CASE main' = "failed" /\ gate' = gate
    BY <1>3, <2>1, <2>3 DEF Early
  <2> QED BY <1>9, <2>2, <2>3 DEF OpenGate
<1>10. CASE CloseGate
  BY <1>4, <1>10 DEF CloseGate, asyncVars, threadVars, Early, Running
<1>11. CASE StartupFailed \/ Join
  <2>1. /\ pc' = pc /\ ~Early' /\ gate' = gate /\ (Running' => Running)
        /\ UNCHANGED asyncVars \/ Destroy
    BY <1>11 DEF StartupFailed, Join, threadVars, Early, Running
  <2>2. \A w \in Writers : ring'[w] \in {ring[w], Destroyed(ring[w])}
    BY <2>1 DEF asyncVars, Destroy
  <2>3. \A w \in Writers : Same(ring[w], ring'[w])
    BY <1>0, <2>2, SameSame, DestroyedSame
  <2> QED BY <1>0, <2>1, <2>3, CountSame
<1>12. CASE Exit
  BY <1>4, <1>12 DEF Exit, asyncVars, threadVars, Early, Running
<1>13. CASE \E w \in Workers : PassGate(w)
  <2>1. PICK w \in Workers : PassGate(w) BY <1>13
  <2>2. /\ UNCHANGED <<ring, main, gate>> /\ pc[w] = "gate" /\ ~Early
        /\ pc' = [pc EXCEPT ![w] = IF gate = 1 THEN "loop" ELSE "left"]
    BY <1>0, <2>1 DEF PassGate, Label, asyncVars, mainVars
  <2>3. /\ pc' \in [Writers -> Labels]
        /\ \A v \in Writers : pc'[v] = "left" => pc[v] = "left" \/ gate # 1
        /\ \A v \in Writers : pc[v] = "left" => pc'[v] = "left"
    BY <1>0, <2>2 DEF Labels
  <2> QED BY <1>0, <2>2, <2>3, SameSame, CountSame DEF Early, Running
<1>14. ASSUME NEW w \in Workers, WritePacket(w) PROVE CInv'
  <2>1. /\ sent' = [sent EXCEPT ![w] = sent[w] + 1] /\ sent'[w] = sent[w] + 1
        /\ main' = main /\ gate' = gate /\ pc' = pc /\ pc[w] = "loop"
        /\ ring[w].storage = "live"
    BY <1>14 DEF WritePacket, Write, Live, mainVars, IInv
  <2>2. PICK how \in Submitted : Set(w, AfterSubmit(ring[w], <<w, sent[w] + 1>>, how))
    BY <1>14, <2>1 DEF WritePacket, Write
  <2>3. PICK c : c = AfterSubmit(ring[w], <<w, sent[w] + 1>>, how) OBVIOUS
  <2>4. Active(c) /\ Tallied(c) BY <1>0, <1>1, <2>1, <2>3, SubmitActive DEF Active
  <2>5. ring' = [ring EXCEPT ![w] = c] BY <2>2, <2>3 DEF Set
  <2>6. pc' = [pc EXCEPT ![w] = "loop"] /\ "loop" \in Labels BY <1>0, <2>1 DEF Labels
  <2> QED BY <1>0, <2>1, <2>4, <2>5, <2>6, CountOne
<1>15. ASSUME NEW w \in Workers, ServiceRing(w) \/ Drain(w) PROVE CInv'
  <2>1. /\ Service(w) /\ main' = main /\ gate' = gate /\ pc[w] \in {"loop", "drain"}
        /\ pc' \in {pc, [pc EXCEPT ![w] = "stop"]}
    BY <1>15 DEF ServiceRing, Drain, mainVars, threadVars, Label
  <2>2. PICK how \in Submitted : Set(w, Serviced(ring[w], how))
    BY <2>1 DEF Service
  <2>3. PICK c : c = Serviced(ring[w], how) OBVIOUS
  <2>4. Active(c) /\ Tallied(c) BY <1>0, <1>1, <2>1, <2>3, ServicedActive DEF Active
  <2>5. ring' = [ring EXCEPT ![w] = c] BY <2>2, <2>3 DEF Set
  <2>6. PICK label \in {"loop", "drain", "stop"} : pc' = [pc EXCEPT ![w] = label]
    BY <1>0, <2>1
  <2>7. label \in Labels /\ label # "left" BY DEF Labels
  <2> QED BY <1>0, <2>1, <2>4, <2>5, <2>6, <2>7, CountOne
<1>16. ASSUME NEW w \in Workers, LeaveLoop(w) PROVE CInv'
  <2>1. /\ ring' = ring /\ main' = main /\ gate' = gate /\ pc[w] = "loop"
        /\ pc' = [pc EXCEPT ![w] = "stop"]
    BY <1>16 DEF LeaveLoop, Label, asyncVars
  <2>2. ring' = [ring EXCEPT ![w] = ring[w]] /\ "stop" \in Labels
    BY <1>0, <2>1 DEF Labels
  <2>3. Active(ring[w]) /\ Tallied(ring[w]) BY <1>1, <2>1 DEF Active
  <2> QED BY <1>0, <2>1, <2>2, <2>3, CountOne
<1>17. ASSUME NEW w \in Workers, StopWriting(w) PROVE CInv'
  <2>1. /\ ring' = [ring EXCEPT ![w] = Stopping(ring[w])] /\ main' = main /\ gate' = gate
        /\ pc[w] = "stop" /\ pc' = [pc EXCEPT ![w] = "drain"] /\ "drain" \in Labels
    BY <1>17 DEF StopWriting, Stop, Set, Label, mainVars, Labels
  <2>2. Active(Stopping(ring[w])) /\ Tallied(Stopping(ring[w]))
    BY <1>0, <1>1, <2>1, StoppingSame, SameActive DEF Active
  <2> QED BY <1>0, <2>1, <2>2, CountOne
<1>18. ASSUME NEW w \in Workers, LeaveDrain(w) PROVE CInv'
  <2> DEFINE c == IF Idle(ring[w]) THEN ring[w] ELSE Abandon(ring[w])
  <2>1. /\ ring' = [ring EXCEPT ![w] = c] /\ main' = main /\ gate' = gate
        /\ pc[w] = "drain" /\ pc' = [pc EXCEPT ![w] = "left"] /\ "left" \in Labels
    BY <1>18 DEF LeaveDrain, Finish, Set, Label, Labels
  <2>2. Active(ring[w]) /\ Tallied(ring[w]) BY <1>1, <2>1 DEF Active
  <2>3. Uncounted(c) = {} /\ Tallied(c)
    BY <1>0, <2>2, IdleCounted, AbandonCounted
  <2> HIDE DEF c
  <2> QED BY <1>0, <2>1, <2>3, CountOne
<1>19. ASSUME NEW w \in Workers, Kernel(w) PROVE CInv'
  <2>1. /\ UNCHANGED <<pc, main, gate>>
        /\ \E result : ring' = [ring EXCEPT ![w].kernel = NoSlot,
                                            ![w].answer = <<ring[w].kernel, result>>]
    BY <1>19 DEF Kernel, KernelWrites, mainVars, threadVars
  <2>2. PICK result : ring' = [ring EXCEPT ![w].kernel = NoSlot,
                                           ![w].answer = <<ring[w].kernel, result>>]
    BY <2>1
  <2>3. /\ ring'[w] = [ring[w] EXCEPT !.kernel = NoSlot, !.answer = <<ring[w].kernel, result>>]
        /\ \A v \in Writers : v # w => ring'[v] = ring[v]
    BY <1>0, <2>2 DEF Context
  <2>4. \A v \in Writers : Same(ring[v], ring'[v])
    <3> SUFFICES ASSUME NEW v \in Writers PROVE Same(ring[v], ring'[v]) OBVIOUS
    <3>1. CASE v # w
      BY <2>3, <3>1, SameSame
    <3>2. CASE v = w
      <4>1. PICK c : c = ring[w] OBVIOUS
      <4>2. PICK d : d = ring'[w] OBVIOUS
      <4>3. PICK kernel : kernel = NoSlot OBVIOUS
      <4>4. PICK answer : answer = <<ring[w].kernel, result>> OBVIOUS
      <4>5. c \in Context BY <1>0, <4>1
      <4>6. d = [c EXCEPT !.kernel = kernel, !.answer = answer]
        BY <2>3, <4>1, <4>2, <4>3, <4>4
      <4>7. Same(c, d) BY <4>5, <4>6, SameAnswered
      <4> QED BY <3>2, <4>1, <4>2, <4>7
    <3> QED BY <3>1, <3>2
  <2> QED BY <1>0, <2>1, <2>4, CountSame DEF Early, Running
<1>20. CASE Terminate
  BY <1>2, <1>20 DEF Terminate, asyncVars, threadVars
<1>21. CASE \E p \in Processes : Kill(p)
  <2>1. /\ ring' = ring /\ gate' = gate
        /\ \/ main' = "end" /\ pc' = [w \in Writers |-> "left"]
           \/ main' = main /\ pc' = pc
    BY <1>21 DEF Kill, asyncVars
  <2>2. CASE main' = "end" /\ pc' = [w \in Writers |-> "left"]
    BY <1>0, <2>1, <2>2, SameSame, CountSame DEF Early, Running, Labels
  <2> QED BY <1>2, <2>1, <2>2
<1>22. CASE Finished \/ UNCHANGED vars
  BY <1>2, <1>22 DEF Finished, vars, asyncVars, threadVars, mainVars
<1> QED
  BY <1>5, <1>6, <1>7, <1>8, <1>9, <1>10, <1>11, <1>12, <1>13, <1>14, <1>15, <1>16, <1>17,
     <1>18, <1>19, <1>20, <1>21, <1>22, LifecycleAssumption DEF Next, MainStep

\* Each packet accepted for writing is counted exactly once, as written or as failed,
\* and a worker that left its loop left no packet uncounted (async_tun_finish).
THEOREM PacketsCountedAlways == Spec => []PacketsCounted
<1>1. CInv => PacketsCounted
  BY DEF CInv, Running, Tallied, PacketsCounted, AcceptedCountedOnce, Workers
<1> QED BY <1>1, GoodInit, GoodNext, CountInit, CountNext, PTL DEF Spec

----------------------------------------------------------------------------
(* Setup is a transaction *)

Stages ==
  {"idle", "lock", "attach", "save", "down", "persist", "queues", "up", "restore", "add",
   "ready", "reup", "unpersist", "made", "fail", "refused", "over", "running"}

\* What tayga.conf asks for, whoever asks.
Requests ==
  {[kind |-> "addr", what |-> a] : a \in Conf.addrs}
    \cup {[kind |-> "route", what |-> d] : d \in Conf.routes}

RouteKinds == {"none", "static", "tayga", "other"}

Transaction ==
  [stage : Stages, mode : {"run", "mktun", "rmtun"}, dispatch : BOOLEAN,
   fd : BOOLEAN, queues : 0..Queues, mask : {"udp", "tcp", "none"},
   valid : BOOLEAN, wasUp : BOOLEAN, created : BOOLEAN,
   saved : [addrs : SUBSET (V4 \cup V6), routes : [Dests -> RouteKinds]],
   undo : Seq(Requests)]

\* Addresses or routes requested, in the log of inverse requests.
Logged(t, kind) == {item.what : item \in {i \in ToSet(t.undo) : i.kind = kind}}

Opened(b) == [b EXCEPT !.exists = TRUE]

\* From b, addresses may be lost, and routes over the device; what is new is logged.
Loose(n, b, t) ==
  /\ n.addrs \subseteq b.addrs \cup Logged(t, "addr")
  /\ \A d \in Dests : \/ n.routes[d] \in {b.routes[d], Vanished(b)[d]}
                      \/ d \in Logged(t, "route") /\ n.routes[d] = "tayga"

\* The device b after it was taken down.
Lowered(n, b) ==
  /\ n.addrs \subseteq b.addrs /\ (b.up \/ n.addrs = b.addrs)
  /\ n.routes = Vanished(b)

\* The device b, up if it was or shall be, with what was requested so far.
Extended(n, b, t) ==
  /\ n.up = (b.up \/ Conf.up)
  /\ n.addrs = b.addrs \cup Logged(t, "addr")
  /\ n.routes = [d \in Dests |-> IF d \in Logged(t, "route") THEN "tayga" ELSE b.routes[d]]

\* The network n, for a process that holds the lock and found the network b: at any
\* stage what was there can be had back, and the stages on the way know how much is.
Held(t, n, b) ==
  /\ Settled(b)
  /\ t.stage \notin {"idle", "lock", "refused", "over"}
  /\ t.fd => n.exists /\ t.stage # "attach"
  /\ ~t.fd => ~t.valid /\ n = b /\ t.stage \in {"attach", "fail"}
  /\ t.fd /\ ~t.valid => t.stage \in {"save", "unpersist", "fail", "made", "running"}
  /\ t.fd /\ ~t.valid /\ t.stage \in {"save", "unpersist", "fail"} => n = Opened(b) /\ ~t.created
  /\ t.valid => /\ t.wasUp = b.up /\ t.saved = SavedConfig(b) /\ Loose(n, b, t)
                /\ n.persist = (b.persist \/ t.created) /\ (t.created => ~b.persist)
                /\ t.stage \notin {"save", "unpersist", "running"}
                /\ t.stage \in {"reup", "made", "fail"} \/ ~t.created
  /\ t.stage \in {"attach", "save"} => ~t.created /\ t.undo = <<>>
  /\ t.stage = "down" => n = Opened(b) /\ t.undo = <<>>
  /\ t.stage \in {"persist", "queues", "up", "reup"} => Lowered(n, b) /\ ~n.up /\ t.undo = <<>>
  /\ t.stage = "restore" => Lowered(n, b) /\ n.up = (b.up \/ Conf.up) /\ t.undo = <<>>
  /\ t.stage \in {"add", "ready"} => Extended(n, b, t)
  /\ t.stage = "ready" => ToSet(t.undo) = Requests
  /\ t.stage \in {"up", "restore", "add", "ready"} => \A q \in 0..t.queues : t.mask \in Able[q]
  /\ t.stage \in {"persist", "reup"} => t.mode = "mktun"
  /\ t.stage = "reup" => n.persist
  /\ t.stage = "unpersist" => t.mode = "rmtun"
  /\ t.stage = "made" => n = [Opened(b) EXCEPT !.persist = (t.mode = "mktun")]

\* A process without the lock has nothing open and nothing to take back.
Apart(t) ==
  /\ t.stage \in {"idle", "lock", "fail", "refused", "over"} /\ ~t.fd /\ ~t.valid
  /\ t.stage = "lock" => ~t.created /\ t.undo = <<>>

\* How far the daemon is, by its setup.
Along(m, stage) ==
  /\ m = "setup" => stage # "running"
  /\ m \in {"async", "threads"} => stage = "ready"
  /\ m \in {"failed", "fail_join"} => stage \in {"ready", "refused"}
  /\ m \in {"loop", "joined"} => stage = "running"
  /\ m = "end" => stage = "over"
  /\ m \in {"setup", "async", "threads", "failed", "fail_join", "loop", "joined", "end"}

TxInv ==
  /\ Legal(net) /\ lock \in Processes \cup {Nobody}
  /\ tun \in [Processes -> Transaction] /\ before \in [Processes -> Network]
  /\ lock = Nobody => Settled(net)
  /\ \A p \in Processes : IF lock = p THEN Held(tun[p], net, before[p]) ELSE Apart(tun[p])
  /\ Along(main, tun[Daemon].stage)

LEMMA RequestFacts ==
  /\ \A p : Todo(p) = Requests
  /\ \A item \in Requests :
       \/ item.kind = "addr" /\ item.what \in Conf.addrs /\ item.what \in V4 \cup V6
       \/ item.kind = "route" /\ item.what \in Conf.routes /\ item.what \in Dests
BY SetupAssumption DEF Todo, Requests

LEMMA NetworkFacts ==
  ASSUME NEW n \in Network
  PROVE  /\ n.exists \in BOOLEAN /\ n.up \in BOOLEAN /\ n.persist \in BOOLEAN
         /\ n.addrs \subseteq V4 \cup V6 /\ n.routes \in [Dests -> RouteKinds]
         /\ \A d \in Dests : n.routes[d] \in RouteKinds
BY DEF Network, RouteKinds

LEMMA VanishedFacts ==
  ASSUME NEW n \in Network
  PROVE  /\ Vanished(n) \in [Dests -> RouteKinds]
         /\ \A d \in Dests :
              Vanished(n)[d] = IF n.routes[d] \in {"static", "tayga"} THEN "none" ELSE n.routes[d]
BY NetworkFacts DEF Vanished, RouteKinds

\* Two networks are the same when they have the same of everything.
LEMMA SameNetwork ==
  ASSUME NEW n \in Network, NEW m \in Network,
         n.exists = m.exists, n.up = m.up, n.persist = m.persist, n.addrs = m.addrs,
         \A d \in Dests : n.routes[d] = m.routes[d]
  PROVE  n = m
<1>1. n.routes = m.routes BY NetworkFacts
<1> QED BY <1>1 DEF Network

LEMMA OpenedFacts ==
  ASSUME NEW b \in Network
  PROVE  /\ Opened(b) \in Network /\ Opened(b).exists /\ Opened(b).up = b.up
         /\ Opened(b).persist = b.persist /\ Opened(b).addrs = b.addrs
         /\ Opened(b).routes = b.routes
BY DEF Opened, Network

LEMMA UpFacts ==
  ASSUME NEW n \in Network
  PROVE  /\ Up(n) \in Network /\ Up(n).exists = n.exists /\ Up(n).up
         /\ Up(n).persist = n.persist /\ Up(n).addrs = n.addrs /\ Up(n).routes = n.routes
BY DEF Up, Network

\* A link that goes down keeps at most its addresses.
LEMMA DownsFacts ==
  ASSUME NEW n \in Network, NEW m \in Downs(n)
  PROVE  /\ m \in Network /\ m.exists = n.exists /\ ~m.up /\ m.persist = n.persist
         /\ m.addrs \subseteq n.addrs /\ (n.up \/ m = n)
         /\ n.up => m.routes = Vanished(n)
<1>1. CASE ~n.up BY <1>1, NetworkFacts DEF Downs
<1>2. CASE n.up
  <2>1. PICK kept \in {n.addrs, n.addrs \cap V4} :
          m = [n EXCEPT !.up = FALSE, !.routes = Vanished(n), !.addrs = kept]
    BY <1>2 DEF Downs
  <2>2. Vanished(n) \in [Dests -> {"none", "static", "tayga", "other"}]
    BY VanishedFacts DEF RouteKinds
  <2>3. PICK gone : gone = Vanished(n) OBVIOUS
  <2>4. m = [n EXCEPT !.up = FALSE, !.routes = gone, !.addrs = kept] BY <2>1, <2>3
  <2>5. m \in Network /\ m.exists = n.exists /\ ~m.up /\ m.persist = n.persist
        /\ m.addrs = kept /\ m.routes = gone
    BY <2>2, <2>3, <2>4 DEF Network
  <2> QED BY <1>2, <2>3, <2>5
<1> QED BY <1>1, <1>2, NetworkFacts

\* What was saved of b is back, and all else is as it was.
Back(m, n, b) ==
  /\ m \in Network /\ m.exists = n.exists /\ m.up = n.up /\ m.persist = n.persist
  /\ m.addrs = n.addrs \cup b.addrs
  /\ \A d \in Dests : m.routes[d] =
       IF b.routes[d] # "none" /\ (b.routes[d] = "static" \/ d \in Conf.routes)
       THEN b.routes[d] ELSE n.routes[d]

LEMMA RestoredFacts ==
  ASSUME NEW n \in Network, NEW b \in Network
  PROVE  Back(Restored(n, SavedConfig(b)), n, b)
<1> DEFINE saved == SavedConfig(b)
<1>1. /\ saved.addrs = b.addrs
      /\ \A d \in Dests : saved.routes[d] =
           IF b.routes[d] = "static" \/ d \in Conf.routes THEN b.routes[d] ELSE "none"
  BY DEF SavedConfig
<1> HIDE DEF saved
<1>2. PICK addrs : addrs = n.addrs \cup saved.addrs OBVIOUS
<1>3. PICK routes : routes = [d \in Dests |->
                      IF saved.routes[d] # "none" THEN saved.routes[d] ELSE n.routes[d]]
  OBVIOUS
<1>4. Restored(n, saved) = [n EXCEPT !.addrs = addrs, !.routes = routes]
  BY <1>2, <1>3 DEF Restored, Network
<1>5. addrs \subseteq V4 \cup V6 BY <1>1, <1>2, NetworkFacts
<1>6. routes \in [Dests -> {"none", "static", "tayga", "other"}]
  BY <1>1, <1>3, NetworkFacts DEF RouteKinds
<1>7. LET m == Restored(n, saved)
      IN  /\ m \in Network /\ m.exists = n.exists /\ m.up = n.up /\ m.persist = n.persist
          /\ m.addrs = addrs /\ m.routes = routes
  BY <1>4, <1>5, <1>6 DEF Network
<1>8. \A d \in Dests : routes[d] = IF /\ b.routes[d] # "none"
                                      /\ b.routes[d] = "static" \/ d \in Conf.routes
                                   THEN b.routes[d] ELSE n.routes[d]
  BY <1>1, <1>3
<1>9. Back(Restored(n, saved), n, b) BY <1>1, <1>2, <1>7, <1>8 DEF Back
<1> QED BY <1>9 DEF saved

\* The last descriptor of a device is closed.
LEMMA ClosedFacts ==
  ASSUME NEW n \in Network
  PROVE  /\ Closed(n) \in Network /\ Closed(n).persist = n.persist
         /\ n.persist => Closed(n) = n
         /\ ~n.persist => /\ ~Closed(n).exists /\ ~Closed(n).up /\ Closed(n).addrs = {}
                          /\ Closed(n).routes = Vanished(n)
<1>1. CASE n.persist BY <1>1 DEF Closed
<1>2. CASE ~n.persist
  <2>1. PICK gone : gone = Vanished(n) OBVIOUS
  <2>2. gone \in [Dests -> {"none", "static", "tayga", "other"}]
    BY <2>1, VanishedFacts DEF RouteKinds
  <2>3. Closed(n) = [n EXCEPT !.exists = FALSE, !.up = FALSE, !.addrs = {}, !.routes = gone]
    BY <1>2, <2>1 DEF Closed
  <2> QED BY <1>2, <2>1, <2>2, <2>3 DEF Network
<1> QED BY <1>1, <1>2

\* A device that was not there, or was there to stay, is left as it was.
LEMMA ClosedAgain ==
  ASSUME NEW b, Settled(b)
  PROVE  Closed(Opened(b)) = b
<1> DEFINE n == Opened(b)
<1>1. b \in Network BY DEF Settled, Legal
<1>2. /\ n \in Network /\ n.exists /\ n.up = b.up /\ n.persist = b.persist
      /\ n.addrs = b.addrs /\ n.routes = b.routes
  BY <1>1, OpenedFacts
<1> HIDE DEF n
<1>3. CASE b.persist
  <2>1. b.exists BY <1>1, <1>3, NetworkFacts DEF Settled, Legal
  <2>2. n = b BY <1>1, <1>2, <2>1, SameNetwork
  <2>3. Closed(n) = n BY <1>2, <1>3, ClosedFacts
  <2> QED BY <2>2, <2>3 DEF n
<1>4. CASE ~b.persist
  <2>1. ~b.exists /\ ~b.up /\ b.addrs = {} BY <1>1, <1>4 DEF Settled, Legal
  <2>2. \A d \in Dests : Vanished(n)[d] = b.routes[d]
    BY <1>1, <1>2, <2>1, VanishedFacts DEF Settled, Legal
  <2>3. /\ Closed(n) \in Network /\ Closed(n).persist = n.persist /\ ~Closed(n).exists
        /\ ~Closed(n).up /\ Closed(n).addrs = {} /\ Closed(n).routes = Vanished(n)
    BY <1>2, <1>4, ClosedFacts
  <2>4. Closed(n).exists = b.exists /\ Closed(n).up = b.up /\ Closed(n).persist = b.persist
    BY <1>1, <1>2, <2>1, <2>3, NetworkFacts
  <2>5. \A d \in Dests : Closed(n).routes[d] = b.routes[d] BY <2>2, <2>3
  <2>6. Closed(n) = b BY <1>1, <2>1, <2>3, <2>4, <2>5, SameNetwork
  <2> QED BY <2>6 DEF n
<1> QED BY <1>3, <1>4

\* What the log of a transaction holds.
LEMMA LoggedFacts ==
  ASSUME NEW t \in Transaction
  PROVE  /\ t.undo \in Seq(Requests) /\ ToSet(t.undo) \subseteq Requests
         /\ Logged(t, "addr") \subseteq Conf.addrs /\ Logged(t, "addr") \subseteq V4 \cup V6
         /\ Logged(t, "route") \subseteq Conf.routes
         /\ t.undo = <<>> => Logged(t, "addr") = {} /\ Logged(t, "route") = {}
<1>1. t.undo \in Seq(Requests) BY DEF Transaction
<1>2. ToSet(t.undo) \subseteq Requests /\ (t.undo = <<>> => ToSet(t.undo) = {})
  BY <1>1, ElementsOf
<1> QED BY <1>1, <1>2, RequestFacts DEF Logged

\* One inverse request.
LEMMA UndoneFacts ==
  ASSUME NEW item \in Requests, NEW n \in Network
  PROVE  LET m == Undone(item, n)
         IN  /\ m \in Network /\ m.exists = n.exists /\ m.up = n.up /\ m.persist = n.persist
             /\ m.addrs = n.addrs \ (IF item.kind = "addr" THEN {item.what} ELSE {})
             /\ \A d \in Dests : m.routes[d] =
                  IF item.kind = "route" /\ d = item.what /\ n.routes[d] = "tayga"
                  THEN "none" ELSE n.routes[d]
<1>1. CASE item.kind = "addr"
  <2>1. PICK addrs : addrs = n.addrs \ {item.what} OBVIOUS
  <2>2. Undone(item, n) = [n EXCEPT !.addrs = addrs]
    BY <1>1, <2>1 DEF Undone, DelAddr, Network
  <2>3. addrs \subseteq V4 \cup V6 BY <2>1, NetworkFacts
  <2>4. LET m == Undone(item, n)
        IN  /\ m \in Network /\ m.exists = n.exists /\ m.up = n.up /\ m.persist = n.persist
            /\ m.addrs = addrs /\ m.routes = n.routes
    BY <2>2, <2>3 DEF Network
  <2> QED BY <1>1, <2>1, <2>4
<1>2. CASE item.kind = "route"
  <2>1. PICK d : d = item.what /\ d \in Dests BY <1>2, RequestFacts
  <2>2. PICK routes : routes = [n.routes EXCEPT ![d] = IF n.routes[d] = "tayga" THEN "none"
                                                        ELSE n.routes[d]]
    OBVIOUS
  <2>3. Undone(item, n) = [n EXCEPT !.routes = routes]
    BY <1>2, <2>1, <2>2, NetworkFacts DEF Undone, DelRoute, Network
  <2>4. routes \in [Dests -> {"none", "static", "tayga", "other"}]
    BY <2>1, <2>2, NetworkFacts DEF RouteKinds
  <2>5. \A e \in Dests : routes[e] = IF e = d /\ n.routes[e] = "tayga" THEN "none"
                                     ELSE n.routes[e]
    BY <2>1, <2>2, NetworkFacts
  <2>6. LET m == Undone(item, n)
        IN  /\ m \in Network /\ m.exists = n.exists /\ m.up = n.up /\ m.persist = n.persist
            /\ m.addrs = n.addrs /\ m.routes = routes
    BY <2>3, <2>4 DEF Network
  <2> QED BY <1>2, <2>1, <2>5, <2>6
<1> QED BY <1>1, <1>2, RequestFacts

\* The inverse requests, whatever their order, take back exactly what is logged.
Without(n, items, m) ==
  /\ m \in Network /\ m.exists = n.exists /\ m.up = n.up /\ m.persist = n.persist
  /\ m.addrs = n.addrs \ {item.what : item \in {i \in items : i.kind = "addr"}}
  /\ \A d \in Dests : m.routes[d] =
       IF n.routes[d] = "tayga" /\ \E item \in items : item.kind = "route" /\ item.what = d
       THEN "none" ELSE n.routes[d]

LEMMA WithoutOne ==
  ASSUME NEW n \in Network, NEW items, NEW m, Without(n, items, m), NEW item \in Requests
  PROVE  Without(n, items \cup {item}, Undone(item, m))
<1> DEFINE u == Undone(item, m)
<1>1. m \in Network BY DEF Without
<1>2. /\ u \in Network /\ u.exists = m.exists /\ u.up = m.up /\ u.persist = m.persist
      /\ u.addrs = m.addrs \ (IF item.kind = "addr" THEN {item.what} ELSE {})
      /\ \A d \in Dests : u.routes[d] =
           IF item.kind = "route" /\ d = item.what /\ m.routes[d] = "tayga"
           THEN "none" ELSE m.routes[d]
  BY <1>1, UndoneFacts
<1> HIDE DEF u
<1>3. u.addrs = n.addrs \ {i.what : i \in {i \in items \cup {item} : i.kind = "addr"}}
  BY <1>2 DEF Without
<1>4. \A d \in Dests : u.routes[d] =
        IF /\ n.routes[d] = "tayga"
           /\ \E i \in items \cup {item} : i.kind = "route" /\ i.what = d
        THEN "none" ELSE n.routes[d]
  BY <1>2 DEF Without
<1>5. Without(n, items \cup {item}, u) BY <1>2, <1>3, <1>4 DEF Without
<1> QED BY <1>5 DEF u

LEMMA RolledBack ==
  ASSUME NEW t \in Transaction, NEW n \in Network
  PROVE  \E m : /\ Without(n, ToSet(t.undo), m)
                /\ Rollbacks(t, n) = {Restored(x, t.saved) :
                                        x \in IF t.wasUp THEN {Up(m)} ELSE Downs(m)}
<1> DEFINE q == t.undo
           c == Len(q)
           In == [i \in 0..c |-> {m \in Network : Without(n, Firsts(q, i), m)}]
           step == [i \in 1..c |-> [m \in In[i - 1] |-> Undone(q[i], m)]]
           Is(f) == f = [k \in 0..c |-> IF k = 0 THEN n ELSE Undone(q[k], f[k - 1])]
<1>1. q \in Seq(Requests) /\ c \in Nat BY LoggedFacts, LenProperties
<1>2. /\ Firsts(q, 0) = {} /\ Firsts(q, c) = ToSet(q)
      /\ \A i \in 1..c : /\ i - 1 \in 0..c /\ i \in 0..c /\ q[i] \in Requests
                         /\ Firsts(q, i) = Firsts(q, i - 1) \cup {q[i]}
  <2>1. Firsts(q, 0) = {} BY FirstsNone
  <2>2. ToSet(q) = {q[k] : k \in 1..c} BY <1>1, ElementsOf
  <2>3. Firsts(q, c) = ToSet(q) BY <2>2 DEF Firsts
  <2>4. \A i \in 1..c : q[i] \in Requests /\ Firsts(q, i) = Firsts(q, i - 1) \cup {q[i]}
    BY <1>1, FirstsNext
  <2>5. \A i \in 1..c : i - 1 \in 0..c /\ i \in 0..c BY <1>1
  <2> QED BY <2>1, <2>3, <2>4, <2>5
<1>3. \E g : Iteration(c, In, n, step, g)
  <2>1. ASSUME NEW i \in 1..c, NEW m \in In[i - 1] PROVE step[i][m] \in In[i]
    <3>1. m \in Network /\ Without(n, Firsts(q, i - 1), m) BY <1>2
    <3>2. Without(n, Firsts(q, i), Undone(q[i], m)) BY <1>2, <3>1, WithoutOne
    <3>3. Undone(q[i], m) \in Network BY <3>2 DEF Without
    <3>4. step[i][m] = Undone(q[i], m) OBVIOUS
    <3> QED BY <1>2, <3>2, <3>3, <3>4
  <2>2. n \in In[0]
    <3>1. Without(n, {}, n) BY DEF Without
    <3>2. 0 \in 0..c BY <1>1
    <3> QED BY <1>2, <3>1, <3>2
  <2> HIDE DEF In, step, c
  <2> QED BY <1>1, <2>1, <2>2, Iterates
<1>4. PICK g : Is(g) /\ g[c] \in In[c]
  <2>0. PICK g : Iteration(c, In, n, step, g) BY <1>3
  <2>1. \A i \in 1..c : g[i] = Undone(q[i], g[i - 1])
    <3> SUFFICES ASSUME NEW i \in 1..c PROVE g[i] = Undone(q[i], g[i - 1]) OBVIOUS
    <3>1. g[i - 1] \in In[i - 1] BY <1>2, <2>0 DEF Iteration
    <3>2. g[i] = step[i][g[i - 1]] BY <2>0 DEF Iteration
    <3> HIDE DEF In
    <3> QED BY <3>1, <3>2
  <2>2. \A i \in 0..c : i # 0 => i \in 1..c BY <1>1
  <2>3. g = [i \in 0..c |-> g[i]] /\ g[0] = n /\ g[c] \in In[c]
    <3>1. c \in 0..c BY <1>1
    <3> HIDE DEF In, step, c
    <3> QED BY <2>0, <3>1 DEF Iteration
  <2> HIDE DEF In
  <2>4. Is(g) BY <2>1, <2>2, <2>3
  <2> HIDE DEF Is
  <2> QED BY <2>3, <2>4
<1> DEFINE f == CHOOSE f : Is(f)
<1>5. Is(f) BY <1>4
<1>6. Rollbacks(t, n) = {Restored(x, t.saved) :
                           x \in IF t.wasUp THEN {Up(f[c])} ELSE Downs(f[c])}
  BY DEF Rollbacks
<1>7. f[c] = g[c]
  <2> HIDE DEF f, In
  <2>1. \A h : Is(h) => h[0] = n /\ \A i \in 1..c : h[i] = Undone(q[i], h[i - 1])
    <3>1. 0 \in 0..c /\ \A i \in 1..c : i \in 0..c /\ i # 0 BY <1>1
    <3> QED BY <3>1
  <2> HIDE DEF Is
  <2>2. f[0] = g[0] /\ \A i \in 1..c : f[i] = Undone(q[i], f[i - 1]) /\ g[i] = Undone(q[i], g[i - 1])
    BY <1>4, <1>5, <2>1
  <2> HIDE DEF c, q
  <2> QED BY <1>1, <2>2, SameEnd
<1>8. Without(n, ToSet(q), g[c])
  <2>1. c \in 0..c BY <1>1
  <2> HIDE DEF Is
  <2> QED BY <1>2, <1>4, <2>1
<1> QED
  <2> HIDE DEF f, Is, In, step
  <2> QED BY <1>6, <1>7, <1>8

\* tun_setup_abort brings back the network that was found, from any network that is
\* loose in the log of the transaction.
LEMMA AbortsBack ==
  ASSUME NEW t \in Transaction, NEW n \in Network, NEW b, Settled(b), t.valid, t.fd, n.exists,
         t.wasUp = b.up, t.saved = SavedConfig(b), Loose(n, b, t),
         n.persist = (b.persist \/ t.created), t.created => ~b.persist
  PROVE  Aborts(t, n) \subseteq {b}
<1>1. b \in Network BY DEF Settled, Legal
<1>2. PICK u : /\ Without(n, ToSet(t.undo), u)
               /\ Rollbacks(t, n) = {Restored(x, t.saved) :
                                       x \in IF t.wasUp THEN {Up(u)} ELSE Downs(u)}
  BY RolledBack
<1>3. /\ u \in Network /\ u.exists /\ u.persist = n.persist
      /\ u.addrs = n.addrs \ Logged(t, "addr")
      /\ \A d \in Dests : u.routes[d] =
           IF n.routes[d] = "tayga" /\ d \in Logged(t, "route") THEN "none" ELSE n.routes[d]
  BY <1>2 DEF Without, Logged
<1>4. u.addrs \subseteq b.addrs BY <1>3 DEF Loose
<1>5. \A d \in Dests : /\ Vanished(b)[d] = IF b.routes[d] \in {"static", "tayga"} THEN "none"
                                           ELSE b.routes[d]
                       /\ b.routes[d] \in RouteKinds
                       /\ b.routes[d] = "tayga" => d \in Conf.routes
  BY <1>1, VanishedFacts, NetworkFacts DEF Settled, Legal
<1>6. \A d \in Dests : d \in Logged(t, "route") => d \in Conf.routes BY LoggedFacts
\* A route that is not saved is there, and stays when the link goes down.
<1>7. ASSUME NEW d \in Dests, b.routes[d] = "none" \/ (b.routes[d] # "static" /\ d \notin Conf.routes)
      PROVE  u.routes[d] = b.routes[d] /\ u.routes[d] \notin {"static", "tayga"}
  BY <1>3, <1>5, <1>6, <1>7 DEF Loose, RouteKinds
<1>8. ASSUME NEW m \in Rollbacks(t, n)
      PROVE  /\ m \in Network /\ m.exists /\ m.up = b.up /\ m.persist = n.persist
             /\ m.addrs = b.addrs /\ \A d \in Dests : m.routes[d] = b.routes[d]
  <2>1. PICK x \in IF t.wasUp THEN {Up(u)} ELSE Downs(u) : m = Restored(x, t.saved)
    BY <1>2
  <2>2. /\ x \in Network /\ x.exists /\ x.up = b.up /\ x.persist = n.persist
        /\ x.addrs \subseteq u.addrs
        /\ x.routes = u.routes \/ x.routes = Vanished(u)
    <3>1. CASE t.wasUp
      <4>1. x = Up(u) BY <2>1, <3>1
      <4> QED BY <1>3, <3>1, <4>1, UpFacts
    <3>2. CASE ~t.wasUp
      <4>1. x \in Downs(u) BY <2>1, <3>2
      <4>2. /\ x \in Network /\ x.exists = u.exists /\ ~x.up /\ x.persist = u.persist
            /\ x.addrs \subseteq u.addrs /\ (u.up \/ x = u) /\ (u.up => x.routes = Vanished(u))
        BY <1>3, <4>1, DownsFacts
      <4>3. x.up = b.up BY <1>1, <3>2, <4>2, NetworkFacts
      <4> QED BY <1>3, <4>2, <4>3
    <3> QED BY <3>1, <3>2
  <2>3. /\ m \in Network /\ m.exists = x.exists /\ m.up = x.up /\ m.persist = x.persist
        /\ m.addrs = x.addrs \cup b.addrs
        /\ \A d \in Dests : m.routes[d] =
             IF /\ b.routes[d] # "none"
                /\ b.routes[d] = "static" \/ d \in Conf.routes
             THEN b.routes[d] ELSE x.routes[d]
    <3>1. m = Restored(x, SavedConfig(b)) BY <2>1
    <3>2. Back(m, x, b) BY <1>1, <2>2, <3>1, RestoredFacts
    <3> QED BY <3>2 DEF Back
  <2>4. ASSUME NEW d \in Dests PROVE m.routes[d] = b.routes[d]
    <3>1. CASE b.routes[d] # "none" /\ (b.routes[d] = "static" \/ d \in Conf.routes)
      BY <2>3, <3>1
    <3>2. CASE b.routes[d] = "none" \/ (b.routes[d] # "static" /\ d \notin Conf.routes)
      <4>1. u.routes[d] = b.routes[d] /\ u.routes[d] \notin {"static", "tayga"} BY <1>7, <3>2
      <4>2. x.routes[d] = u.routes[d] BY <1>3, <2>2, <4>1, VanishedFacts
      <4> QED BY <2>3, <3>2, <4>1, <4>2
    <3> QED BY <3>1, <3>2
  <2> QED BY <1>4, <2>2, <2>3, <2>4
<1>9. ASSUME NEW m \in Rollbacks(t, n)
      PROVE  Closed([m EXCEPT !.persist = m.persist /\ ~t.created]) = b
  <2> DEFINE k == [m EXCEPT !.persist = m.persist /\ ~t.created]
  <2>1. /\ m \in Network /\ m.exists /\ m.up = b.up /\ m.persist = n.persist
        /\ m.addrs = b.addrs /\ \A d \in Dests : m.routes[d] = b.routes[d]
    BY <1>8
  <2>2. t.created \in BOOLEAN /\ b.persist \in BOOLEAN BY <1>1, NetworkFacts DEF Transaction
  <2>3. /\ k \in Network /\ k.exists = m.exists /\ k.up = m.up /\ k.addrs = m.addrs
        /\ k.routes = m.routes /\ k.persist = (m.persist /\ ~t.created)
    BY <2>1, <2>2 DEF Network
  <2> HIDE DEF k
  <2>4. k.persist = b.persist
    <3>1. CASE t.created BY <2>1, <2>2, <2>3, <3>1
    <3>2. CASE ~t.created BY <2>1, <2>2, <2>3, <3>2
    <3> QED BY <3>1, <3>2
  <2>5. k = Opened(b)
    <3> DEFINE o == Opened(b)
    <3>1. /\ o \in Network /\ o.exists /\ o.up = b.up /\ o.persist = b.persist
          /\ o.addrs = b.addrs /\ o.routes = b.routes
      BY <1>1, OpenedFacts
    <3> HIDE DEF o
    <3>2. k.exists = o.exists BY <2>1, <2>3, <3>1, NetworkFacts
    <3>3. /\ k.up = o.up /\ k.persist = o.persist /\ k.addrs = o.addrs
          /\ \A d \in Dests : k.routes[d] = o.routes[d]
      BY <2>1, <2>3, <2>4, <3>1
    <3>4. k = o BY <2>3, <3>1, <3>2, <3>3, SameNetwork
    <3> QED BY <3>4 DEF o
  <2>6. Closed(k) = b BY <2>5, ClosedAgain
  <2> QED BY <2>6 DEF k
<1> QED BY <1>9 DEF Aborts

\* ... and when nothing was saved, there is nothing but the descriptor to close.
LEMMA AbortsPlain ==
  ASSUME NEW t \in Transaction, NEW n, NEW b, Settled(b), ~t.valid,
         IF t.fd THEN n = Opened(b) /\ ~t.created ELSE n = b
  PROVE  Aborts(t, n) \subseteq {b}
<1>1. b \in Network BY DEF Settled, Legal
<1>2. CASE ~t.fd BY <1>2 DEF Aborts
<1>3. CASE t.fd
  <2>1. n = Opened(b) /\ ~t.created /\ n \in Network BY <1>1, <1>3, OpenedFacts
  <2>2. [n EXCEPT !.persist = n.persist /\ ~t.created] = n
    <3>1. PICK x : x = n OBVIOUS
    <3>2. x \in Network BY <2>1, <3>1
    <3>3. (x.persist /\ ~t.created) = x.persist BY <2>1, <3>2, NetworkFacts
    <3>4. [x EXCEPT !.persist = x.persist] = x BY <3>2 DEF Network
    <3> QED BY <3>1, <3>3, <3>4
  <2>3. Closed(n) = b BY <2>1, ClosedAgain
  <2>4. Aborts(t, n) = {Closed([n EXCEPT !.persist = n.persist /\ ~t.created])}
    BY <1>3 DEF Aborts
  <2> QED BY <2>2, <2>3, <2>4
<1> QED BY <1>2, <1>3

\* Whoever holds the lock and gives up leaves the network as it found it.
LEMMA HeldAborts ==
  ASSUME NEW t \in Transaction, NEW n \in Network, NEW b, Held(t, n, b), t.stage \in {"fail", "ready"}
  PROVE  Aborts(t, n) \subseteq {b}
<1>1. CASE t.valid
  <2>1. t.fd /\ n.exists BY <1>1 DEF Held
  <2> QED BY <1>1, <2>1, AbortsBack DEF Held
<1>2. CASE ~t.valid
  <2>1. IF t.fd THEN n = Opened(b) /\ ~t.created ELSE n = b BY <1>2 DEF Held
  <2> QED BY <1>2, <2>1, AbortsPlain DEF Held
<1> QED BY <1>1, <1>2

----------------------------------------------------------------------------
(* What each step makes of the network *)

LEMMA LegalFacts ==
  ASSUME NEW n, Legal(n)
  PROVE  n \in Network /\ (n.up => n.exists) /\ (n.persist => n.exists)
BY NetworkFacts DEF Legal

LEMMA LegalOpened == ASSUME NEW b, Legal(b) PROVE Legal(Opened(b))
<1>1. b \in Network BY LegalFacts
<1> QED BY <1>1, OpenedFacts DEF Legal

LEMMA LegalPersist ==
  ASSUME NEW n, Legal(n), n.exists, NEW persist \in BOOLEAN
  PROVE  LET m == [n EXCEPT !.persist = persist]
         IN  /\ Legal(m) /\ m.exists /\ m.up = n.up /\ m.persist = persist
             /\ m.addrs = n.addrs /\ m.routes = n.routes
BY DEF Legal, Network

LEMMA LegalDowns ==
  ASSUME NEW n, Legal(n), NEW m \in Downs(n)
  PROVE  Legal(m)
<1>1. n \in Network BY LegalFacts
<1>2. /\ m \in Network /\ m.exists = n.exists /\ ~m.up /\ m.persist = n.persist
      /\ m.addrs \subseteq n.addrs /\ (n.up \/ m = n)
      /\ n.up => m.routes = Vanished(n)
  BY <1>1, DownsFacts
<1>3. CASE ~n.up BY <1>2, <1>3
<1>4. CASE n.up
  <2>1. n.exists BY <1>4, LegalFacts
  <2>2. \A d \in Dests : m.routes[d] \notin {"static", "tayga"} BY <1>1, <1>2, <1>4, VanishedFacts
  <2> QED BY <1>2, <2>1, <2>2 DEF Legal
<1> QED BY <1>3, <1>4

LEMMA LegalUp == ASSUME NEW n, Legal(n), n.exists PROVE Legal(Up(n))
<1>1. n \in Network BY LegalFacts
<1> QED BY <1>1, UpFacts DEF Legal

LEMMA LegalRestored ==
  ASSUME NEW n, Legal(n), n.up, NEW b, Legal(b)
  PROVE  Legal(Restored(n, SavedConfig(b)))
<1>1. n \in Network /\ b \in Network /\ n.exists BY LegalFacts
<1>2. PICK m : m = Restored(n, SavedConfig(b)) OBVIOUS
<1>3. Back(m, n, b) BY <1>1, <1>2, RestoredFacts
<1>4. Legal(m) BY <1>1, <1>3 DEF Legal, Back
<1> QED BY <1>2, <1>4

\* A process is over, or gave up: what is left of the device is settled.
LEMMA SettledClosed == ASSUME NEW n, Legal(n) PROVE Settled(Closed(n))
<1>1. n \in Network BY LegalFacts
<1>2. CASE n.persist BY <1>1, <1>2, ClosedFacts DEF Settled
<1>3. CASE ~n.persist
  <2>1. /\ Closed(n) \in Network /\ ~Closed(n).persist /\ ~Closed(n).exists /\ ~Closed(n).up
        /\ Closed(n).addrs = {} /\ Closed(n).routes = Vanished(n)
    BY <1>1, <1>3, ClosedFacts
  <2>2. \A d \in Dests : Closed(n).routes[d] \notin {"static", "tayga"}
    BY <1>1, <2>1, VanishedFacts
  <2> QED BY <2>1, <2>2 DEF Settled, Legal
<1> QED BY <1>2, <1>3

LEMMA LooseOpened ==
  ASSUME NEW b \in Network, NEW t
  PROVE  Loose(Opened(b), b, t)
BY OpenedFacts DEF Loose

LEMMA LooseLowered ==
  ASSUME NEW b, NEW n, Lowered(n, b), NEW t
  PROVE  Loose(n, b, t)
BY DEF Loose, Lowered

LEMMA LooseExtended ==
  ASSUME NEW b, NEW n, NEW t, Extended(n, b, t)
  PROVE  Loose(n, b, t)
BY DEF Loose, Extended

\* The link goes down.
LEMMA LowersDowns ==
  ASSUME NEW b, Legal(b), NEW m \in IF b.up THEN Downs(Opened(b)) ELSE {Opened(b)}
  PROVE  /\ Legal(m) /\ Lowered(m, b) /\ ~m.up /\ m.exists /\ m.persist = b.persist
<1>1. b \in Network BY LegalFacts
<1>2. /\ Opened(b) \in Network /\ Legal(Opened(b)) /\ Opened(b).exists /\ Opened(b).up = b.up
      /\ Opened(b).persist = b.persist /\ Opened(b).addrs = b.addrs /\ Opened(b).routes = b.routes
  BY <1>1, OpenedFacts, LegalOpened
<1>3. CASE b.up
  <2>1. /\ m \in Downs(Opened(b)) BY <1>3
  <2>2. Legal(m) BY <1>2, <2>1, LegalDowns
  <2>3. /\ m.exists /\ ~m.up /\ m.persist = b.persist /\ m.addrs \subseteq b.addrs
        /\ m.routes = Vanished(Opened(b))
    BY <1>2, <1>3, <2>1, DownsFacts
  <2>4. Vanished(Opened(b)) = Vanished(b) BY <1>2 DEF Vanished
  <2> QED BY <1>3, <2>2, <2>3, <2>4 DEF Lowered
<1>4. CASE ~b.up
  <2>1. m = Opened(b) BY <1>4
  <2>2. \A d \in Dests : Vanished(b)[d] = b.routes[d]
    BY <1>1, <1>4, VanishedFacts DEF Legal
  <2>3. Vanished(b) = b.routes BY <1>1, <2>2, VanishedFacts, NetworkFacts
  <2> QED BY <1>2, <1>4, <2>1, <2>3 DEF Lowered
<1> QED BY <1>3, <1>4

\* What was saved comes back once the link is up; a link that was down lost nothing.
LEMMA RestoresAll ==
  ASSUME NEW b, Legal(b), NEW n, Legal(n), Lowered(n, b), n.exists, NEW t \in Transaction,
         t.undo = <<>>, NEW m, b.up => n.up,
         m = IF b.up THEN Restored(n, SavedConfig(b)) ELSE n
  PROVE  /\ Legal(m) /\ m.exists /\ m.up = n.up /\ m.persist = n.persist
         /\ m.addrs = b.addrs /\ m.routes = b.routes
         /\ m.up = (b.up \/ Conf.up) => Extended(m, b, t)
<1>1. b \in Network /\ n \in Network BY LegalFacts
<1>2. /\ Legal(m) /\ m.exists /\ m.up = n.up /\ m.persist = n.persist
      /\ m.addrs = b.addrs /\ \A d \in Dests : m.routes[d] = b.routes[d]
  <2>1. CASE b.up
    <3>1. m = Restored(n, SavedConfig(b)) BY <2>1
    <3>2. Back(m, n, b) BY <1>1, <3>1, RestoredFacts
    <3>3. Legal(m) BY <2>1, <3>1, LegalRestored
    <3>4. ASSUME NEW d \in Dests PROVE m.routes[d] = b.routes[d]
      <4>1. n.routes[d] = IF b.routes[d] \in {"static", "tayga"} THEN "none" ELSE b.routes[d]
        BY <1>1, VanishedFacts DEF Lowered
      <4>2. b.routes[d] = "tayga" => d \in Conf.routes BY DEF Legal
      <4> QED BY <3>2, <4>1, <4>2 DEF Back
    <3> QED BY <2>1, <3>2, <3>3, <3>4 DEF Back, Lowered
  <2>2. CASE ~b.up
    <3>1. m = n BY <2>2
    <3>2. ASSUME NEW d \in Dests PROVE n.routes[d] = b.routes[d]
      BY <1>1, <2>2, VanishedFacts DEF Lowered, Legal
    <3> QED BY <2>2, <3>1, <3>2 DEF Lowered
  <2> QED BY <2>1, <2>2
<1>3. m.routes = b.routes
  <2>1. m \in Network BY <1>2, LegalFacts
  <2> QED BY <1>1, <1>2, <2>1, NetworkFacts
<1>4. Logged(t, "addr") = {} /\ Logged(t, "route") = {} BY LoggedFacts
<1>5. b.routes = [d \in Dests |-> b.routes[d]] BY <1>1, NetworkFacts
<1> QED BY <1>2, <1>3, <1>4, <1>5 DEF Extended

\* Another request, of which a done one is seen.
Granted(n, item) ==
  IF item.kind = "addr" THEN AddAddr(n, item.what) ELSE PutRoute(n, item.what, "tayga")

LEMMA ExtendsMore ==
  ASSUME NEW b, Legal(b), NEW n, Legal(n), n.exists, NEW t \in Transaction, Extended(n, b, t),
         NEW item \in Requests, NEW u \in Transaction, ToSet(u.undo) = ToSet(t.undo) \cup {item},
         item.kind = "addr" \/ n.up
  PROVE  /\ Legal(Granted(n, item)) /\ Granted(n, item).exists
         /\ Granted(n, item).persist = n.persist /\ Extended(Granted(n, item), b, u)
         /\ Loose(n, b, u)
<1>0. PICK m : m = Granted(n, item) OBVIOUS
<1>1. n \in Network BY LegalFacts
<1>3. /\ Logged(u, "addr") = Logged(t, "addr") \cup (IF item.kind = "addr" THEN {item.what} ELSE {})
      /\ Logged(u, "route") = Logged(t, "route") \cup (IF item.kind = "route" THEN {item.what} ELSE {})
  BY DEF Logged
<1>4. Loose(n, b, u) BY <1>3, LooseExtended DEF Loose
<1>5. CASE item.kind = "addr"
  <2>1. PICK addrs : addrs = n.addrs \cup {item.what} OBVIOUS
  <2>2. addrs \subseteq V4 \cup V6 BY <1>1, <1>5, <2>1, RequestFacts, NetworkFacts
  <2>3. m = [n EXCEPT !.addrs = addrs] BY <1>0, <1>1, <1>5, <2>1 DEF Granted, AddAddr, Network
  <2>4. /\ m \in Network /\ m.exists = n.exists /\ m.up = n.up /\ m.persist = n.persist
        /\ m.addrs = addrs /\ m.routes = n.routes
    BY <1>1, <2>2, <2>3 DEF Network
  <2>5. Legal(m) BY <2>4 DEF Legal
  <2>6. Extended(m, b, u) BY <1>3, <1>5, <2>1, <2>4 DEF Extended
  <2> QED BY <1>0, <1>4, <2>4, <2>5, <2>6
<1>6. CASE item.kind = "route"
  <2>1. PICK e : e = item.what /\ e \in Dests /\ e \in Conf.routes BY <1>6, RequestFacts
  <2>2. PICK routes : routes = [n.routes EXCEPT ![e] = "tayga"] OBVIOUS
  <2>3. routes \in [Dests -> {"none", "static", "tayga", "other"}]
    BY <1>1, <2>1, <2>2, NetworkFacts DEF RouteKinds
  <2>4. m = [n EXCEPT !.routes = routes] BY <1>0, <1>1, <1>6, <2>1, <2>2 DEF Granted, PutRoute, Network
  <2>5. /\ m \in Network /\ m.exists = n.exists /\ m.up = n.up /\ m.persist = n.persist
        /\ m.addrs = n.addrs /\ m.routes = routes
    BY <1>1, <2>3, <2>4 DEF Network
  <2>6. \A d \in Dests : routes[d] = IF d = e THEN "tayga" ELSE n.routes[d]
    BY <1>1, <2>1, <2>2, NetworkFacts
  <2>7. Legal(m) BY <1>6, <2>1, <2>5, <2>6 DEF Legal
  <2>8. routes = [d \in Dests |-> IF d \in Logged(u, "route") THEN "tayga" ELSE b.routes[d]]
    <3>1. \A d \in Dests : routes[d] = IF d \in Logged(u, "route") THEN "tayga" ELSE b.routes[d]
      BY <1>3, <1>6, <2>1, <2>6 DEF Extended
    <3> QED BY <2>3, <3>1
  <2>9. m.up = (b.up \/ Conf.up) /\ m.addrs = b.addrs \cup Logged(u, "addr")
    BY <1>3, <1>6, <2>5 DEF Extended
  <2>10. Extended(m, b, u) BY <2>5, <2>8, <2>9 DEF Extended
  <2> QED BY <1>0, <1>4, <2>5, <2>7, <2>10
<1> QED BY <1>5, <1>6, RequestFacts

----------------------------------------------------------------------------
(* What each step makes of the transaction *)

Elsewise(u, t) ==
  /\ u.mode = t.mode /\ u.fd = t.fd /\ u.queues = t.queues /\ u.mask = t.mask
  /\ u.valid = t.valid /\ u.wasUp = t.wasUp /\ u.created = t.created
  /\ u.saved = t.saved /\ u.undo = t.undo

LEMMA StageFacts ==
  ASSUME NEW t \in Transaction, NEW s \in Stages
  PROVE  LET u == [t EXCEPT !.stage = s]
         IN  u \in Transaction /\ u.stage = s /\ Elsewise(u, t)
BY DEF Transaction, Elsewise

LEMMA FreshFacts ==
  /\ Fresh \in Transaction /\ ~Fresh.fd /\ ~Fresh.valid /\ ~Fresh.created /\ Fresh.undo = <<>>
  /\ Fresh.stage = "idle"
<1>1. NoConfig \in [addrs : SUBSET (V4 \cup V6), routes : [Dests -> RouteKinds]]
  BY DEF NoConfig, RouteKinds
<1>2. 0 \in 0..Queues BY SetupAssumption
<1>3. <<>> \in Seq(Requests) OBVIOUS
<1> HIDE DEF NoConfig
<1> QED BY <1>1, <1>2, <1>3 DEF Fresh, Transaction, Stages

LEMMA DropFacts ==
  ASSUME NEW t \in Transaction, NEW s \in Stages
  PROVE  LET u == [Drop(t) EXCEPT !.stage = s]
         IN  u \in Transaction /\ u.stage = s /\ ~u.fd /\ ~u.valid
<1>1. PICK c : c = NoConfig OBVIOUS
<1>2. c \in [addrs : SUBSET (V4 \cup V6), routes : [Dests -> RouteKinds]]
  BY <1>1 DEF NoConfig, RouteKinds
<1>3. 0 \in 0..Queues /\ <<>> \in Seq(Requests) BY SetupAssumption
<1>4. PICK v : v = [t EXCEPT !.saved = c, !.undo = <<>>, !.valid = FALSE] OBVIOUS
<1>5. v \in Transaction /\ ~v.valid BY <1>2, <1>3, <1>4 DEF Transaction
<1>6. PICK w : w = [v EXCEPT !.fd = FALSE, !.queues = 0] OBVIOUS
<1>7. w \in Transaction /\ ~w.valid /\ ~w.fd BY <1>3, <1>5, <1>6 DEF Transaction
<1>8. Drop(t) = w BY <1>1, <1>4, <1>6 DEF Drop, Committed
<1> QED BY <1>7, <1>8, StageFacts DEF Elsewise

\* A step of p: a network only changes for who holds the lock.
LEMMA TxStep ==
  ASSUME TxInv, NEW p \in Processes, NEW t \in Transaction, tun' = [tun EXCEPT ![p] = t],
         Legal(net'), net' = net \/ lock = p,
         \/ before' = before
         \/ lock # p /\ before' = [before EXCEPT ![p] = net],
         \/ lock' = lock
         \/ lock = p /\ lock' = Nobody
         \/ lock = Nobody /\ lock' = p,
         lock' = Nobody => Settled(net'),
         IF lock' = p THEN Held(t, net', before'[p]) ELSE Apart(t),
         Along(main', tun'[Daemon].stage)
  PROVE  TxInv'
<1>1. /\ lock' \in Processes \cup {Nobody} /\ tun' \in [Processes -> Transaction]
      /\ before' \in [Processes -> Network]
  <2>1. net \in Network BY LegalFacts DEF TxInv
  <2> QED BY <2>1 DEF TxInv
<1>2. tun'[p] = t /\ \A q \in Processes : q # p => tun'[q] = tun[q] /\ before'[q] = before[q]
  BY DEF TxInv
<1>3. ASSUME NEW q \in Processes, q # p
      PROVE  IF lock' = q THEN Held(tun'[q], net', before'[q]) ELSE Apart(tun'[q])
  <2>1. lock' = q <=> lock = q BY <1>3, SetupAssumption
  <2>2. lock = q => net' = net BY <1>3
  <2>3. IF lock = q THEN Held(tun[q], net, before[q]) ELSE Apart(tun[q]) BY DEF TxInv
  <2>4. CASE lock = q
    <3>1. Held(tun[q], net, before[q]) /\ net' = net /\ tun'[q] = tun[q] /\ before'[q] = before[q]
      BY <1>2, <1>3, <2>2, <2>3, <2>4
    <3> QED BY <2>1, <2>4, <3>1
  <2>5. CASE lock # q BY <1>2, <1>3, <2>1, <2>3, <2>5
  <2> QED BY <2>4, <2>5
<1>4. \A q \in Processes : IF lock' = q THEN Held(tun'[q], net', before'[q]) ELSE Apart(tun'[q])
  BY <1>2, <1>3
<1>5. Along(main', tun'[Daemon].stage) /\ (lock' = Nobody => Settled(net')) /\ Legal(net')
  OBVIOUS
<1> QED
  <2> HIDE DEF Held, Apart, Along, Legal, Settled
  <2> QED BY <1>1, <1>4, <1>5 DEF TxInv

\* The same for a step that only moves the process that holds the lock.
LEMMA HolderStep ==
  ASSUME TxInv, NEW p \in Processes, lock = p, NEW t \in Transaction,
         tun' = [tun EXCEPT ![p] = t], Legal(net'), lock' = lock, before' = before,
         Held(t, net', before[p]), main' = main, p = Daemon => main = "setup",
         t.stage # "running"
  PROVE  TxInv'
<1>1. tun'[Daemon] = IF p = Daemon THEN t ELSE tun[Daemon]
  BY LifecycleAssumption DEF TxInv
<1>2. Along(main', tun'[Daemon].stage) BY <1>1 DEF TxInv, Along
<1>3. lock' # Nobody BY SetupAssumption
<1> QED BY <1>2, <1>3, TxStep

\* Of a process at a stage between, all is known.
LEMMA AtStage ==
  ASSUME TxInv, NEW p \in Processes
  PROVE  /\ tun[p] \in Transaction
         /\ tun[p].stage \notin {"idle", "lock", "fail", "refused", "over"} => lock = p
         /\ lock = p => Held(tun[p], net, before[p])
         /\ lock # p => Apart(tun[p])
         /\ Legal(net)
BY DEF TxInv, Apart

\* Whoever gives up midway has what is needed to go back.
LEMMA HeldFails ==
  ASSUME NEW t \in Transaction, NEW n, NEW b, Held(t, n, b), t.stage \notin {"made", "running"},
         NEW u, Elsewise(u, t), u.stage = "fail"
  PROVE  Held(u, n, b)
<1>1. Loose(n, b, t) => Loose(n, b, u) BY DEF Elsewise, Loose, Logged
<1>2. t.stage \in {"save", "unpersist"} => ~t.created BY DEF Held
<1> QED BY <1>1, <1>2 DEF Held, Elsewise

LEMMA FailsStep ==
  ASSUME TxInv, NEW p \in Processes, lock = p, Fails(p), main' = main,
         p = Daemon => main = "setup", tun[p].stage \notin {"made", "running"}
  PROVE  TxInv'
<1>1. PICK u : u = [tun[p] EXCEPT !.stage = "fail"] OBVIOUS
<1>2. /\ tun[p] \in Transaction /\ Held(tun[p], net, before[p]) /\ Legal(net) BY AtStage
<1>3. u \in Transaction /\ u.stage = "fail" /\ Elsewise(u, tun[p])
  BY <1>1, <1>2, StageFacts DEF Stages
<1>4. Held(u, net, before[p]) BY <1>2, <1>3, HeldFails
<1>5. tun' = [tun EXCEPT ![p] = u] /\ UNCHANGED <<net, lock, before>>
  BY <1>1 DEF Fails, Goto, TxInv
<1> QED BY <1>2, <1>3, <1>4, <1>5, HolderStep

\* A netlink request, whether or not its effect and its answer come.
LEMMA RequestStep ==
  ASSUME TxInv, NEW p \in Processes, lock = p, NEW results, NEW s \in Stages \ {"running"},
         Request(p, results, s), main' = main, p = Daemon => main = "setup",
         tun[p].valid, tun[p].stage # "made",
         \A m \in results :
           /\ Legal(m) /\ m.exists /\ m.persist = net.persist /\ Loose(m, before[p], tun[p])
           /\ Held([tun[p] EXCEPT !.stage = s], m, before[p])
  PROVE  TxInv'
<1>1. /\ tun[p] \in Transaction /\ Held(tun[p], net, before[p]) /\ Legal(net)
      /\ tun[p].stage # "running"
  BY AtStage DEF Held
<1>2. CASE Fails(p) BY <1>1, <1>2, FailsStep
<1>3. ASSUME net' \in results, Goto(p, s), UNCHANGED <<lock, before>> PROVE TxInv'
  <2>1. PICK u : u = [tun[p] EXCEPT !.stage = s] OBVIOUS
  <2>2. u \in Transaction /\ u.stage = s BY <1>1, <2>1, StageFacts
  <2>3. tun' = [tun EXCEPT ![p] = u] BY <1>3, <2>1 DEF Goto, TxInv
  <2>4. Held(u, net', before[p]) /\ Legal(net') BY <1>3, <2>1
  <2> QED BY <1>3, <2>2, <2>3, <2>4, HolderStep
<1>4. ASSUME net' \in results, Goto(p, "fail"), UNCHANGED <<lock, before>> PROVE TxInv'
  <2>1. PICK u : u = [tun[p] EXCEPT !.stage = "fail"] OBVIOUS
  <2>2. u \in Transaction /\ u.stage = "fail" /\ Elsewise(u, tun[p])
    BY <1>1, <2>1, StageFacts DEF Stages
  <2>3. tun' = [tun EXCEPT ![p] = u] BY <1>4, <2>1 DEF Goto, TxInv
  <2>4. PICK m : m = net' OBVIOUS
  <2>5. /\ Legal(m) /\ m.exists /\ m.persist = net.persist /\ Loose(m, before[p], tun[p])
    BY <1>4, <2>4
  <2>6. Loose(m, before[p], u) BY <2>2, <2>5 DEF Elsewise, Loose, Logged
  <2>7. Held(u, m, before[p]) BY <1>1, <2>2, <2>5, <2>6 DEF Held, Elsewise
  <2> QED BY <1>4, <2>2, <2>3, <2>4, <2>5, <2>7, HolderStep
<1> QED BY <1>2, <1>3, <1>4 DEF Request

----------------------------------------------------------------------------
(* Every step keeps TxInv *)

LEMMA BeginStep ==
  ASSUME TxInv, NEW p \in Processes, Begin(p), main' = main, p = Daemon => main = "setup"
  PROVE  TxInv'
<1>1. PICK mode \in Modes[p], dispatch \in BOOLEAN :
        tun' = [tun EXCEPT ![p] = [Fresh EXCEPT
                 !.mode = mode, !.dispatch = dispatch,
                 !.stage = IF ~dispatch \/ (mode = "run" /\ ~net.exists) THEN "lock"
                           ELSE IF mode = "run" THEN "refused" ELSE "over"]]
  BY DEF Begin
<1>2. PICK s \in {"lock", "refused", "over"} :
        s = IF ~dispatch \/ (mode = "run" /\ ~net.exists) THEN "lock"
            ELSE IF mode = "run" THEN "refused" ELSE "over"
  OBVIOUS
<1>3. mode \in {"run", "mktun", "rmtun"} BY SetupAssumption
<1>4. PICK f : f = Fresh OBVIOUS
<1>5. PICK t : t = [f EXCEPT !.mode = mode, !.dispatch = dispatch, !.stage = s] OBVIOUS
<1>6. f \in Transaction /\ ~f.fd /\ ~f.valid /\ ~f.created /\ f.undo = <<>>
  BY <1>4, FreshFacts
<1>7. /\ t \in Transaction /\ t.stage = s /\ ~t.fd /\ ~t.valid /\ ~t.created /\ t.undo = <<>>
  BY <1>3, <1>5, <1>6 DEF Transaction, Stages
<1>8. tun' = [tun EXCEPT ![p] = t] BY <1>1, <1>2, <1>4, <1>5
<1>9. Apart(t) BY <1>7 DEF Apart
<1>10. tun[p].stage = "idle" /\ UNCHANGED <<net, lock, before>> BY DEF Begin, At
<1>11. lock # p BY <1>10, AtStage DEF Held
<1>12. tun'[Daemon] = IF p = Daemon THEN t ELSE tun[Daemon]
  BY <1>8, LifecycleAssumption DEF TxInv
<1>13. Along(main', tun'[Daemon].stage) BY <1>7, <1>12 DEF TxInv, Along
<1> QED BY <1>7, <1>8, <1>9, <1>10, <1>11, <1>13, AtStage, TxStep DEF TxInv

LEMMA LockStep ==
  ASSUME TxInv, NEW p \in Processes, Lock(p), main' = main, p = Daemon => main = "setup"
  PROVE  TxInv'
<1>1. /\ tun[p].stage = "lock" /\ tun[p] \in Transaction /\ net' = net
      /\ lock # p /\ Apart(tun[p]) /\ Legal(net)
  <2>1. tun[p].stage = "lock" /\ net' = net BY DEF Lock, At, Fails
  <2>2. lock # p BY <2>1, AtStage DEF Held
  <2> QED BY <2>1, <2>2, AtStage
<1>2. PICK s : /\ s \in {"attach", "fail"} /\ Goto(p, s)
               /\ \/ /\ s = "attach" /\ lock = Nobody /\ lock' = p
                     /\ before' = [before EXCEPT ![p] = net]
                  \/ s = "fail" /\ UNCHANGED <<lock, before>>
  BY DEF Lock, Fails
<1>3. PICK u : u = [tun[p] EXCEPT !.stage = s] OBVIOUS
<1>4. u \in Transaction /\ u.stage = s /\ Elsewise(u, tun[p])
  <2>1. s \in Stages BY <1>2 DEF Stages
  <2> QED BY <1>1, <1>3, <2>1, StageFacts
<1>5. tun' = [tun EXCEPT ![p] = u] BY <1>2, <1>3 DEF Goto, TxInv
<1>6. tun'[Daemon] = IF p = Daemon THEN u ELSE tun[Daemon]
  BY <1>5, LifecycleAssumption DEF TxInv
<1>7. Along(main', tun'[Daemon].stage) BY <1>2, <1>4, <1>6 DEF TxInv, Along
<1>8. CASE s = "attach"
  <2>1. lock = Nobody /\ lock' = p /\ before' = [before EXCEPT ![p] = net] BY <1>2, <1>8
  <2>2. Settled(net) /\ before'[p] = net BY <2>1 DEF TxInv
  <2>3. Held(u, net, net) BY <1>1, <1>4, <1>8, <2>2 DEF Held, Apart, Elsewise
  <2>4. Held(u, net', before'[p]) BY <1>1, <2>2, <2>3
  <2>5. lock' # Nobody BY <2>1, SetupAssumption
  <2> QED BY <1>1, <1>4, <1>5, <1>7, <2>1, <2>4, <2>5, TxStep
<1>9. CASE s = "fail"
  <2>1. Apart(u) BY <1>1, <1>4, <1>9 DEF Apart, Elsewise
  <2>2. UNCHANGED <<lock, before>> BY <1>2, <1>9
  <2> QED BY <1>1, <1>4, <1>5, <1>7, <2>1, <2>2, TxStep DEF TxInv
<1> QED BY <1>2, <1>8, <1>9

LEMMA AttachStep ==
  ASSUME TxInv, NEW p \in Processes, Attach(p), main' = main, p = Daemon => main = "setup"
  PROVE  TxInv'
<1>1. tun[p].stage = "attach" BY DEF Attach, At
<1>2. /\ tun[p] \in Transaction /\ lock = p /\ Held(tun[p], net, before[p]) /\ Legal(net)
  BY <1>1, AtStage
<1>3. CASE Fails(p) BY <1>1, <1>2, <1>3, FailsStep
<1>4. CASE ~Fails(p)
  <2>1. /\ net' = [net EXCEPT !.exists = TRUE] /\ UNCHANGED <<lock, before>>
        /\ tun' = [tun EXCEPT ![p].fd = TRUE, ![p].stage = "save"]
    BY <1>4 DEF Attach
  <2>2. PICK u : u = [tun[p] EXCEPT !.fd = TRUE, !.stage = "save"] OBVIOUS
  <2>3. /\ u \in Transaction /\ u.stage = "save" /\ u.fd /\ u.valid = tun[p].valid
        /\ u.created = tun[p].created /\ u.undo = tun[p].undo
    BY <1>2, <2>2 DEF Transaction, Stages
  <2>4. tun' = [tun EXCEPT ![p] = u] BY <2>1, <2>2 DEF TxInv
  <2>5. ~tun[p].fd /\ net = before[p] /\ ~tun[p].valid /\ ~tun[p].created /\ tun[p].undo = <<>>
    BY <1>1, <1>2 DEF Held
  <2>6. net' = Opened(net) BY <2>1 DEF Opened
  <2>7. Legal(Opened(net)) /\ Opened(net).exists /\ Opened(net) = Opened(before[p])
    BY <1>2, <2>5, LegalOpened, OpenedFacts DEF Legal
  <2>8. Held(u, Opened(net), before[p]) BY <1>2, <2>3, <2>5, <2>7 DEF Held
  <2> QED BY <1>2, <2>1, <2>3, <2>4, <2>6, <2>7, <2>8, HolderStep
<1> QED BY <1>3, <1>4

LEMMA SaveStep ==
  ASSUME TxInv, NEW p \in Processes, Save(p), main' = main, p = Daemon => main = "setup"
  PROVE  TxInv'
<1>1. tun[p].stage = "save" BY DEF Save, At
<1>2. /\ tun[p] \in Transaction /\ lock = p /\ Held(tun[p], net, before[p]) /\ Legal(net)
  BY <1>1, AtStage
<1>3. PICK b : b = before[p] /\ Settled(b) /\ b \in Network
  BY <1>2, LegalFacts DEF Held, Settled
<1>4. /\ net = Opened(b) /\ tun[p].fd /\ ~tun[p].valid /\ ~tun[p].created /\ tun[p].undo = <<>>
      /\ net.exists
  BY <1>1, <1>2, <1>3 DEF Held
<1>5. CASE Fails(p) BY <1>1, <1>2, <1>5, FailsStep
<1>6. CASE ~Fails(p)
  <2>1. /\ tun' = [tun EXCEPT ![p] =
                     IF Mode(p) = "rmtun" THEN [@ EXCEPT !.stage = "unpersist"]
                     ELSE [@ EXCEPT !.valid = TRUE, !.wasUp = net.up,
                                    !.saved = SavedConfig(net), !.stage = "down"]]
        /\ UNCHANGED <<net, lock, before>>
    BY <1>6 DEF Save
  <2>2. CASE Mode(p) = "rmtun"
    <3>1. PICK u : u = [tun[p] EXCEPT !.stage = "unpersist"] OBVIOUS
    <3>2. u \in Transaction /\ u.stage = "unpersist" /\ Elsewise(u, tun[p])
      BY <1>2, <3>1, StageFacts DEF Stages
    <3>3. tun' = [tun EXCEPT ![p] = u] BY <2>1, <2>2, <3>1 DEF TxInv
    <3>4. Held(u, net, b) BY <1>3, <1>4, <2>2, <3>2 DEF Held, Elsewise, Mode
    <3> QED BY <1>2, <1>3, <2>1, <3>2, <3>3, <3>4, HolderStep
  <2>3. CASE Mode(p) # "rmtun"
    <3>1. PICK saved : saved = SavedConfig(net) OBVIOUS
    <3>2. PICK up : up = net.up OBVIOUS
    <3>3. PICK u : u = [tun[p] EXCEPT !.valid = TRUE, !.wasUp = up, !.saved = saved,
                                      !.stage = "down"]
      OBVIOUS
    <3>4. net.up = b.up /\ net.addrs = b.addrs /\ net.routes = b.routes
          /\ net.persist = b.persist
      BY <1>3, <1>4, OpenedFacts
    <3>5. saved = SavedConfig(b) BY <3>1, <3>4 DEF SavedConfig
    <3>6. saved \in [addrs : SUBSET (V4 \cup V6), routes : [Dests -> RouteKinds]]
      BY <1>3, <3>5, NetworkFacts DEF SavedConfig, RouteKinds
    <3>7. up \in BOOLEAN /\ up = b.up BY <1>3, <3>2, <3>4, NetworkFacts
    <3>8. /\ u \in Transaction /\ u.stage = "down" /\ u.fd /\ u.valid /\ u.wasUp = up
          /\ u.saved = saved /\ ~u.created /\ u.undo = <<>>
      BY <1>2, <1>4, <3>3, <3>6, <3>7 DEF Transaction, Stages
    <3>9. tun' = [tun EXCEPT ![p] = u] BY <2>1, <2>3, <3>1, <3>2, <3>3 DEF TxInv
    <3>10. Loose(net, b, u) BY <1>3, <1>4, LooseOpened
    <3>11. net.persist = (b.persist \/ u.created)
      BY <1>3, <3>4, <3>8, NetworkFacts
    <3>12. Held(u, net, b) BY <1>3, <1>4, <3>5, <3>7, <3>8, <3>10, <3>11 DEF Held
    <3> QED BY <1>2, <1>3, <2>1, <3>8, <3>9, <3>12, HolderStep
  <2> QED BY <2>2, <2>3
<1> QED BY <1>5, <1>6

LEMMA DownStep ==
  ASSUME TxInv, NEW p \in Processes, Down(p), main' = main, p = Daemon => main = "setup"
  PROVE  TxInv'
<1>1. tun[p].stage = "down" BY DEF Down, At
<1>2. /\ tun[p] \in Transaction /\ lock = p /\ Held(tun[p], net, before[p]) /\ Legal(net)
  BY <1>1, AtStage
<1>3. PICK b : b = before[p] /\ Settled(b) /\ Legal(b) BY <1>2 DEF Held, Settled
<1>4. PICK t : t = tun[p] /\ t \in Transaction /\ t.stage = "down" BY <1>1, <1>2
<1>5. /\ net = Opened(b) /\ t.valid /\ t.fd /\ t.wasUp = b.up /\ t.undo = <<>>
      /\ net.persist = (b.persist \/ t.created) /\ ~t.created /\ Held(t, net, b)
  BY <1>2, <1>3, <1>4 DEF Held
<1>6. PICK results : results = IF b.up THEN Downs(net) ELSE {net} OBVIOUS
<1>7. PICK s \in {"persist", "queues"} :
        s = (IF Mode(p) = "mktun" THEN "persist" ELSE "queues")
  OBVIOUS
<1>8. Request(p, results, s) BY <1>3, <1>4, <1>5, <1>6, <1>7 DEF Down
<1>9. s = "persist" => t.mode = "mktun" BY <1>4, <1>7 DEF Mode
<1>10. s \in Stages \ {"running"} BY <1>7 DEF Stages
<1>11. ASSUME NEW m \in results
       PROVE  /\ Legal(m) /\ m.exists /\ m.persist = net.persist /\ Loose(m, b, t)
              /\ Held([t EXCEPT !.stage = s], m, b)
  <2>1. m \in IF b.up THEN Downs(Opened(b)) ELSE {Opened(b)} BY <1>5, <1>6
  <2>2. Legal(m) /\ Lowered(m, b) /\ ~m.up /\ m.exists /\ m.persist = b.persist
    BY <1>3, <2>1, LowersDowns
  <2>3. net.persist = b.persist BY <1>3, <1>5, OpenedFacts DEF Legal
  <2>4. PICK u : u = [t EXCEPT !.stage = s] OBVIOUS
  <2>5. u \in Transaction /\ u.stage = s /\ Elsewise(u, t) BY <1>4, <1>10, <2>4, StageFacts
  <2>6. Loose(m, b, t) /\ Loose(m, b, u) BY <2>2, LooseLowered
  <2>7. Held(u, m, b)
    BY <1>3, <1>5, <1>7, <1>9, <2>2, <2>3, <2>5, <2>6 DEF Held, Elsewise
  <2> QED BY <2>2, <2>3, <2>4, <2>6, <2>7
<1> QED BY <1>2, <1>3, <1>4, <1>5, <1>8, <1>10, <1>11, RequestStep

\* tun_negotiate takes a candidate that every queue accepts.
LEMMA Negotiated ==
  ASSUME NEW count \in 0..Queues, Accepted(count) # {}
  PROVE  LET mask == Candidates[First(Accepted(count))]
         IN  mask \in {"udp", "tcp", "none"} /\ \A q \in 0..count : mask \in Able[q]
<1>1. /\ DOMAIN Candidates \subseteq 0..3
      /\ \A k \in DOMAIN Candidates : Candidates[k] \in {"udp", "tcp", "none"}
  <2>1. CASE Candidates = <<"udp", "tcp", "none">> BY <2>1
  <2>2. CASE Candidates = <<"none">> BY <2>2
  <2>3. CASE Candidates = <<Offload>> /\ Offload \in {"udp", "tcp"} BY <2>3
  <2>4. CASE Candidates = <<>> BY <2>4
  <2> QED BY <2>1, <2>2, <2>3, <2>4, SetupAssumption DEF Candidates
<1>2. First(Accepted(count)) \in Accepted(count)
  <2>1. Accepted(count) \subseteq 0..3 /\ 0 \in Int /\ 3 \in Int BY <1>1 DEF Accepted
  <2>2. \E k \in Accepted(count) : \A other \in Accepted(count) : k <= other
    <3> PICK S : S = Accepted(count) OBVIOUS
    <3> QED BY <2>1, LeastOf
  <2> QED BY <2>2 DEF First
<1> QED BY <1>1, <1>2 DEF Accepted

LEMMA AttachQueuesStep ==
  ASSUME TxInv, NEW p \in Processes, AttachQueues(p), main' = main, p = Daemon => main = "setup"
  PROVE  TxInv'
<1>1. tun[p].stage = "queues" BY DEF AttachQueues, At
<1>2. /\ tun[p] \in Transaction /\ lock = p /\ Held(tun[p], net, before[p]) /\ Legal(net)
  BY <1>1, AtStage
<1>3. CASE Fails(p) BY <1>1, <1>2, <1>3, FailsStep
<1>4. CASE ~Fails(p)
  <2>1. PICK count : count = IF tun[p].dispatch THEN 0 ELSE Queues OBVIOUS
  <2>2. count \in 0..Queues BY <2>1, SetupAssumption
  <2>3. PICK mask : mask = Candidates[First(Accepted(count))] OBVIOUS
  <2>4. /\ Accepted(count) # {} /\ UNCHANGED <<net, lock, before>>
        /\ tun' = [tun EXCEPT ![p].queues = count, ![p].stage = "up", ![p].mask = mask]
    BY <1>4, <2>1, <2>3 DEF AttachQueues
  <2>5. mask \in {"udp", "tcp", "none"} /\ \A q \in 0..count : mask \in Able[q]
    BY <2>2, <2>3, <2>4, Negotiated
  <2>6. PICK t : t = tun[p] /\ t \in Transaction BY <1>2
  <2>7. PICK u : u = [t EXCEPT !.queues = count, !.stage = "up", !.mask = mask] OBVIOUS
  <2>8. /\ u \in Transaction /\ u.stage = "up" /\ u.fd = t.fd /\ u.queues = count
        /\ u.mask = mask /\ u.valid = t.valid /\ u.wasUp = t.wasUp /\ u.created = t.created
        /\ u.saved = t.saved /\ u.undo = t.undo
    <3>1. PICK s : s = "up" /\ s \in Stages BY DEF Stages
    <3>2. u = [t EXCEPT !.queues = count, !.stage = s, !.mask = mask] BY <2>7, <3>1
    <3>3. u \in Transaction BY <2>2, <2>5, <2>6, <3>1, <3>2 DEF Transaction
    <3> QED BY <2>6, <3>1, <3>2, <3>3 DEF Transaction
  <2>9. tun' = [tun EXCEPT ![p] = u] BY <2>4, <2>6, <2>7 DEF TxInv
  <2>10. PICK b : b = before[p] /\ Held(t, net, b) BY <1>2, <2>6
  <2>11. Loose(net, b, t) => Loose(net, b, u) BY <2>8 DEF Loose, Logged
  <2>12. Held(u, net, b) BY <1>1, <2>5, <2>6, <2>8, <2>10, <2>11 DEF Held
  <2> QED BY <1>2, <2>4, <2>8, <2>9, <2>10, <2>12, HolderStep
<1> QED BY <1>3, <1>4

LEMMA LinkUpStep ==
  ASSUME TxInv, NEW p \in Processes, LinkUp(p), main' = main, p = Daemon => main = "setup"
  PROVE  TxInv'
<1>1. tun[p].stage = "up" BY DEF LinkUp, At
<1>2. /\ tun[p] \in Transaction /\ lock = p /\ Held(tun[p], net, before[p]) /\ Legal(net)
  BY <1>1, AtStage
<1>3. PICK b : b = before[p] /\ Legal(b) BY <1>2 DEF Held, Settled
<1>4. PICK t : t = tun[p] /\ t \in Transaction /\ t.stage = "up" BY <1>1, <1>2
<1>5. /\ Held(t, net, b) /\ Lowered(net, b) /\ ~net.up /\ t.undo = <<>> /\ t.valid
      /\ t.wasUp = b.up /\ net.exists
  BY <1>2, <1>3, <1>4 DEF Held
<1>6. PICK m : m = IF t.wasUp \/ Conf.up THEN Up(net) ELSE net OBVIOUS
<1>7. Request(p, {m}, "restore") BY <1>4, <1>6 DEF LinkUp
<1>8. /\ Legal(m) /\ m.exists /\ m.persist = net.persist /\ Lowered(m, b)
      /\ m.up = (b.up \/ Conf.up)
  <2>1. CASE t.wasUp \/ Conf.up
    <3>1. m = Up(net) /\ net \in Network BY <1>2, <1>6, <2>1, LegalFacts
    <3>2. /\ m \in Network /\ m.exists = net.exists /\ m.up
          /\ m.persist = net.persist /\ m.addrs = net.addrs /\ m.routes = net.routes
      BY <3>1, UpFacts
    <3>3. Legal(m) BY <1>2, <1>5, <3>1, LegalUp
    <3>4. m.up \in BOOLEAN /\ b.up \in BOOLEAN /\ Conf.up \in BOOLEAN
      BY <1>3, <3>2, NetworkFacts, SetupAssumption DEF Legal
    <3>5. m.up = (b.up \/ Conf.up) BY <1>5, <2>1, <3>2, <3>4
    <3> QED BY <1>5, <3>2, <3>3, <3>5 DEF Lowered
  <2>2. CASE ~(t.wasUp \/ Conf.up)
    <3>1. m = net BY <1>6, <2>2
    <3>2. net.up \in BOOLEAN /\ b.up \in BOOLEAN /\ Conf.up \in BOOLEAN
      BY <1>2, <1>3, NetworkFacts, SetupAssumption DEF Legal
    <3> QED BY <1>2, <1>5, <2>2, <3>1, <3>2
  <2> QED BY <2>1, <2>2
<1>9. PICK u : u = [t EXCEPT !.stage = "restore"] OBVIOUS
<1>10. u \in Transaction /\ u.stage = "restore" /\ Elsewise(u, t) /\ "restore" \in Stages \ {"running"}
  BY <1>4, <1>9, StageFacts DEF Stages
<1>11. Loose(m, b, t) /\ Loose(m, b, u) BY <1>8, LooseLowered
<1>12. Held(u, m, b) BY <1>4, <1>5, <1>8, <1>10, <1>11 DEF Held, Elsewise
<1> QED BY <1>2, <1>3, <1>4, <1>5, <1>7, <1>8, <1>9, <1>10, <1>11, <1>12, RequestStep

LEMMA RestoreStep ==
  ASSUME TxInv, NEW p \in Processes, Restore(p), main' = main, p = Daemon => main = "setup"
  PROVE  TxInv'
<1>1. tun[p].stage = "restore" BY DEF Restore, At
<1>2. /\ tun[p] \in Transaction /\ lock = p /\ Held(tun[p], net, before[p]) /\ Legal(net)
  BY <1>1, AtStage
<1>3. PICK b : b = before[p] /\ Legal(b) BY <1>2 DEF Held, Settled
<1>4. PICK t : t = tun[p] /\ t \in Transaction /\ t.stage = "restore" BY <1>1, <1>2
<1>5. /\ Held(t, net, b) /\ Lowered(net, b) /\ net.up = (b.up \/ Conf.up) /\ t.undo = <<>>
      /\ t.valid /\ t.wasUp = b.up /\ t.saved = SavedConfig(b) /\ net.exists
  BY <1>2, <1>3, <1>4 DEF Held
<1>6. PICK m : m = IF b.up THEN Restored(net, SavedConfig(b)) ELSE net OBVIOUS
<1>7. Request(p, {m}, "add") BY <1>4, <1>5, <1>6 DEF Restore
<1>8. Legal(m) /\ m.exists /\ m.persist = net.persist /\ m.up = net.up /\ Extended(m, b, t)
  <2>1. b.up => net.up BY <1>5
  <2>2. /\ Legal(m) /\ m.exists /\ m.up = net.up /\ m.persist = net.persist
        /\ m.up = (b.up \/ Conf.up) => Extended(m, b, t)
    BY <1>2, <1>3, <1>4, <1>5, <1>6, <2>1, RestoresAll
  <2> QED BY <1>5, <2>2
<1>9. PICK u : u = [t EXCEPT !.stage = "add"] OBVIOUS
<1>10. u \in Transaction /\ u.stage = "add" /\ Elsewise(u, t) /\ "add" \in Stages \ {"running"}
  BY <1>4, <1>9, StageFacts DEF Stages
<1>11. Extended(m, b, u) BY <1>8, <1>10 DEF Extended, Logged, Elsewise
<1>12. Loose(m, b, t) /\ Loose(m, b, u) BY <1>8, <1>11, LooseExtended
<1>13. Held(u, m, b) BY <1>4, <1>5, <1>8, <1>10, <1>11, <1>12 DEF Held, Elsewise
<1> QED BY <1>2, <1>3, <1>4, <1>5, <1>7, <1>8, <1>9, <1>10, <1>12, <1>13, RequestStep

LEMMA AddStep ==
  ASSUME TxInv, NEW p \in Processes, Add(p), main' = main, p = Daemon => main = "setup"
  PROVE  TxInv'
<1>1. tun[p].stage = "add" BY DEF Add, At
<1>2. /\ tun[p] \in Transaction /\ lock = p /\ Held(tun[p], net, before[p]) /\ Legal(net)
  BY <1>1, AtStage
<1>3. PICK b : b = before[p] /\ Legal(b) BY <1>2 DEF Held, Settled
<1>4. PICK t : t = tun[p] /\ t \in Transaction /\ t.stage = "add" BY <1>1, <1>2
<1>5. /\ Held(t, net, b) /\ Extended(net, b, t) /\ t.valid /\ t.fd /\ net.exists
  BY <1>2, <1>3, <1>4 DEF Held
<1>6. PICK item \in Left(p), applied \in BOOLEAN, done \in BOOLEAN :
        /\ done => applied
        /\ applied => item.kind = "addr" \/ net.up
        /\ net' = IF ~applied THEN net
                  ELSE IF item.kind = "addr" THEN AddAddr(net, item.what)
                  ELSE PutRoute(net, item.what, "tayga")
        /\ tun' = [tun EXCEPT ![p].undo = Log(p, item, done),
                              ![p].stage = IF done THEN "add" ELSE "fail"]
  BY DEF Add
<1>7. item \in Requests BY <1>6, RequestFacts DEF Left
<1>8. PICK undo : undo = <<item>> \o t.undo OBVIOUS
<1>9. PICK s \in {"add", "fail"} : s = IF done THEN "add" ELSE "fail" OBVIOUS
<1>10. PICK u : u = [t EXCEPT !.undo = undo, !.stage = s] OBVIOUS
<1>11. undo \in Seq(Requests)
  <2>1. PICK q \in Seq(Requests) : q = t.undo BY <1>4 DEF Transaction
  <2>2. PICK one \in Seq(Requests) : one = <<item>> BY <1>7, DistinctOne DEF Distinct
  <2>3. one \o q \in Seq(Requests) OBVIOUS
  <2> QED BY <1>8, <2>1, <2>2, <2>3
<1>12. /\ u \in Transaction /\ u.stage = s /\ u.undo = undo
       /\ u.mode = t.mode /\ u.fd = t.fd /\ u.queues = t.queues /\ u.mask = t.mask
       /\ u.valid = t.valid /\ u.wasUp = t.wasUp /\ u.created = t.created /\ u.saved = t.saved
  BY <1>4, <1>9, <1>10, <1>11 DEF Transaction, Stages
<1>13. tun' = [tun EXCEPT ![p] = u]
  BY <1>4, <1>6, <1>8, <1>9, <1>10 DEF TxInv, Log
<1>14. UNCHANGED <<lock, before>> BY DEF Add
<1>17. ToSet(u.undo) = ToSet(t.undo) \cup {item}
  <2>1. PICK q \in Seq(Requests) : q = t.undo BY <1>4 DEF Transaction
  <2>2. PICK one \in Seq(Requests) : one = <<item>> BY <1>7, DistinctOne DEF Distinct
  <2>3. ToSet(one) = {item} BY <1>7, <2>2, DistinctOne
  <2>4. ToSet(one \o q) = ToSet(one) \cup ToSet(q) BY ConcatSet
  <2> QED BY <1>8, <1>12, <2>1, <2>2, <2>3, <2>4
<1>15. CASE applied
  <2>1. PICK m : m = IF item.kind = "addr" THEN AddAddr(net, item.what)
                     ELSE PutRoute(net, item.what, "tayga")
    OBVIOUS
  <2>2. net' = m BY <1>6, <1>15, <2>1
  <2>3. /\ Legal(m) /\ m.exists /\ m.persist = net.persist /\ Extended(m, b, u)
        /\ Loose(net, b, u)
    <3>1. item.kind = "addr" \/ net.up BY <1>6, <1>15
    <3>2. ToSet(u.undo) = ToSet(t.undo) \cup {item} /\ u \in Transaction BY <1>12, <1>17
    <3>3. Legal(b) /\ Legal(net) /\ net.exists /\ t \in Transaction /\ Extended(net, b, t)
      BY <1>2, <1>3, <1>4, <1>5
    <3>4. m = Granted(net, item) BY <2>1 DEF Granted
    <3> QED BY <1>7, <3>1, <3>2, <3>3, <3>4, ExtendsMore
  <2>4. Loose(m, b, u) BY <2>3, LooseExtended
  <2>5. Held(u, m, b) BY <1>4, <1>5, <1>9, <1>12, <2>3, <2>4 DEF Held
  <2> QED BY <1>2, <1>3, <1>9, <1>12, <1>13, <1>14, <2>2, <2>3, <2>5, HolderStep
<1>16. CASE ~applied
  <2>1. net' = net /\ s = "fail" BY <1>6, <1>9, <1>16
  <2>2. Logged(t, "addr") \subseteq Logged(u, "addr") /\ Logged(t, "route") \subseteq Logged(u, "route")
    BY <1>17 DEF Logged
  <2>3. Loose(net, b, u) BY <1>5, <2>2, LooseExtended DEF Loose
  <2>4. Held(u, net, b) BY <1>4, <1>5, <1>12, <2>1, <2>3 DEF Held
  <2> QED BY <1>2, <1>3, <1>9, <1>12, <1>13, <1>14, <2>1, <2>4, HolderStep
<1> QED BY <1>15, <1>16

LEMMA SetupDoneStep ==
  ASSUME TxInv, NEW p \in Processes, SetupDone(p), main' = main, p = Daemon => main = "setup"
  PROVE  TxInv'
<1>1. tun[p].stage = "add" /\ Left(p) = {} /\ Goto(p, "ready") /\ UNCHANGED <<net, lock, before>>
  BY DEF SetupDone, At
<1>2. /\ tun[p] \in Transaction /\ lock = p /\ Held(tun[p], net, before[p]) /\ Legal(net)
  BY <1>1, AtStage
<1>3. PICK u : u = [tun[p] EXCEPT !.stage = "ready"] OBVIOUS
<1>4. u \in Transaction /\ u.stage = "ready" /\ Elsewise(u, tun[p])
  BY <1>2, <1>3, StageFacts DEF Stages
<1>5. tun' = [tun EXCEPT ![p] = u] BY <1>1, <1>3 DEF Goto, TxInv
<1>6. ToSet(tun[p].undo) = Requests BY <1>1, <1>2, LoggedFacts, RequestFacts DEF Left
<1>7. Loose(net, before[p], tun[p]) => Loose(net, before[p], u) BY <1>4 DEF Loose, Logged, Elsewise
<1>8. Extended(net, before[p], tun[p]) => Extended(net, before[p], u)
  BY <1>4 DEF Extended, Logged, Elsewise
<1>9. Held(u, net, before[p]) BY <1>1, <1>2, <1>4, <1>6, <1>7, <1>8 DEF Held, Elsewise
<1> QED BY <1>1, <1>2, <1>4, <1>5, <1>9, HolderStep

LEMMA PersistStep ==
  ASSUME TxInv, NEW p \in Processes, Persist(p), main' = main, p = Daemon => main = "setup"
  PROVE  TxInv'
<1>1. tun[p].stage = "persist" BY DEF Persist, At
<1>2. /\ tun[p] \in Transaction /\ lock = p /\ Held(tun[p], net, before[p]) /\ Legal(net)
  BY <1>1, AtStage
<1>3. PICK b : b = before[p] /\ Legal(b) /\ b \in Network
  BY <1>2, LegalFacts DEF Held, Settled
<1>4. PICK t : t = tun[p] /\ t \in Transaction /\ t.stage = "persist" BY <1>1, <1>2
<1>5. /\ Held(t, net, b) /\ Lowered(net, b) /\ ~net.up /\ t.undo = <<>> /\ t.valid /\ t.fd
      /\ net.exists /\ net.persist = (b.persist \/ t.created) /\ ~t.created /\ t.mode = "mktun"
  BY <1>2, <1>3, <1>4 DEF Held
<1>6. net.persist \in BOOLEAN /\ b.persist \in BOOLEAN /\ net.persist = b.persist
  BY <1>2, <1>3, <1>5, NetworkFacts, LegalFacts
<1>7. CASE Fails(p) BY <1>1, <1>2, <1>7, FailsStep
<1>8. CASE ~Fails(p)
  <2>1. PICK s \in {"reup", "fail"} :
          /\ net' = [net EXCEPT !.persist = TRUE] /\ UNCHANGED <<lock, before>>
          /\ tun' = [tun EXCEPT ![p].created = ~net.persist, ![p].stage = s]
    BY <1>8 DEF Persist
  <2>2. PICK created \in BOOLEAN : created = ~b.persist OBVIOUS
  <2>3. PICK u : u = [t EXCEPT !.created = created, !.stage = s] OBVIOUS
  <2>4. /\ u \in Transaction /\ u.stage = s /\ u.created = created
        /\ u.mode = t.mode /\ u.fd = t.fd /\ u.queues = t.queues /\ u.mask = t.mask
        /\ u.valid = t.valid /\ u.wasUp = t.wasUp /\ u.saved = t.saved /\ u.undo = t.undo
    <3>1. s \in Stages BY <2>1 DEF Stages
    <3> QED BY <1>4, <2>2, <2>3, <3>1 DEF Transaction
  <2>5. tun' = [tun EXCEPT ![p] = u] BY <1>4, <1>6, <2>1, <2>2, <2>3 DEF TxInv
  <2>6. PICK m : m = [net EXCEPT !.persist = TRUE] OBVIOUS
  <2>7. /\ Legal(m) /\ m.exists /\ m.up = net.up /\ m.persist
        /\ m.addrs = net.addrs /\ m.routes = net.routes
    BY <1>2, <1>5, <2>6, LegalPersist
  <2>8. Lowered(m, b) /\ Loose(m, b, u) BY <1>5, <2>7, LooseLowered DEF Lowered
  <2>9. m.persist = (b.persist \/ u.created)
    <3>1. m.persist \in BOOLEAN BY <2>7, NetworkFacts, LegalFacts
    <3> QED BY <2>2, <2>4, <2>7, <3>1
  <2>10. u.created => ~b.persist BY <2>2, <2>4
  <2>11. Held(u, m, b)
    BY <1>4, <1>5, <2>1, <2>4, <2>7, <2>8, <2>9, <2>10 DEF Held
  <2>12. net' = m BY <2>1, <2>6
  <2>13. u.stage # "running" BY <2>1, <2>4
  <2> QED BY <1>2, <1>3, <2>1, <2>4, <2>5, <2>7, <2>11, <2>12, <2>13, HolderStep
<1> QED BY <1>7, <1>8

LEMMA ReUpStep ==
  ASSUME TxInv, NEW p \in Processes, ReUp(p), main' = main, p = Daemon => main = "setup"
  PROVE  TxInv'
<1>1. tun[p].stage = "reup" BY DEF ReUp, At
<1>2. /\ tun[p] \in Transaction /\ lock = p /\ Held(tun[p], net, before[p]) /\ Legal(net)
  BY <1>1, AtStage
<1>3. PICK b : b = before[p] /\ Legal(b) /\ b \in Network
  BY <1>2, LegalFacts DEF Held, Settled
<1>4. PICK t : t = tun[p] /\ t \in Transaction /\ t.stage = "reup" BY <1>1, <1>2
<1>5. /\ Held(t, net, b) /\ Lowered(net, b) /\ ~net.up /\ t.undo = <<>> /\ t.valid /\ t.fd
      /\ net.exists /\ net.persist /\ t.mode = "mktun" /\ t.wasUp = b.up
      /\ t.saved = SavedConfig(b)
  BY <1>2, <1>3, <1>4 DEF Held
<1>6. PICK n : n = IF b.up THEN Up(net) ELSE net OBVIOUS
<1>7. PICK m : m = IF b.up THEN Restored(n, SavedConfig(b)) ELSE n OBVIOUS
<1>8. Request(p, {m}, "made")
  <2>1. m = IF t.wasUp THEN Restored(Up(net), t.saved) ELSE net BY <1>5, <1>6, <1>7
  <2> QED BY <1>4, <2>1 DEF ReUp
<1>9. Legal(n) /\ n.exists /\ n.persist = net.persist /\ Lowered(n, b) /\ n.up = b.up
  <2>1. net \in Network /\ net.up \in BOOLEAN /\ b.up \in BOOLEAN
    BY <1>2, <1>3, LegalFacts, NetworkFacts
  <2>2. CASE b.up
    <3>1. n = Up(net) BY <1>6, <2>2
    <3>2. /\ Up(net) \in Network /\ Up(net).exists = net.exists /\ Up(net).up
          /\ Up(net).persist = net.persist /\ Up(net).addrs = net.addrs
          /\ Up(net).routes = net.routes
      BY <2>1, UpFacts
    <3>3. Legal(Up(net)) BY <1>2, <1>5, LegalUp
    <3>4. n.up = b.up BY <2>1, <2>2, <3>1, <3>2, NetworkFacts
    <3> QED BY <1>5, <3>1, <3>2, <3>3, <3>4 DEF Lowered
  <2>3. CASE ~b.up BY <1>2, <1>5, <1>6, <2>1, <2>3
  <2> QED BY <2>2, <2>3
<1>10. /\ Legal(m) /\ m.exists /\ m.up = b.up /\ m.persist = net.persist
       /\ m.addrs = b.addrs /\ m.routes = b.routes
  <2>1. b.up => n.up BY <1>9
  <2>2. /\ Legal(m) /\ m.exists /\ m.up = n.up /\ m.persist = n.persist
        /\ m.addrs = b.addrs /\ m.routes = b.routes
    <3>1. /\ Legal(b) /\ Legal(n) /\ Lowered(n, b) /\ n.exists /\ t \in Transaction
          /\ t.undo = <<>> /\ (b.up => n.up)
      BY <1>3, <1>4, <1>5, <1>9, <2>1
    <3> QED BY <1>7, <3>1, RestoresAll
  <2> QED BY <1>9, <2>2
<1>11. PICK u : u = [t EXCEPT !.stage = "made"] OBVIOUS
<1>12. u \in Transaction /\ u.stage = "made" /\ Elsewise(u, t) /\ "made" \in Stages \ {"running"}
  BY <1>4, <1>11, StageFacts DEF Stages
<1>13. Loose(m, b, t) /\ Loose(m, b, u) BY <1>10 DEF Loose
<1>14. m = [Opened(b) EXCEPT !.persist = (u.mode = "mktun")]
  <2>1. PICK o : o = Opened(b) OBVIOUS
  <2>2. /\ o \in Network /\ o.exists /\ o.up = b.up /\ o.addrs = b.addrs /\ o.routes = b.routes
    BY <1>3, <2>1, OpenedFacts
  <2>3. PICK k : k = [o EXCEPT !.persist = TRUE] OBVIOUS
  <2>4. /\ k \in Network /\ k.exists = o.exists /\ k.up = o.up /\ k.persist = TRUE
        /\ k.addrs = o.addrs /\ k.routes = o.routes
    BY <2>2, <2>3 DEF Network
  <2>5. m \in Network /\ m.exists \in BOOLEAN /\ m.persist \in BOOLEAN /\ k.exists \in BOOLEAN
    BY <1>10, <2>4, LegalFacts, NetworkFacts
  <2>6. m.exists = k.exists /\ m.persist = k.persist BY <1>5, <1>10, <2>2, <2>4, <2>5
  <2>7. m = k BY <1>10, <2>2, <2>4, <2>5, <2>6, SameNetwork
  <2>8. (u.mode = "mktun") = TRUE BY <1>5, <1>12 DEF Elsewise
  <2> QED BY <2>1, <2>3, <2>7, <2>8
<1>15. Held(u, m, b) BY <1>4, <1>5, <1>10, <1>12, <1>13, <1>14 DEF Held, Elsewise
<1>16. \A x \in {m} : /\ Legal(x) /\ x.exists /\ x.persist = net.persist
                      /\ Loose(x, before[p], tun[p])
                      /\ Held([tun[p] EXCEPT !.stage = "made"], x, before[p])
  BY <1>3, <1>4, <1>10, <1>11, <1>13, <1>15
<1>17. tun[p].valid /\ tun[p].stage # "made" BY <1>1, <1>4, <1>5
<1> QED BY <1>2, <1>8, <1>12, <1>16, <1>17, RequestStep

LEMMA UnpersistStep ==
  ASSUME TxInv, NEW p \in Processes, Unpersist(p), main' = main, p = Daemon => main = "setup"
  PROVE  TxInv'
<1>1. tun[p].stage = "unpersist" BY DEF Unpersist, At
<1>2. /\ tun[p] \in Transaction /\ lock = p /\ Held(tun[p], net, before[p]) /\ Legal(net)
  BY <1>1, AtStage
<1>3. PICK b : b = before[p] /\ Settled(b) BY <1>2 DEF Held
<1>4. CASE Fails(p) BY <1>1, <1>2, <1>4, FailsStep
<1>5. CASE ~Fails(p)
  <2>1. /\ net' = [net EXCEPT !.persist = FALSE] /\ Goto(p, "made")
        /\ UNCHANGED <<lock, before>>
    BY <1>5 DEF Unpersist
  <2>2. PICK u : u = [tun[p] EXCEPT !.stage = "made"] OBVIOUS
  <2>3. u \in Transaction /\ u.stage = "made" /\ Elsewise(u, tun[p])
    BY <1>2, <2>2, StageFacts DEF Stages
  <2>4. tun' = [tun EXCEPT ![p] = u] BY <2>1, <2>2 DEF Goto, TxInv
  <2>5. /\ net = Opened(b) /\ tun[p].fd /\ ~tun[p].valid /\ tun[p].mode = "rmtun" /\ net.exists
    BY <1>1, <1>2, <1>3 DEF Held
  <2>6. PICK m : m = [net EXCEPT !.persist = FALSE] OBVIOUS
  <2>7. Legal(m) /\ m.exists BY <1>2, <2>5, <2>6, LegalPersist
  <2>8. m = [Opened(b) EXCEPT !.persist = (u.mode = "mktun")]
    <3>1. (u.mode = "mktun") = FALSE BY <2>3, <2>5 DEF Elsewise
    <3> QED BY <2>5, <2>6, <3>1
  <2>9. Held(u, m, b) BY <1>3, <2>3, <2>5, <2>7, <2>8 DEF Held, Elsewise
  <2>10. net' = m BY <2>1, <2>6
  <2> QED BY <1>2, <1>3, <2>1, <2>3, <2>4, <2>7, <2>9, <2>10, HolderStep
<1> QED BY <1>4, <1>5

\* --mktun or --rmtun ends, and the lock is free.
LEMMA MadeStep ==
  ASSUME TxInv, NEW p \in Processes, Made(p), main' = main, p = Daemon => main = "setup"
  PROVE  TxInv'
<1>1. /\ tun[p].stage = "made" /\ net' = Closed(net) /\ lock' = Nobody /\ before' = before
      /\ tun' = [tun EXCEPT ![p] = [Drop(tun[p]) EXCEPT !.stage = "over"]]
  BY DEF Made, At, TxInv
<1>2. tun[p] \in Transaction /\ lock = p /\ Legal(net) BY <1>1, AtStage
<1>3. PICK u : u = [Drop(tun[p]) EXCEPT !.stage = "over"] OBVIOUS
<1>4. u \in Transaction /\ u.stage = "over" /\ ~u.fd /\ ~u.valid
  BY <1>2, <1>3, DropFacts DEF Stages
<1>5. Apart(u) BY <1>4 DEF Apart
<1>6. Settled(net') BY <1>1, <1>2, SettledClosed
<1>7. tun' = [tun EXCEPT ![p] = u] BY <1>1, <1>3
<1>8. tun'[Daemon] = IF p = Daemon THEN u ELSE tun[Daemon]
  BY <1>7, LifecycleAssumption DEF TxInv
<1>9. Along(main', tun'[Daemon].stage) BY <1>4, <1>8 DEF TxInv, Along
<1>10. lock' # p /\ Legal(net') BY <1>1, <1>6, SetupAssumption DEF Settled
<1> QED BY <1>1, <1>2, <1>4, <1>5, <1>6, <1>7, <1>9, <1>10, TxStep

\* What an abort leaves is what was there.
LEMMA AbortLeaves ==
  ASSUME TxInv, NEW p \in Processes, NEW stage, Abort(p, stage),
         tun[p].stage \in {"fail", "ready", "refused"}
  PROVE  /\ lock = p => net' = before[p] /\ Settled(before[p])
         /\ lock # p => net' = net
<1>1. tun[p] \in Transaction /\ net \in Network /\ net' \in Aborts(tun[p], net)
  BY AtStage, LegalFacts DEF Abort
<1>2. ASSUME lock = p PROVE net' = before[p] /\ Settled(before[p])
  <2>1. Held(tun[p], net, before[p]) BY <1>2, AtStage
  <2>2. tun[p].stage \in {"fail", "ready"} /\ Settled(before[p]) BY <2>1 DEF Held
  <2>3. Aborts(tun[p], net) \subseteq {before[p]} BY <1>1, <2>1, <2>2, HeldAborts
  <2> QED BY <1>1, <2>2, <2>3
<1>3. ASSUME lock # p PROVE net' = net
  <2>1. ~tun[p].fd /\ ~tun[p].valid BY <1>3, AtStage DEF Apart
  <2> QED BY <1>1, <2>1 DEF Aborts
<1> QED BY <1>2, <1>3

LEMMA AbortStep ==
  ASSUME TxInv, NEW p \in Processes, NEW stage \in {"refused", "over"}, Abort(p, stage),
         tun[p].stage \in {"fail", "ready", "refused"},
         Along(main', IF p = Daemon THEN stage ELSE tun[Daemon].stage)
  PROVE  TxInv'
<1>1. /\ lock' = IF lock = p THEN Nobody ELSE lock
      /\ tun' = [tun EXCEPT ![p] = [Drop(tun[p]) EXCEPT !.stage = stage]] /\ before' = before
  BY DEF Abort, TxInv
<1>2. tun[p] \in Transaction /\ Legal(net) BY AtStage
<1>3. PICK u : u = [Drop(tun[p]) EXCEPT !.stage = stage] OBVIOUS
<1>4. u \in Transaction /\ u.stage = stage /\ ~u.fd /\ ~u.valid
  <2>1. stage \in Stages BY DEF Stages
  <2> QED BY <1>2, <1>3, <2>1, DropFacts
<1>5. Apart(u) BY <1>4 DEF Apart
<1>6. tun' = [tun EXCEPT ![p] = u] BY <1>1, <1>3
<1>7. tun'[Daemon] = IF p = Daemon THEN u ELSE tun[Daemon]
  BY <1>6, LifecycleAssumption DEF TxInv
<1>8. Along(main', tun'[Daemon].stage)
  <2>1. tun'[Daemon].stage = IF p = Daemon THEN stage ELSE tun[Daemon].stage BY <1>4, <1>7
  <2> QED BY <2>1
<1>9. lock' # p BY <1>1, SetupAssumption
<1>10. CASE lock = p
  <2>1. net' = before[p] /\ Settled(before[p]) BY <1>10, AbortLeaves
  <2>2. Legal(net') /\ Settled(net') BY <2>1 DEF Settled
  <2>3. lock' = Nobody BY <1>1, <1>10
  <2> QED BY <1>1, <1>4, <1>5, <1>6, <1>8, <1>9, <1>10, <2>2, <2>3, TxStep
<1>11. CASE lock # p
  <2>1. net' = net /\ lock' = lock BY <1>1, <1>11, AbortLeaves
  <2>2. lock' = Nobody => Settled(net') BY <2>1 DEF TxInv
  <2>3. Legal(net') BY <1>2, <2>1
  <2> QED BY <1>1, <1>4, <1>5, <1>6, <1>8, <1>9, <2>1, <2>2, <2>3, TxStep
<1> QED BY <1>10, <1>11

\* A killed process leaves a network that is settled, though not the one it found.
LEMMA KilledStep ==
  ASSUME TxInv, NEW p \in Processes, Killed(p),
         Along(main', IF p = Daemon THEN "over" ELSE tun[Daemon].stage)
  PROVE  TxInv'
<1>1. /\ net' = IF tun[p].fd THEN Closed(net) ELSE net
      /\ lock' = IF lock = p THEN Nobody ELSE lock
      /\ tun' = [tun EXCEPT ![p] = [Fresh EXCEPT !.stage = "over"]] /\ before' = before
  BY DEF Killed
<1>2. tun[p] \in Transaction /\ Legal(net) BY AtStage
<1>3. PICK f : f = Fresh OBVIOUS
<1>4. PICK u : u = [f EXCEPT !.stage = "over"] OBVIOUS
<1>5. u \in Transaction /\ u.stage = "over" /\ ~u.fd /\ ~u.valid
  <2>1. f \in Transaction /\ ~f.fd /\ ~f.valid BY <1>3, FreshFacts
  <2>2. PICK s : s = "over" /\ s \in Stages BY DEF Stages
  <2>3. u = [f EXCEPT !.stage = s] BY <1>4, <2>2
  <2> QED BY <2>1, <2>2, <2>3, StageFacts DEF Elsewise
<1>6. Apart(u) BY <1>5 DEF Apart
<1>7. tun' = [tun EXCEPT ![p] = u] BY <1>1, <1>3, <1>4
<1>8. tun'[Daemon] = IF p = Daemon THEN u ELSE tun[Daemon]
  BY <1>7, LifecycleAssumption DEF TxInv
<1>9. Along(main', tun'[Daemon].stage)
  <2>1. tun'[Daemon].stage = IF p = Daemon THEN "over" ELSE tun[Daemon].stage BY <1>5, <1>8
  <2> QED BY <2>1
<1>10. lock' # p BY <1>1, SetupAssumption
<1>11. CASE lock = p
  <2>1. Settled(net')
    <3>1. CASE tun[p].fd BY <1>1, <1>2, <3>1, SettledClosed
    <3>2. CASE ~tun[p].fd
      <4>1. net = before[p] /\ Settled(before[p]) BY <1>11, <3>2, AtStage DEF Held
      <4> QED BY <1>1, <3>2, <4>1
    <3> QED BY <3>1, <3>2
  <2>2. lock' = Nobody /\ Legal(net') BY <1>1, <1>11, <2>1 DEF Settled
  <2> QED BY <1>1, <1>5, <1>6, <1>7, <1>9, <1>10, <1>11, <2>1, <2>2, TxStep
<1>12. CASE lock # p
  <2>1. ~tun[p].fd BY <1>12, AtStage DEF Apart
  <2>2. net' = net /\ lock' = lock BY <1>1, <1>12, <2>1
  <2>3. lock' = Nobody => Settled(net') BY <2>2 DEF TxInv
  <2>4. Legal(net') BY <1>2, <2>2
  <2> QED BY <1>1, <1>5, <1>6, <1>7, <1>9, <1>10, <2>2, <2>3, <2>4, TxStep
<1> QED BY <1>11, <1>12

LEMMA SetupNext ==
  ASSUME TxInv, NEW p \in Processes, SetupStep(p), main' = main, p = Daemon => main = "setup"
  PROVE  TxInv'
<1>1. CASE SetupFails(p)
  <2>1. PICK stage \in {"refused", "over"} : tun[p].stage = "fail" /\ Abort(p, stage)
    BY <1>1 DEF SetupFails, At
  <2>2. Along(main', IF p = Daemon THEN stage ELSE tun[Daemon].stage) BY DEF TxInv, Along
  <2> QED BY <2>1, <2>2, AbortStep
<1> QED
  BY <1>1, BeginStep, LockStep, AttachStep, SaveStep, DownStep, AttachQueuesStep, LinkUpStep,
     RestoreStep, AddStep, SetupDoneStep, PersistStep, ReUpStep, UnpersistStep, MadeStep
     DEF SetupStep

LEMMA TxInit == Init => TxInv
<1> SUFFICES ASSUME Init PROVE TxInv OBVIOUS
<1>1. /\ net \in Networks /\ lock = Nobody /\ tun = [p \in Processes |-> Fresh]
      /\ before = [p \in Processes |-> net] /\ main = "setup"
  BY DEF Init, SetupInit
<1>2. Settled(net) /\ Legal(net) /\ net \in Network
  BY <1>1, SetupAssumption DEF Settled, Legal
<1>3. PICK f : f = Fresh OBVIOUS
<1>4. f \in Transaction /\ f.stage = "idle" /\ ~f.fd /\ ~f.valid BY <1>3, FreshFacts
<1>5. tun \in [Processes -> Transaction] /\ \A p \in Processes : tun[p] = f
  BY <1>1, <1>3, <1>4
<1>6. before \in [Processes -> Network] BY <1>1, <1>2
<1>7. Apart(f) BY <1>4 DEF Apart
<1>8. \A p \in Processes : lock # p BY <1>1, SetupAssumption
<1>9. tun[Daemon] = f BY <1>5, LifecycleAssumption
<1>10. Along(main, tun[Daemon].stage) BY <1>1, <1>4, <1>9 DEF Along
<1> QED
  <2> HIDE DEF Held, Apart, Along, Legal, Settled
  <2> QED BY <1>1, <1>2, <1>5, <1>6, <1>7, <1>8, <1>10 DEF TxInv

\* Steps of the daemon that do not touch the network.
LEMMA TxElsewhere ==
  ASSUME TxInv, UNCHANGED setupVars, Along(main', tun[Daemon].stage)
  PROVE  TxInv'
<1> HIDE DEF Held, Apart, Along, Legal, Settled
<1> QED BY DEF TxInv, setupVars

LEMMA TxNext == TxInv /\ [Next]_vars => TxInv'
<1> SUFFICES ASSUME TxInv, [Next]_vars PROVE TxInv' OBVIOUS
<1>1. Along(main, tun[Daemon].stage) BY DEF TxInv
<1>2. ASSUME UNCHANGED setupVars, main' = main PROVE TxInv' BY <1>1, <1>2, TxElsewhere
<1>3. CASE main = "setup" /\ Setup(Daemon)
  <2>1. main' = main /\ SetupStep(Daemon) BY <1>3 DEF Setup, mainVars
  <2> QED BY <1>3, <2>1, SetupNext, LifecycleAssumption
<1>4. ASSUME NEW p \in Processes \ {Daemon}, Setup(p) PROVE TxInv'
  <2>1. main' = main /\ SetupStep(p) BY <1>4 DEF Setup, mainVars
  <2> QED BY <1>4, <2>1, SetupNext
<1>5. CASE StartDispatch
  <2>1. UNCHANGED setupVars /\ Along(main', tun[Daemon].stage)
    BY <1>5 DEF StartDispatch, Next1, At, Along
  <2> QED BY <2>1, TxElsewhere
<1>6. CASE StartAsync
  <2>1. UNCHANGED setupVars /\ Along(main', tun[Daemon].stage)
    BY <1>1, <1>6 DEF StartAsync, Along
  <2> QED BY <2>1, TxElsewhere
<1>7. CASE \E w \in Workers : CreateWorker(w)
  <2>1. UNCHANGED setupVars /\ Along(main', tun[Daemon].stage)
    BY <1>1, <1>7 DEF CreateWorker, Along
  <2> QED BY <2>1, TxElsewhere
<1>8. CASE OpenGate
  <2>1. /\ main = "threads" /\ UNCHANGED <<net, lock, before>>
        /\ \/ /\ tun' = [tun EXCEPT ![Daemon] = [Committed(@) EXCEPT !.stage = "running"]]
              /\ main' = "loop"
           \/ main' = "failed" /\ UNCHANGED tun
    BY <1>8 DEF OpenGate
  <2>2. tun[Daemon].stage = "ready" BY <1>1, <2>1 DEF Along
  <2>3. CASE main' = "failed" /\ UNCHANGED tun
    <3>1. Along(main', tun[Daemon].stage) BY <2>2, <2>3 DEF Along
    <3> QED BY <2>1, <2>3, <3>1, TxElsewhere DEF setupVars
  <2>4. ASSUME tun' = [tun EXCEPT ![Daemon] = [Committed(@) EXCEPT !.stage = "running"]],
               main' = "loop"
        PROVE  TxInv'
    <3>1. /\ Daemon \in Processes /\ lock = Daemon /\ tun[Daemon] \in Transaction /\ Legal(net)
          /\ Held(tun[Daemon], net, before[Daemon])
      BY <2>2, AtStage, LifecycleAssumption
    <3>2. PICK t : t = tun[Daemon] /\ t \in Transaction /\ t.stage = "ready" BY <2>2, <3>1
    <3>3. PICK b : b = before[Daemon] /\ Settled(b) /\ Held(t, net, b)
      BY <3>1, <3>2 DEF Held
    <3>4. t.fd /\ net.exists BY <3>2, <3>3 DEF Held
    <3>5. PICK c : c = NoConfig OBVIOUS
    <3>6. c \in [addrs : SUBSET (V4 \cup V6), routes : [Dests -> RouteKinds]]
      BY <3>5 DEF NoConfig, RouteKinds
    <3>7. PICK v : v = [t EXCEPT !.saved = c, !.undo = <<>>, !.valid = FALSE] OBVIOUS
    <3>8. v \in Transaction /\ ~v.valid /\ v.fd = t.fd
      <4>1. <<>> \in Seq(Requests) OBVIOUS
      <4> QED BY <3>2, <3>6, <3>7, <4>1 DEF Transaction
    <3>9. PICK s : s = "running" /\ s \in Stages BY DEF Stages
    <3>10. PICK u : u = [v EXCEPT !.stage = s] OBVIOUS
    <3>11. u \in Transaction /\ u.stage = "running" /\ ~u.valid /\ u.fd = t.fd
      BY <3>8, <3>9, <3>10, StageFacts DEF Elsewise
    <3>12. tun' = [tun EXCEPT ![Daemon] = u]
      BY <2>4, <3>1, <3>2, <3>5, <3>7, <3>9, <3>10 DEF TxInv, Committed
    <3>13. Held(u, net, b) BY <3>3, <3>4, <3>11 DEF Held
    <3>14. tun'[Daemon] = u BY <3>1, <3>12 DEF TxInv
    <3>15. Along(main', tun'[Daemon].stage) BY <2>4, <3>11, <3>14 DEF Along
    <3>16. net' = net /\ lock' = lock /\ before' = before /\ lock' # Nobody
      BY <2>1, <3>1, SetupAssumption
    <3>17. Held(u, net', before'[Daemon]) BY <3>3, <3>13, <3>16
    <3>18. Legal(net') BY <3>1, <3>16
    <3> QED BY <3>1, <3>11, <3>12, <3>15, <3>16, <3>17, <3>18, TxStep
  <2> QED BY <2>1, <2>3, <2>4
<1>9. CASE CloseGate
  <2>1. UNCHANGED setupVars /\ Along(main', tun[Daemon].stage)
    BY <1>1, <1>9 DEF CloseGate, Along
  <2> QED BY <2>1, TxElsewhere
<1>10. CASE StartupFailed
  <2>1. /\ main = "fail_join" /\ main' = "end"
        /\ Killed(Daemon) \/ Abort(Daemon, "over")
    BY <1>10 DEF StartupFailed
  <2>2. tun[Daemon].stage \in {"ready", "refused"} /\ Daemon \in Processes
    BY <1>1, <2>1, LifecycleAssumption DEF Along
  <2>3. Along(main', "over") BY <2>1 DEF Along
  <2> QED BY <2>1, <2>2, <2>3, KilledStep, AbortStep
<1>11. CASE Join
  <2>1. UNCHANGED setupVars /\ Along(main', tun[Daemon].stage)
    BY <1>1, <1>11 DEF Join, Along
  <2> QED BY <2>1, TxElsewhere
<1>12. CASE Exit
  <2>1. Killed(Daemon) /\ main' = "end" BY <1>12 DEF Exit
  <2>2. Along(main', "over") BY <2>1 DEF Along
  <2> QED BY <2>1, <2>2, KilledStep, LifecycleAssumption
<1>13. ASSUME NEW p \in Processes, Kill(p) PROVE TxInv'
  <2>1. Killed(p) /\ IF p = Daemon THEN main' = "end" ELSE main' = main BY <1>13 DEF Kill
  <2>2. Along(main', IF p = Daemon THEN "over" ELSE tun[Daemon].stage)
    <3>1. CASE p = Daemon BY <2>1, <3>1 DEF Along
    <3>2. CASE p # Daemon BY <1>1, <2>1, <3>2
    <3> QED BY <3>1, <3>2
  <2> QED BY <2>1, <2>2, KilledStep
<1>14. CASE \E w \in Workers :
              \/ PassGate(w) \/ WritePacket(w) \/ ServiceRing(w) \/ LeaveLoop(w)
              \/ StopWriting(w) \/ Drain(w) \/ LeaveDrain(w) \/ Kernel(w)
  <2>1. UNCHANGED setupVars /\ main' = main
    BY <1>14 DEF PassGate, WritePacket, ServiceRing, LeaveLoop, StopWriting, Drain, LeaveDrain,
                 Kernel, mainVars
  <2> QED BY <1>2, <2>1
<1>15. CASE Terminate \/ Finished \/ UNCHANGED vars
  <2>1. UNCHANGED setupVars /\ main' = main BY <1>15 DEF Terminate, Finished, vars, mainVars
  <2> QED BY <1>2, <2>1
<1> QED
  BY <1>3, <1>4, <1>5, <1>6, <1>7, <1>8, <1>9, <1>10, <1>11, <1>12, <1>13, <1>14, <1>15
     DEF Next, MainStep

----------------------------------------------------------------------------
(* The theorem *)

\* What a daemon about to start has made of the network.
LEMMA StartsWanted ==
  ASSUME TxInv, main = "threads"
  PROVE  /\ net = Wanted(before[Daemon])
         /\ \A q \in 0..tun[Daemon].queues : tun[Daemon].mask \in Able[q]
<1>1. tun[Daemon].stage = "ready" /\ Daemon \in Processes
  BY LifecycleAssumption DEF TxInv, Along
<1>2. PICK t : t = tun[Daemon] /\ t \in Transaction /\ t.stage = "ready" BY <1>1, AtStage
<1>3. PICK b : b = before[Daemon] /\ Held(t, net, b) /\ Legal(b) /\ b \in Network
  BY <1>1, <1>2, AtStage, LegalFacts DEF Held, Settled
<1>4. /\ Extended(net, b, t) /\ ToSet(t.undo) = Requests /\ net.exists /\ ~t.created
      /\ net.persist = (b.persist \/ t.created)
      /\ \A q \in 0..t.queues : t.mask \in Able[q]
  BY <1>2, <1>3 DEF Held
<1>5. Legal(net) /\ net \in Network BY AtStage, LegalFacts, <1>1
<1>6. Logged(t, "addr") = Conf.addrs /\ Logged(t, "route") = Conf.routes
  <2>1. \A a \in Conf.addrs : [kind |-> "addr", what |-> a] \in Requests BY DEF Requests
  <2>2. \A d \in Conf.routes : [kind |-> "route", what |-> d] \in Requests BY DEF Requests
  <2>3. Conf.addrs \subseteq Logged(t, "addr")
    <3> SUFFICES ASSUME NEW a \in Conf.addrs PROVE a \in Logged(t, "addr") OBVIOUS
    <3>1. PICK i : i = [kind |-> "addr", what |-> a] OBVIOUS
    <3> QED BY <1>4, <2>1, <3>1 DEF Logged
  <2>4. Conf.routes \subseteq Logged(t, "route")
    <3> SUFFICES ASSUME NEW d \in Conf.routes PROVE d \in Logged(t, "route") OBVIOUS
    <3>1. PICK i : i = [kind |-> "route", what |-> d] OBVIOUS
    <3> QED BY <1>4, <2>2, <3>1 DEF Logged
  <2> QED BY <1>2, <2>3, <2>4, LoggedFacts
<1>7. PICK up : up = (b.up \/ Conf.up) OBVIOUS
<1>8. PICK addrs : addrs = b.addrs \cup Conf.addrs OBVIOUS
<1>9. PICK routes : routes = [d \in Dests |-> IF d \in Conf.routes THEN "tayga" ELSE b.routes[d]]
  OBVIOUS
<1>10. PICK w : w = [b EXCEPT !.exists = TRUE, !.up = up, !.addrs = addrs, !.routes = routes]
  OBVIOUS
<1>11. Wanted(b) = w BY <1>3, <1>7, <1>8, <1>9, <1>10 DEF Wanted, Network
<1>12. net.up = up /\ net.addrs = addrs /\ net.routes = routes
  BY <1>4, <1>6, <1>7, <1>8, <1>9 DEF Extended
<1>13. up \in BOOLEAN /\ addrs \subseteq V4 \cup V6
       /\ routes \in [Dests -> {"none", "static", "tayga", "other"}]
  BY <1>5, <1>12, NetworkFacts DEF RouteKinds
<1>14. /\ w \in Network /\ w.exists /\ w.up = up /\ w.persist = b.persist /\ w.addrs = addrs
       /\ w.routes = routes
  BY <1>3, <1>10, <1>13 DEF Network
<1>15. net.persist = b.persist BY <1>3, <1>4, NetworkFacts
<1>16. net.exists = w.exists BY <1>4, <1>5, <1>14, NetworkFacts
<1>17. net = w BY <1>5, <1>12, <1>14, <1>15, <1>16, SameNetwork
<1> QED BY <1>2, <1>3, <1>4, <1>11, <1>17

\* Setup is a transaction (tun.c), for any number of processes, networks, addresses,
\* routes and queues: whichever call fails, whether or not the kernel did what it did not
\* confirm, the network is as it was found, unless the process dies of the failure; a
\* daemon that starts has kept all that was there and added all it was asked for; --mktun
\* and --rmtun change only what they name.
THEOREM SetupIsTransactionAlways == Spec => SetupIsTransaction
<1> DEFINE Transacts ==
      /\ \A p \in Processes : Undoes(p) /\ lock = p => net' = before[p]
      /\ Starts => /\ net = Wanted(before[Daemon])
                   /\ \A q \in 0..tun[Daemon].queues : tun[Daemon].mask \in Able[q]
      /\ \A p \in Processes : Makes(p) =>
           net' = Closed([before[p] EXCEPT !.exists = TRUE, !.persist = Mode(p) = "mktun"])
<1>1. TxInv /\ [Next]_vars => [Transacts]_vars
  <2> SUFFICES ASSUME TxInv PROVE Transacts OBVIOUS
  <2>1. ASSUME NEW p \in Processes, Undoes(p), lock = p PROVE net' = before[p]
    <3>1. CASE SetupFails(p)
      <4>1. PICK stage : tun[p].stage = "fail" /\ Abort(p, stage) BY <3>1 DEF SetupFails, At
      <4> QED BY <2>1, <4>1, AbortLeaves
    <3>2. CASE p = Daemon /\ StartupFailed /\ ~DiesFreeing
      <4>1. main = "fail_join" /\ Abort(p, "over") BY <3>2 DEF StartupFailed
      <4>2. tun[p].stage \in {"ready", "refused"} BY <3>2, <4>1 DEF TxInv, Along
      <4> QED BY <2>1, <4>1, <4>2, AbortLeaves
    <3> QED BY <2>1, <3>1, <3>2 DEF Undoes
  <2>2. ASSUME Starts
        PROVE  /\ net = Wanted(before[Daemon])
               /\ \A q \in 0..tun[Daemon].queues : tun[Daemon].mask \in Able[q]
    BY <2>2, StartsWanted DEF Starts
  <2>3. ASSUME NEW p \in Processes, Makes(p)
        PROVE  net' = Closed([before[p] EXCEPT !.exists = TRUE, !.persist = Mode(p) = "mktun"])
    <3>1. tun[p].stage = "made" /\ net' = Closed(net) BY <2>3 DEF Makes, At, Made
    <3>2. Held(tun[p], net, before[p]) BY <3>1, AtStage
    <3>3. net = [Opened(before[p]) EXCEPT !.persist = (Mode(p) = "mktun")]
      BY <3>1, <3>2 DEF Held, Mode
    <3>4. [Opened(before[p]) EXCEPT !.persist = (Mode(p) = "mktun")]
            = [before[p] EXCEPT !.exists = TRUE, !.persist = Mode(p) = "mktun"]
      BY DEF Opened
    <3> QED BY <3>1, <3>3, <3>4
  <2> QED BY <2>1, <2>2, <2>3
<1> QED BY <1>1, TxInit, TxNext, PTL DEF Spec, SetupIsTransaction
=============================================================================
