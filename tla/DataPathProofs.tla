---------------------------- MODULE DataPathProofs ----------------------------
(***************************************************************************)
(* The software flow dispatch for any number of workers, frames and flows: *)
(* no worker sleeps over packets, no frame is lost or shared, every packet *)
(* is counted once, the fragments of a datagram stay with one worker, and  *)
(* each flow sees an ordered link.                                         *)
(***************************************************************************)
EXTENDS DataPath, SequenceLemmas

----------------------------------------------------------------------------
(* Wakeups *)

\* The queues and the signals are arrays of the workers, and the rest is NoLostWakeup:
\* it is inductive, because a worker alone empties its queue and alone goes to sleep.
Signalled(w) == pc[w] = "wait" /\ queues[w] # <<>> => wake[w]

\* With the shapes of the arrays, the inductive invariant.
WakeInv ==
  /\ pc = [w \in Workers |-> pc[w]]
  /\ queues = [w \in Workers |-> queues[w]]
  /\ wake = [w \in Workers |-> wake[w]]
  /\ \A w \in Workers : Signalled(w)

\* Frames put into a queue (dispatch_queue_locked) wake its worker if the queue was empty.
LEMMA QueueWakes ==
  ASSUME WakeInv, NEW q, NEW s, Queue(q, s), UNCHANGED pc
  PROVE  WakeInv'
<1>1. \A w \in Workers : w # q => queues'[w] = queues[w] /\ wake'[w] = wake[w]
  BY DEF WakeInv, Queue
<1>2. q \in Workers => wake'[q] = (wake[q] \/ queues[q] = <<>>)
  BY DEF WakeInv, Queue
<1>3. queues' = [w \in Workers |-> queues'[w]] /\ wake' = [w \in Workers |-> wake'[w]]
  BY DEF WakeInv, Queue
<1>4. ASSUME NEW w \in Workers PROVE Signalled(w)'
  BY <1>1, <1>2 DEF WakeInv, Signalled
<1> QED BY <1>3, <1>4 DEF WakeInv

\* Steps of other parts of the dispatcher.
LEMMA Unheard ==
  ASSUME WakeInv, UNCHANGED <<queues, wake, pc>>
  PROVE  WakeInv'
BY DEF WakeInv, Signalled

\* dispatch_submit queues frames in one queue, or in none.
LEMMA SubmitWakes ==
  ASSUME WakeInv, Submit, UNCHANGED pc
  PROVE  WakeInv'
<1>1. PICK p \in Packets : SubmitMalformed(p) \/ SubmitWhole(p) \/ SubmitFragment(p)
  BY DEF Submit
<1>2. Drop => WakeInv' BY Unheard DEF Drop, queueVars
<1>3. UNCHANGED queueVars => WakeInv' BY Unheard DEF queueVars
<1>4. CASE SubmitMalformed(p) BY <1>2, <1>4 DEF SubmitMalformed
<1>5. CASE SubmitWhole(p)
  <2>1. CASE NoRoom(FALSE) BY <1>2, <1>5, <2>1 DEF SubmitWhole
  <2>2. CASE ~NoRoom(FALSE)
    <3>1. Queue(QueueOf(p), <<Last(freeSlots)>>) BY <1>5, <2>2 DEF SubmitWhole
    <3> QED BY <3>1, QueueWakes
  <2> QED BY <2>1, <2>2
<1>6. CASE SubmitFragment(p)
  <2>1. CASE RefuseFragment(p) BY <1>2, <2>1 DEF RefuseFragment
  <2>2. CASE HoldFragment(p)
    <3>1. Drop \/ UNCHANGED queueVars BY <2>2 DEF HoldFragment, queueVars
    <3> QED BY <1>2, <1>3, <3>1
  <2>3. CASE PassFragment(p)
    <3>1. Drop \/ \E q, s : Queue(q, s) BY <2>3 DEF PassFragment
    <3> QED BY <1>2, <3>1, QueueWakes
  <2> QED BY <1>6, <2>1, <2>2, <2>3 DEF SubmitFragment
<1> QED BY <1>1, <1>4, <1>5, <1>6

\* The workers start with empty queues.
LEMMA WakeInit == Init => WakeInv
BY DEF Init, DispatchInit, WakeInv, Signalled

\* Every step of the threads keeps it.
LEMMA WakeNext == WakeInv /\ [Next]_vars => WakeInv'
<1> SUFFICES ASSUME WakeInv, [Next]_vars PROVE WakeInv' OBVIOUS
<1>1. ASSUME NEW w \in Workers, Turn(w) PROVE WakeInv'
  <2>1. CASE Take(w) /\ Goto(w, "busy")
    <3>1. /\ queues' = [queues EXCEPT ![w] = Tail(@)] /\ wake' = wake
          /\ pc' = [pc EXCEPT ![w] = "busy"]
      BY <2>1 DEF Take, Goto
    <3> QED BY <3>1 DEF WakeInv, Signalled
  <2>2. CASE queues[w] = <<>> /\ Goto(w, "wait") /\ UNCHANGED <<dispatchVars, taken>>
    <3>1. UNCHANGED <<queues, wake>> /\ pc' = [pc EXCEPT ![w] = "wait"]
      BY <2>2 DEF Goto, dispatchVars, queueVars
    <3> QED BY <2>2, <3>1 DEF WakeInv, Signalled
  <2> QED BY <1>1, <2>1, <2>2 DEF Turn
<1>2. ASSUME NEW w \in Workers, Woken(w) PROVE WakeInv'
  <2>1. queues' = queues /\ wake' = [wake EXCEPT ![w] = FALSE] /\ pc' = [pc EXCEPT ![w] = "loop"]
    BY <1>2 DEF Woken, Wait, Goto
  <2> QED BY <2>1 DEF WakeInv, Signalled
<1>3. ASSUME NEW w \in Workers, Process(w) PROVE WakeInv'
  <2>1. UNCHANGED <<queues, wake>> /\ pc' = [pc EXCEPT ![w] = "loop"]
    BY <1>3 DEF Process, Release, Goto, queueVars
  <2> QED BY <2>1 DEF WakeInv, Signalled
<1>4. ASSUME NEW w \in Workers, Leave(w) PROVE WakeInv'
  <2>1. UNCHANGED <<queues, wake>> /\ pc' = [pc EXCEPT ![w] = "done"]
    BY <1>4 DEF Leave, Goto, dispatchVars, queueVars
  <2> QED BY <2>1 DEF WakeInv, Signalled
<1>5. CASE MainReads
  BY <1>5, SubmitWakes DEF MainReads, Elsewhere, threadVars
<1>6. CASE MainExpires
  BY <1>6, Unheard DEF MainExpires, Expire, Elsewhere, threadVars, queueVars
<1>7. CASE MainStops
  BY <1>7, Unheard DEF MainStops, Stop, Elsewhere, threadVars, queueVars
<1>8. CASE MainEnds
  BY <1>8, Unheard DEF MainEnds, Destroy, threadVars, queueVars
<1>9. CASE Terminate \/ Over \/ UNCHANGED vars
  BY <1>9, Unheard DEF Terminate, Over, vars, threadVars, dispatchVars, queueVars
<1>10. CASE Time
  BY <1>10, Unheard DEF Time, Tick, Elsewhere, threadVars, queueVars
<1> QED BY <1>1, <1>2, <1>3, <1>4, <1>5, <1>6, <1>7, <1>8, <1>9, <1>10 DEF Next

\* A worker that is about to sleep over a queue with frames has been signalled
\* (dispatch_wait and dispatch_queue_locked): the test of the queue and the sleep are
\* apart, and what is queued between them is not forgotten.
THEOREM NoLostWakeupAlways == Spec => []NoLostWakeup
<1>1. WakeInv => NoLostWakeup BY DEF WakeInv, Signalled, NoLostWakeup
<1> QED BY <1>1, WakeInit, WakeNext, PTL DEF Spec

----------------------------------------------------------------------------
(* The inductive invariant *)

Datagrams == {NoDatagram} \cup {p.datagram : p \in Packets}
EntryRecords == [used : BOOLEAN, key : Datagrams, resolved : 0..2, queue : 0..W,
                 held : Seq(Frames), deadline : Nat]

\* The type of every variable, without the bounds that follow from ownership.
PoolShape ==
  /\ frameState \in [Frames -> {"FREE", "RECEIVED", "TRANSLATING"}]
  /\ frameHolds \in [Frames -> Arrival \cup {NoPacket}]
  /\ Distinct(freeSlots, Frames)
QueueShape ==
  /\ queues \in [Workers -> Seq(Frames)] /\ \A w \in Workers : IsInjective(queues[w])
  /\ wake \in [Workers -> BOOLEAN]
FlowShape ==
  /\ flowQueue \in [Buckets -> 0..W]
  /\ nextQueue = Cardinality({b \in Buckets : flowQueue[b] # 0})
EntryShape(e) ==
  /\ e \in EntryRecords /\ IsInjective(e.held) /\ Len(e.held) <= MaxHeld
  /\ e.resolved # 0 => e.used
  /\ e.resolved = 1 => e.queue \in Workers
EntriesShape ==
  /\ fragments = [c \in Cells |-> fragments[c]]
  /\ \A c \in Cells : EntryShape(fragments[c])
ThreadShape ==
  /\ taken \in [Workers -> Frames \cup {NoFrame}]
  /\ pc \in [Workers -> {"loop", "wait", "busy", "done"}]
  /\ \A w \in Workers : pc[w] = "busy" <=> taken[w] # NoFrame
CountShape ==
  /\ arrived \in 0..MaxPackets /\ drops \in Nat /\ processed \in Nat
  /\ clock \in Nat /\ stop \in BOOLEAN /\ ended \in BOOLEAN
  /\ delivered \in [Flows -> 0..MaxPackets]

Shapes == PoolShape /\ QueueShape /\ FlowShape /\ EntriesShape /\ ThreadShape /\ CountShape

Queued(w) == ToSet(queues[w])
Chained(c) == ToSet(fragments[c].held)

\* A frame's state says where it is, and it is there only.
Owned ==
  /\ \A f \in Frames : frameState[f] = "FREE" <=> f \in ToSet(freeSlots)
  /\ \A f \in Frames : frameState[f] = "TRANSLATING" <=> \E w \in Workers : taken[w] = f
  /\ \A f \in Frames : frameState[f] = "RECEIVED" <=>
       (\E w \in Workers : f \in Queued(w)) \/ (\E c \in Cells : f \in Chained(c))
  /\ \A v, w \in Workers : v # w => Queued(v) \cap Queued(w) = {}
  /\ \A v, w \in Workers : v # w => taken[v] # taken[w] \/ taken[v] = NoFrame
  /\ \A b, c \in Cells : b # c => Chained(b) \cap Chained(c) = {}
  /\ \A w \in Workers, c \in Cells : Queued(w) \cap Chained(c) = {}

\* What frames in use hold: packets with numbers of their own, none of which its flow
\* has passed.
Numbering ==
  /\ \A f \in InUse : frameHolds[f] \in Arrival /\ frameHolds[f].n <= arrived
  /\ \A f, g \in InUse : frameHolds[f].n = frameHolds[g].n => f = g
  /\ \A f \in Flows : delivered[f] <= arrived
  /\ \A f \in InUse : LET a == frameHolds[f]
                      IN Transport(a.p) => delivered[FlowOf(a.p)] < a.n

\* A fragment is held in the cell of its datagram; once one was queued the cell is the
\* datagram's for good and names the queue.
HeldRight(c, p) ==
  /\ Fragmented(p) /\ ~p.first /\ CellOf[p.datagram] = c
  /\ fragments[c].used /\ fragments[c].key = p.datagram
PassedRight(w, p) ==
  Fragmented(p) => LET e == fragments[CellOf[p.datagram]]
                   IN e.used /\ e.key = p.datagram /\ e.resolved # 0 /\ e.queue = w
Together ==
  /\ \A c \in Cells : \A f \in Chained(c) : HeldRight(c, frameHolds[f].p)
  /\ \A w \in Workers : \A f \in Assigned(w) : PassedRight(w, frameHolds[f].p)

\* A flow keeps the worker of its bucket, and that worker has its packets in order.
Before(f, g) ==
  LET a == frameHolds[f]
      b == frameHolds[g]
  IN Transport(a.p) /\ Transport(b.p) /\ FlowOf(a.p) = FlowOf(b.p) => a.n < b.n
InBucket(w, p) == Transport(p) => flowQueue[Bucket(p)] = w
Ordered ==
  \A w \in Workers :
    /\ \A f \in Assigned(w) : InBucket(w, frameHolds[f].p)
    /\ \A i, j \in DOMAIN queues[w] : i < j => Before(queues[w][i], queues[w][j])
    /\ \A i \in DOMAIN queues[w] : taken[w] # NoFrame => Before(taken[w], queues[w][i])

\* The free frames that held fragments cannot have.
Reserved == Cardinality(HeldFrames) + Reserve <= Cardinality(Frames)
Counted == arrived = drops + processed + Cardinality(InUse)
AtEnd == ended => stop /\ InUse = {} /\ \A w \in Workers : pc[w] = "done"

DispatchInv ==
  /\ Shapes /\ Numbering /\ Reserved /\ Counted /\ AtEnd
  /\ ~ended => Owned /\ Together /\ Ordered

\* The pool starts full and everything else empty.
LEMMA DispatchStarts == Init => DispatchInv
<1> SUFFICES ASSUME Init PROVE DispatchInv OBVIOUS
<1> USE DEF Init, DispatchInit
<1>1. Distinct(freeSlots, Frames) /\ ToSet(freeSlots) = Frames
  BY SetToSeqLists, DispatchAssumption
<1>2. PoolShape BY <1>1 DEF PoolShape
<1>3. QueueShape BY DEF QueueShape, IsInjective
<1>4. FlowShape
  <2>1. {b \in Buckets : flowQueue[b] # 0} = {} OBVIOUS
  <2>2. nextQueue = Cardinality({b \in Buckets : flowQueue[b] # 0}) BY <2>1, FS_EmptySet
  <2>3. flowQueue \in [Buckets -> 0..W] BY DispatchAssumption
  <2> QED BY <2>2, <2>3 DEF FlowShape
<1>5. EntriesShape
  <2>1. EntryShape(Unused)
    BY DispatchAssumption DEF EntryShape, EntryRecords, Unused, Datagrams, IsInjective
  <2> QED BY <2>1 DEF EntriesShape
<1>6. ThreadShape BY DEF ThreadShape
<1>7. CountShape
  <2>1. 0 \in 0..MaxPackets BY DispatchAssumption
  <2>2. arrived \in 0..MaxPackets /\ delivered \in [Flows -> 0..MaxPackets] BY <2>1
  <2>3. drops \in Nat /\ processed \in Nat /\ clock \in Nat OBVIOUS
  <2>4. stop \in BOOLEAN /\ ended \in BOOLEAN OBVIOUS
  <2> QED BY <2>2, <2>3, <2>4 DEF CountShape
<1>8. InUse = {} BY DEF InUse
<1>9. \A w \in Workers : Queued(w) = {} /\ Assigned(w) = {} /\ queues[w] = <<>>
  BY DEF Queued, Assigned, ToSet
<1>10. \A c \in Cells : Chained(c) = {} BY DEF Chained, ToSet, Unused
<1>11. Numbering BY <1>8 DEF Numbering
<1>12. Reserved
  <2>1. HeldFrames = {} BY DEF HeldFrames, Entries, ToSet, Unused
  <2> QED BY <2>1, FS_EmptySet, DispatchAssumption DEF Reserved
<1>13. Counted BY <1>8, FS_EmptySet DEF Counted
<1>14. Owned BY <1>1, <1>9, <1>10, NullAssumption DEF Owned
<1>15. Together BY <1>9, <1>10 DEF Together
<1>16. Ordered BY <1>9 DEF Ordered
<1> QED BY <1>2, <1>3, <1>4, <1>5, <1>6, <1>7, <1>8, <1>11, <1>12, <1>13, <1>14, <1>15, <1>16
        DEF DispatchInv, Shapes, AtEnd

----------------------------------------------------------------------------
(* dispatch_submit: the parts *)

\* The bucket of a packet with ports has a worker once it was seen, and keeps it.
LEMMA FlowQueuesFacts ==
  ASSUME FlowShape, NEW p \in Packets, flowQueue' = FlowQueues(p),
         nextQueue' = IF flowQueue' = flowQueue THEN nextQueue ELSE nextQueue + 1
  PROVE  /\ FlowShape'
         /\ QueueOf(p) \in Workers
         /\ Transport(p) => Bucket(p) \in Buckets /\ flowQueue'[Bucket(p)] = QueueOf(p)
         /\ \A b \in Buckets : flowQueue[b] # 0 => flowQueue'[b] = flowQueue[b]
<1> DEFINE Taken == {b \in Buckets : flowQueue[b] # 0}
<1>1. IsFiniteSet(Taken) /\ Cardinality(Taken) \in Nat /\ nextQueue = Cardinality(Taken)
  BY DispatchAssumption, FS_Subset, FS_CardinalityType DEF FlowShape
<1>2. 1 + (nextQueue % W) \in 1..W BY <1>1, DispatchAssumption
<1>3. CASE Transport(p) /\ flowQueue[Bucket(p)] = 0
  <2>1. Bucket(p) \in Buckets BY <1>3, HashAssumption DEF Bucket
  <2>2. flowQueue' = [flowQueue EXCEPT ![Bucket(p)] = 1 + (nextQueue % W)]
    BY <1>3 DEF FlowQueues
  <2>3. /\ flowQueue' \in [Buckets -> 0..W] /\ flowQueue'[Bucket(p)] = 1 + (nextQueue % W)
        /\ flowQueue' # flowQueue
    BY <1>2, <1>3, <2>1, <2>2 DEF FlowShape
  <2>4. {b \in Buckets : flowQueue'[b] # 0} = Taken \cup {Bucket(p)}
    <3>1. \A b \in Buckets : flowQueue'[b] = IF b = Bucket(p) THEN 1 + (nextQueue % W) ELSE flowQueue[b]
      BY <2>1, <2>2 DEF FlowShape
    <3>2. 1 + (nextQueue % W) # 0 BY <1>2
    <3> QED BY <2>1, <3>1, <3>2
  <2>5. Cardinality(Taken \cup {Bucket(p)}) = Cardinality(Taken) + 1
    BY <1>1, <1>3, FS_AddElement
  <2>6. FlowShape' BY <1>1, <2>3, <2>4, <2>5 DEF FlowShape
  <2>7. QueueOf(p) = flowQueue'[Bucket(p)] BY <1>3 DEF QueueOf
  <2> QED BY <1>2, <1>3, <2>1, <2>2, <2>3, <2>6, <2>7 DEF FlowShape, Workers
<1>4. CASE Transport(p) /\ flowQueue[Bucket(p)] # 0
  <2>1. Bucket(p) \in Buckets BY <1>4, HashAssumption DEF Bucket
  <2>2. flowQueue' = flowQueue /\ nextQueue' = nextQueue BY <1>4 DEF FlowQueues
  <2>3. QueueOf(p) = flowQueue[Bucket(p)] BY <1>4, <2>2 DEF QueueOf
  <2> QED BY <1>4, <2>1, <2>2, <2>3 DEF FlowShape, Workers
<1>5. CASE ~Transport(p)
  <2>1. flowQueue' = flowQueue /\ nextQueue' = nextQueue BY <1>5 DEF FlowQueues
  <2>2. QueueOf(p) = 1 BY <1>5 DEF QueueOf
  <2> QED BY <1>5, <2>1, <2>2, DispatchAssumption DEF FlowShape, Workers
<1> QED BY <1>3, <1>4, <1>5

\* The entry that a fragment is judged by.
LEMMA EntryFacts ==
  ASSUME Shapes, NEW p \in Packets, Fragmented(p)
  PROVE  LET c == CellOf[p.datagram]
             e == fragments[c]
         IN /\ c \in Cells /\ EntryShape(e) /\ EntryShape(Entry(p)) /\ Entry(p).used
            /\ Entry(p).held = e.held /\ Entry(p).resolved = e.resolved /\ Entry(p).queue = e.queue
            /\ e.used => Entry(p) = e
            /\ ~e.used => e.resolved = 0 /\ Entry(p).key = p.datagram
<1> DEFINE c == CellOf[p.datagram]
           e == fragments[c]
<1>1. c \in Cells BY HashAssumption
<1>2. EntryShape(e) BY <1>1 DEF Shapes, EntriesShape
<1> HIDE DEF c
<1>3. clock + Lifetime \in Nat /\ p.datagram \in Datagrams
  BY DispatchAssumption DEF Shapes, CountShape, Datagrams
<1> HIDE DEF e
<1> DEFINE n == [e EXCEPT !.used = TRUE, !.key = p.datagram, !.deadline = clock + Lifetime]
<1>4. CASE e.used
  <2>1. Entry(p) = e BY <1>4 DEF Entry, e, c
  <2> QED BY <1>1, <1>2, <1>4, <2>1 DEF e, c
<1>5. CASE ~e.used
  <2>1. Entry(p) = n BY <1>5 DEF Entry, e, c
  <2>2. /\ n \in EntryRecords /\ n.used /\ n.held = e.held /\ n.resolved = e.resolved
        /\ n.queue = e.queue /\ n.key = p.datagram
    BY <1>2, <1>3 DEF EntryShape, EntryRecords
  <2>3. e.resolved = 0 BY <1>2, <1>5 DEF EntryShape, EntryRecords
  <2>4. EntryShape(n) BY <1>2, <2>2, <2>3 DEF EntryShape
  <2> QED BY <1>1, <1>2, <1>5, <2>1, <2>2, <2>3, <2>4 DEF e, c
<1> QED BY <1>4, <1>5

\* Where the frames in use are; only they are assigned or held.
LEMMA InUseFacts ==
  ASSUME Shapes, Owned
  PROVE  /\ InUse \subseteq Frames /\ IsFiniteSet(InUse) /\ Cardinality(InUse) \in Nat
         /\ \A w \in Workers : Queued(w) \subseteq InUse /\ Assigned(w) \subseteq InUse
         /\ \A c \in Cells : Chained(c) \subseteq InUse
         /\ InUse \cap ToSet(freeSlots) = {}
<1>1. InUse \subseteq Frames /\ IsFiniteSet(InUse) /\ Cardinality(InUse) \in Nat
  BY DispatchAssumption, FS_Subset, FS_CardinalityType DEF InUse
<1>2. ASSUME NEW w \in Workers PROVE Queued(w) \subseteq InUse
  <2>1. Queued(w) \subseteq Frames BY ElementsOf DEF Shapes, QueueShape, Queued
  <2> QED BY <2>1 DEF Owned, InUse
<1>3. ASSUME NEW c \in Cells PROVE Chained(c) \subseteq InUse
  <2>1. fragments[c].held \in Seq(Frames) BY DEF Shapes, EntriesShape, EntryShape, EntryRecords
  <2>2. Chained(c) \subseteq Frames BY <2>1, ElementsOf DEF Chained
  <2> QED BY <2>2 DEF Owned, InUse
<1>4. ASSUME NEW w \in Workers PROVE Assigned(w) \subseteq InUse
  <2>1. taken[w] # NoFrame => taken[w] \in Frames /\ frameState[taken[w]] = "TRANSLATING"
    BY DEF Shapes, ThreadShape, Owned
  <2> QED BY <1>2, <2>1 DEF Assigned, Queued, InUse
<1>5. InUse \cap ToSet(freeSlots) = {} BY DEF InUse, Owned
<1> QED BY <1>1, <1>2, <1>3, <1>4, <1>5

\* packet_frame_acquire takes the top of the free stack.
LEMMA AcquireFacts ==
  ASSUME Shapes, Owned, NEW p \in Packets, Acquire(p), freeSlots # <<>>,
         arrived < MaxPackets, arrived' = arrived + 1
  PROVE  LET f == Last(freeSlots)
         IN /\ f \in Frames /\ frameState[f] = "FREE"
            /\ PoolShape'
            /\ ToSet(freeSlots') = ToSet(freeSlots) \ {f} /\ Len(freeSlots') = Len(freeSlots) - 1
            /\ \A g \in Frames : frameState'[g] = IF g = f THEN "RECEIVED" ELSE frameState[g]
            /\ \A g \in Frames : g # f => frameHolds'[g] = frameHolds[g]
            /\ frameHolds'[f] = [n |-> arrived', p |-> p] /\ frameHolds'[f] \in Arrival
            /\ \A w \in Workers : f \notin Queued(w) /\ f \notin Assigned(w)
            /\ \A c \in Cells : f \notin Chained(c)
            /\ f \notin InUse /\ InUse' = InUse \cup {f}
            /\ Cardinality(InUse') = Cardinality(InUse) + 1
<1> DEFINE f == Last(freeSlots)
<1>1. /\ Distinct(Front(freeSlots), Frames) /\ f \in Frames /\ f \in ToSet(freeSlots)
      /\ ToSet(Front(freeSlots)) = ToSet(freeSlots) \ {f}
      /\ Len(Front(freeSlots)) = Len(freeSlots) - 1
  BY DistinctFront DEF Shapes, PoolShape
<1> DEFINE a == [n |-> arrived', p |-> p]
<1>2. a \in Arrival
  <2>1. arrived' \in 1..MaxPackets BY DispatchAssumption DEF Shapes, CountShape
  <2> QED BY <2>1 DEF Arrival
<1>3. /\ freeSlots' = Front(freeSlots)
      /\ frameState' = [frameState EXCEPT ![f] = "RECEIVED"]
      /\ frameHolds' = [frameHolds EXCEPT ![f] = a]
  BY DEF Acquire
<1> HIDE DEF f, a
<1>4. /\ \A g \in Frames : frameState'[g] = IF g = f THEN "RECEIVED" ELSE frameState[g]
      /\ \A g \in Frames : frameHolds'[g] = IF g = f THEN a ELSE frameHolds[g]
      /\ PoolShape'
  BY <1>1, <1>2, <1>3 DEF Shapes, PoolShape
<1>5. frameState[f] = "FREE" BY <1>1 DEF Owned
<1>6. f \notin InUse /\ InUse' = InUse \cup {f} BY <1>1, <1>4, <1>5 DEF InUse
<1>7. Cardinality(InUse') = Cardinality(InUse) + 1 BY <1>6, InUseFacts, FS_AddElement
<1>8. /\ \A w \in Workers : f \notin Queued(w) /\ f \notin Assigned(w)
      /\ \A c \in Cells : f \notin Chained(c)
  BY <1>6, InUseFacts
<1> QED BY <1>1, <1>2, <1>3, <1>4, <1>5, <1>6, <1>7, <1>8 DEF f, a

\* A frame that was free, and a chain D, go to a queue.
LEMMA OwnedQueue ==
  ASSUME Shapes, Owned, NEW q \in Workers, NEW f \in Frames, NEW D, frameState[f] = "FREE",
         ToSet(freeSlots') = ToSet(freeSlots) \ {f}, taken' = taken,
         \A g \in Frames : frameState'[g] = IF g = f THEN "RECEIVED" ELSE frameState[g],
         \A w \in Workers : Queued(w)' = IF w = q THEN Queued(w) \cup ({f} \cup D) ELSE Queued(w),
         D = {} \/ \E c \in Cells : D = Chained(c),
         \A c \in Cells : Chained(c)' = Chained(c) \ D
  PROVE  Owned'
<1>1. f \in ToSet(freeSlots) /\ \A w \in Workers : f \notin Queued(w) BY DEF Owned
<1>2. \A c \in Cells : f \notin Chained(c) BY DEF Owned
<1>3. \A g \in Frames : frameState'[g] = "FREE" <=> g \in ToSet(freeSlots')
  BY <1>1 DEF Owned
<1>4. \A g \in Frames : frameState'[g] = "TRANSLATING" <=> \E w \in Workers : taken'[w] = g
  BY DEF Owned
<1>5. ASSUME NEW g \in Frames
      PROVE frameState'[g] = "RECEIVED" <=>
              (\E w \in Workers : g \in Queued(w)') \/ (\E c \in Cells : g \in Chained(c)')
  <2>1. CASE g = f BY <2>1
  <2>2. CASE g # f /\ g \in D
    <3>1. frameState[g] = "RECEIVED" BY <2>2 DEF Owned
    <3> QED BY <2>2, <3>1
  <2>3. CASE g # f /\ g \notin D
    <3>1. \A w \in Workers : g \in Queued(w)' <=> g \in Queued(w) BY <2>3
    <3>2. \A c \in Cells : g \in Chained(c)' <=> g \in Chained(c) BY <2>3
    <3> QED BY <2>3, <3>1, <3>2 DEF Owned
  <2> QED BY <2>1, <2>2, <2>3
<1>6. \A w \in Workers : D \cap Queued(w) = {} BY DEF Owned
<1>7. \A v, w \in Workers : v # w => Queued(v)' \cap Queued(w)' = {}
  <2> SUFFICES ASSUME NEW v \in Workers, NEW w \in Workers, v # w
               PROVE Queued(v)' \cap Queued(w)' = {}
    OBVIOUS
  <2>1. Queued(v) \cap Queued(w) = {} BY DEF Owned
  <2> QED BY <1>1, <1>6, <2>1
<1>8. \A b, c \in Cells : b # c => Chained(b)' \cap Chained(c)' = {} BY DEF Owned
<1>9. \A w \in Workers, c \in Cells : Queued(w)' \cap Chained(c)' = {}
  <2> SUFFICES ASSUME NEW w \in Workers, NEW c \in Cells
               PROVE Queued(w)' \cap Chained(c)' = {}
    OBVIOUS
  <2>1. Queued(w) \cap Chained(c) = {} BY DEF Owned
  <2> QED BY <1>2, <2>1
<1>10. \A v, w \in Workers : v # w => taken'[v] # taken'[w] \/ taken'[v] = NoFrame BY DEF Owned
<1> QED BY <1>3, <1>4, <1>5, <1>7, <1>8, <1>9, <1>10 DEF Owned

\* A frame that was free is held in a cell.
LEMMA OwnedHold ==
  ASSUME Shapes, Owned, NEW k \in Cells, NEW f \in Frames, frameState[f] = "FREE",
         ToSet(freeSlots') = ToSet(freeSlots) \ {f}, taken' = taken,
         \A g \in Frames : frameState'[g] = IF g = f THEN "RECEIVED" ELSE frameState[g],
         \A w \in Workers : Queued(w)' = Queued(w),
         \A c \in Cells : Chained(c)' = IF c = k THEN Chained(c) \cup {f} ELSE Chained(c)
  PROVE  Owned'
<1>1. /\ f \in ToSet(freeSlots) /\ \A w \in Workers : f \notin Queued(w)
      /\ \A c \in Cells : f \notin Chained(c)
  BY DEF Owned
<1>2. \A g \in Frames : frameState'[g] = "FREE" <=> g \in ToSet(freeSlots')
  BY <1>1 DEF Owned
<1>3. \A g \in Frames : frameState'[g] = "TRANSLATING" <=> \E w \in Workers : taken'[w] = g
  BY DEF Owned
<1>4. ASSUME NEW g \in Frames
      PROVE frameState'[g] = "RECEIVED" <=>
              (\E w \in Workers : g \in Queued(w)') \/ (\E c \in Cells : g \in Chained(c)')
  <2>1. CASE g = f BY <2>1
  <2>2. CASE g # f
    <3>1. \A c \in Cells : g \in Chained(c)' <=> g \in Chained(c) BY <2>2
    <3> QED BY <2>2, <3>1 DEF Owned
  <2> QED BY <2>1, <2>2
<1>5. \A b, c \in Cells : b # c => Chained(b)' \cap Chained(c)' = {} BY <1>1 DEF Owned
<1>6. \A w \in Workers, c \in Cells : Queued(w)' \cap Chained(c)' = {} BY <1>1 DEF Owned
<1>7. /\ \A v, w \in Workers : v # w => Queued(v)' \cap Queued(w)' = {}
      /\ \A v, w \in Workers : v # w => taken'[v] # taken'[w] \/ taken'[v] = NoFrame
  BY DEF Owned
<1> QED BY <1>2, <1>3, <1>4, <1>5, <1>6, <1>7 DEF Owned

\* The new frame holds the packet read last, and the others what they held.
Fills(f, p) ==
  /\ arrived' = arrived + 1
  /\ InUse' = InUse \cup {f}
  /\ frameHolds'[f] = [n |-> arrived', p |-> p] /\ frameHolds'[f] \in Arrival
  /\ \A g \in InUse : g # f /\ frameHolds'[g] = frameHolds[g]

LEMMA NumberingFills ==
  ASSUME Shapes, Numbering, NEW f, NEW p \in Packets, Fills(f, p), delivered' = delivered
  PROVE  Numbering'
<1> USE DEF Fills
<1>1. arrived \in Nat /\ \A g \in Flows : delivered[g] \in Nat /\ delivered[g] < arrived'
  BY DEF Shapes, CountShape, Numbering
<1>2. \A g \in InUse : frameHolds'[g].n < arrived'
  BY <1>1 DEF Numbering, Arrival
<1>3. \A g \in InUse' : frameHolds'[g] \in Arrival /\ frameHolds'[g].n <= arrived'
  BY <1>1 DEF Numbering, Arrival
<1>4. \A g, h \in InUse' : frameHolds'[g].n = frameHolds'[h].n => g = h
  <2> SUFFICES ASSUME NEW g \in InUse', NEW h \in InUse', frameHolds'[g].n = frameHolds'[h].n
               PROVE  g = h
    OBVIOUS
  <2>1. CASE g \in InUse /\ h \in InUse BY <2>1 DEF Numbering
  <2>2. CASE g = f /\ h \in InUse BY <1>1, <1>2, <2>2
  <2>3. CASE g \in InUse /\ h = f BY <1>1, <1>2, <2>3
  <2> QED BY <2>1, <2>2, <2>3
<1>5. ASSUME NEW g \in InUse', Transport(frameHolds'[g].p)
      PROVE  delivered'[FlowOf(frameHolds'[g].p)] < frameHolds'[g].n
  <2>1. CASE g \in InUse BY <1>5, <2>1 DEF Numbering
  <2>2. CASE g = f
    <3>1. FlowOf(p) \in Flows BY <1>5, <2>2 DEF Flows
    <3> QED BY <1>1, <2>2, <3>1
  <2> QED BY <2>1, <2>2
<1>6. \A g \in Flows : delivered'[g] <= arrived' BY <1>1
<1> QED BY <1>3, <1>4, <1>5, <1>6 DEF Numbering

\* The frames that are left hold what they held.
LEMMA NumberingLeaves ==
  ASSUME Shapes, Numbering, arrived' \in {arrived, arrived + 1}, InUse' \subseteq InUse,
         \A g \in InUse' : frameHolds'[g] = frameHolds[g], delivered' = delivered
  PROVE  Numbering'
<1>1. arrived \in Nat /\ \A g \in Flows : delivered[g] \in Nat BY DEF Shapes, CountShape
<1>2. \A g \in InUse' : frameHolds'[g] \in Arrival /\ frameHolds'[g].n <= arrived'
  BY <1>1 DEF Numbering, Arrival
<1>3. \A g, h \in InUse' : frameHolds'[g].n = frameHolds'[h].n => g = h BY DEF Numbering
<1>4. \A g \in InUse' : Transport(frameHolds'[g].p) =>
        delivered'[FlowOf(frameHolds'[g].p)] < frameHolds'[g].n
  BY DEF Numbering
<1>5. \A g \in Flows : delivered'[g] <= arrived' BY <1>1 DEF Numbering
<1> QED BY <1>2, <1>3, <1>4, <1>5 DEF Numbering

\* What an entry keeps: its datagram, and its queue once it has one.
Keeps(e, x) == /\ e.used => x.used /\ x.key = e.key
               /\ e.resolved # 0 => x.resolved # 0 /\ x.queue = e.queue

\* A frame that is held or assigned stays right while the entries keep.
LEMMA TogetherStays ==
  ASSUME Shapes, Owned, Numbering, Together,
         \A c \in Cells : Keeps(fragments[c], fragments'[c]),
         \A c \in Cells : \A g \in Chained(c)' :
           (g \in Chained(c) /\ frameHolds'[g] = frameHolds[g]) \/ HeldRight(c, frameHolds[g].p)',
         \A w \in Workers : \A g \in Assigned(w)' :
           (g \in Assigned(w) /\ frameHolds'[g] = frameHolds[g]) \/ PassedRight(w, frameHolds[g].p)'
  PROVE  Together'
<1>1. \A g \in InUse : frameHolds[g].p \in Packets BY DEF Numbering, Arrival
<1>2. ASSUME NEW c \in Cells, NEW g \in Chained(c)' PROVE HeldRight(c, frameHolds[g].p)'
  <2>1. CASE g \in Chained(c) /\ frameHolds'[g] = frameHolds[g]
    <3> DEFINE p == frameHolds[g].p
    <3>1. p \in Packets BY <1>1, <2>1, InUseFacts
    <3>2. HeldRight(c, p) BY <2>1 DEF Together
    <3>3. Fragmented(p) => CellOf[p.datagram] \in Cells BY <3>1, HashAssumption
    <3> HIDE DEF p
    <3>4. HeldRight(c, p) => /\ Fragmented(p) /\ ~p.first /\ CellOf[p.datagram] = c
                             /\ fragments'[c].used /\ fragments'[c].key = p.datagram
      BY DEF HeldRight, Keeps
    <3>5. p = frameHolds'[g].p BY <2>1 DEF p
    <3> QED BY <3>2, <3>4, <3>5 DEF HeldRight
  <2> QED BY <1>2, <2>1
<1>3. ASSUME NEW w \in Workers, NEW g \in Assigned(w)' PROVE PassedRight(w, frameHolds[g].p)'
  <2>1. CASE g \in Assigned(w) /\ frameHolds'[g] = frameHolds[g]
    <3> DEFINE p == frameHolds[g].p
    <3>1. p \in Packets BY <1>1, <2>1, InUseFacts
    <3>2. PassedRight(w, p) BY <2>1 DEF Together
    <3>3. Fragmented(p) => CellOf[p.datagram] \in Cells BY <3>1, HashAssumption
    <3> HIDE DEF p
    <3>4. Fragmented(p) => LET e == fragments'[CellOf[p.datagram]]
                           IN e.used /\ e.key = p.datagram /\ e.resolved # 0 /\ e.queue = w
      BY <3>2, <3>3 DEF PassedRight, Keeps
    <3>5. p = frameHolds'[g].p BY <2>1 DEF p
    <3> QED BY <3>4, <3>5 DEF PassedRight
  <2> QED BY <1>3, <2>1
<1> QED BY <1>2, <1>3 DEF Together

\* The workers of the buckets stay.
FlowsStay == \A b \in Buckets : flowQueue[b] # 0 => flowQueue'[b] = flowQueue[b]

\* A queue grows at its end by a new packet, and by later fragments, which have no ports.
LEMMA OrderedQueue ==
  ASSUME Shapes, Owned, Numbering, Ordered, FlowsStay,
         NEW p \in Packets, NEW f \in Frames, Fills(f, p),
         NEW q \in Workers, NEW s \in Seq(Frames),
         queues' = [queues EXCEPT ![q] = @ \o s], IsInjective(queues'[q]), taken' = taken,
         \A g \in ToSet(s) : g # f => /\ g \in InUse
                                      /\ ~frameHolds[g].p.first,
         InBucket(q, p)'
  PROVE  Ordered'
<1>1. \A g \in InUse : /\ g # f /\ frameHolds'[g] = frameHolds[g] /\ frameHolds[g].n < arrived'
                       /\ frameHolds[g].p \in Packets
  BY DEF Numbering, Fills, Arrival, Shapes, CountShape
<1>2. frameHolds'[f].n = arrived' /\ frameHolds'[f].p = p BY DEF Fills
<1>3. \A g \in ToSet(s) : g # f => ~Transport(frameHolds'[g].p)
  BY <1>1 DEF Transport
<1>4. \A g \in InUse : ~Before(g, f)' => FALSE BY <1>1, <1>2 DEF Before
<1>5. \A g, h \in InUse : Before(g, h) => Before(g, h)' BY <1>1 DEF Before
<1>6. queues[q] \in Seq(Frames) /\ queues'[q] = queues[q] \o s /\ queues'[q] \in Seq(Frames)
  BY ConcatProperties DEF Shapes, QueueShape
<1>7. \A w \in Workers : w # q => queues'[w] = queues[w] BY DEF Shapes, QueueShape
<1>8. ToSet(queues'[q]) = Queued(q) \cup ToSet(s)
  BY <1>6, ConcatSet DEF Queued
<1>9. ASSUME NEW w \in Workers, NEW g \in Assigned(w), InBucket(w, frameHolds[g].p)
      PROVE  InBucket(w, frameHolds[g].p)'
  <2>1. g \in InUse /\ frameHolds'[g] = frameHolds[g] /\ frameHolds[g].p \in Packets
    BY <1>1, InUseFacts
  <2>2. Transport(frameHolds[g].p) => Bucket(frameHolds[g].p) \in Buckets
    BY <2>1, HashAssumption DEF Bucket
  <2> QED BY <1>9, <2>1, <2>2 DEF InBucket, FlowsStay, Workers
<1>10. ASSUME NEW w \in Workers, NEW g \in Assigned(w)' PROVE InBucket(w, frameHolds[g].p)'
  <2>1. CASE g \in Assigned(w) BY <1>9, <2>1 DEF Ordered
  <2>2. CASE g \notin Assigned(w)
    <3>1. w = q /\ g \in ToSet(s) BY <1>7, <1>8, <2>2 DEF Assigned, Queued
    <3>2. CASE g = f BY <1>2, <3>1, <3>2 DEF InBucket
    <3>3. CASE g # f BY <1>3, <3>1, <3>3 DEF InBucket
    <3> QED BY <3>2, <3>3
  <2> QED BY <2>1, <2>2
<1>11. ASSUME NEW w \in Workers, NEW i \in DOMAIN queues'[w], NEW j \in DOMAIN queues'[w], i < j
       PROVE  Before(queues[w][i], queues[w][j])'
  <2>1. CASE w # q
    <3>1. /\ queues'[w] = queues[w] /\ Before(queues[w][i], queues[w][j])
          /\ queues[w][i] \in InUse /\ queues[w][j] \in InUse
      BY <1>7, <1>11, <2>1, InUseFacts DEF Ordered, Queued, ToSet
    <3> QED BY <1>5, <3>1
  <2>2. CASE w = q
    <3> DEFINE g == queues'[q][i]
               h == queues'[q][j]
    <3>1. /\ DOMAIN queues'[q] = 1..Len(queues'[q]) /\ g \in ToSet(queues'[q]) /\ h \in ToSet(queues'[q])
      BY <1>6, <2>2, ElementsOf DEF ToSet
    <3>2. \/ i \in 1..Len(queues[q]) /\ g = queues[q][i]
          \/ i - Len(queues[q]) \in 1..Len(s) /\ i > Len(queues[q]) /\ g = s[i - Len(queues[q])]
      BY <1>6, <2>2, <3>1, ConcatAt
    <3>3. \/ j \in 1..Len(queues[q]) /\ h = queues[q][j]
          \/ j - Len(queues[q]) \in 1..Len(s) /\ j > Len(queues[q]) /\ h = s[j - Len(queues[q])]
      BY <1>6, <2>2, <3>1, ConcatAt
    <3>4. /\ DOMAIN queues[q] = 1..Len(queues[q]) /\ DOMAIN s = 1..Len(s)
          /\ Len(queues[q]) \in Nat
      BY <1>6, ElementsOf
    <3>5. /\ i \in 1..Len(queues'[q]) /\ j \in 1..Len(queues'[q]) /\ i # j
          /\ i \in Int /\ j \in Int
      BY <1>11, <2>2, <3>1
    <3> HIDE DEF g, h
    <3>11. g # h BY <3>1, <3>5 DEF IsInjective, g, h
    <3>6. \A k \in 1..Len(queues[q]) : queues[q][k] \in InUse
      BY <3>4, InUseFacts DEF Queued, ToSet
    <3>7. \A k \in 1..Len(s) : s[k] \in ToSet(s) BY <3>4 DEF ToSet
    <3>8. CASE j \in 1..Len(queues[q]) /\ h = queues[q][j]
      <4>1. i \in 1..Len(queues[q]) /\ g = queues[q][i] BY <1>11, <3>2, <3>4, <3>5, <3>8
      <4>2. Before(queues[q][i], queues[q][j]) BY <1>11, <3>4, <3>8, <4>1 DEF Ordered
      <4> QED BY <1>5, <2>2, <3>6, <3>8, <4>1, <4>2
    <3>9. CASE h \in ToSet(s) /\ h # f
      <4>1. ~Transport(frameHolds'[h].p) BY <1>3, <3>9
      <4> QED BY <2>2, <4>1 DEF Before, g, h
    <3>10. CASE h = f
      <4>1. CASE g \in InUse
        <5>1. frameHolds'[g].n < frameHolds'[h].n BY <1>1, <1>2, <3>10, <4>1
        <5> QED BY <2>2, <5>1 DEF Before, g, h
      <4>2. CASE g \notin InUse
        <5>1. g \in ToSet(s) /\ g # f BY <3>2, <3>11, <3>6, <3>7, <3>10, <4>2
        <5>2. ~Transport(frameHolds'[g].p) BY <1>3, <5>1
        <5> QED BY <2>2, <5>2 DEF Before, g, h
      <4> QED BY <4>1, <4>2
    <3> QED BY <3>3, <3>7, <3>8, <3>9, <3>10
  <2> QED BY <2>1, <2>2
<1>12. ASSUME NEW w \in Workers, NEW i \in DOMAIN queues'[w], taken'[w] # NoFrame
       PROVE  Before(taken[w], queues[w][i])'
  <2>1. taken[w] \in Assigned(w) /\ taken[w] \in InUse BY <1>12, InUseFacts DEF Assigned
  <2> DEFINE h == queues'[w][i]
  <2>2. CASE i \in DOMAIN queues[w] /\ h = queues[w][i]
    <3>1. Before(taken[w], queues[w][i]) BY <1>12, <2>2 DEF Ordered
    <3>2. h \in InUse BY <2>2, InUseFacts DEF Queued, ToSet
    <3> QED BY <1>5, <2>1, <2>2, <3>1, <3>2
  <2>3. CASE ~(i \in DOMAIN queues[w] /\ h = queues[w][i])
    <3>1. w = q BY <1>7, <2>3
    <3>2. i \in 1..Len(queues'[q]) BY <1>6, <3>1, ElementsOf
    <3>3. i - Len(queues[q]) \in 1..Len(s) /\ h = s[i - Len(queues[q])]
      BY <1>6, <2>3, <3>1, <3>2, ConcatAt, ElementsOf
    <3>4. h \in ToSet(s) BY <3>3, ElementsOf
    <3>5. CASE h = f
      <4>1. frameHolds'[taken[w]].n < frameHolds'[h].n BY <1>1, <1>2, <2>1, <3>5
      <4> QED BY <4>1 DEF Before
    <3>6. CASE h # f
      <4>1. ~Transport(frameHolds'[h].p) BY <1>3, <3>4, <3>6
      <4> QED BY <4>1 DEF Before
    <3> QED BY <3>5, <3>6
  <2> QED BY <2>2, <2>3
<1> QED BY <1>10, <1>11, <1>12 DEF Ordered

\* Nothing is queued or taken.
LEMMA OrderedStays ==
  ASSUME Shapes, Owned, Numbering, Ordered, FlowsStay, UNCHANGED <<queues, taken>>,
         \A w \in Workers : \A g \in Assigned(w) : frameHolds'[g] = frameHolds[g]
  PROVE  Ordered'
<1>1. \A w \in Workers : /\ Assigned(w)' = Assigned(w)
                         /\ \A g \in Assigned(w) : g \in InUse /\ frameHolds[g].p \in Packets
  BY InUseFacts DEF Assigned, Numbering, Arrival
<1>2. ASSUME NEW w \in Workers, NEW g \in Assigned(w) PROVE InBucket(w, frameHolds[g].p)'
  <2>1. Transport(frameHolds[g].p) => Bucket(frameHolds[g].p) \in Buckets
    BY <1>1, HashAssumption DEF Bucket
  <2>2. InBucket(w, frameHolds[g].p) BY DEF Ordered
  <2> QED BY <2>1, <2>2 DEF InBucket, FlowsStay, Workers
<1>3. \A w \in Workers : \A g, h \in Assigned(w) : Before(g, h) => Before(g, h)'
  BY DEF Before
<1>4. \A w \in Workers : \A i \in DOMAIN queues[w] : queues[w][i] \in Assigned(w)
  BY DEF Assigned, ToSet
<1>5. \A w \in Workers : taken[w] # NoFrame => taken[w] \in Assigned(w) BY DEF Assigned
<1>6. ASSUME NEW w \in Workers
      PROVE  /\ \A i, j \in DOMAIN queues[w] : i < j => Before(queues[w][i], queues[w][j])'
             /\ \A i \in DOMAIN queues[w] : taken[w] # NoFrame => Before(taken[w], queues[w][i])'
  BY <1>3, <1>4, <1>5 DEF Ordered
<1> QED BY <1>1, <1>2, <1>6 DEF Ordered

LEMMA ReservedStays ==
  ASSUME Shapes, Reserved, \A c \in Cells : Chained(c)' \subseteq Chained(c)
  PROVE  Reserved'
<1>1. /\ HeldFrames = UNION {Chained(c) : c \in Cells}
      /\ HeldFrames' = UNION {Chained(c)' : c \in Cells}
  BY DEF HeldFrames, Entries, Chained
<1>2. HeldFrames' \subseteq HeldFrames BY <1>1
<1>3. HeldFrames \subseteq Frames
  <2>1. \A c \in Cells : fragments[c].held \in Seq(Frames)
    BY DEF Shapes, EntriesShape, EntryShape, EntryRecords
  <2>2. \A c \in Cells : Chained(c) \subseteq Frames BY <2>1, ElementsOf DEF Chained
  <2> QED BY <1>1, <2>2
<1>4. IsFiniteSet(HeldFrames) BY <1>3, DispatchAssumption, FS_Subset
<1>5. Cardinality(HeldFrames') <= Cardinality(HeldFrames) BY <1>2, <1>4, FS_Subset
<1>6. IsFiniteSet(HeldFrames') BY <1>2, <1>4, FS_Subset
<1>7. /\ Cardinality(HeldFrames) \in Nat /\ Cardinality(HeldFrames') \in Nat
      /\ Cardinality(Frames) \in Nat
  BY <1>4, <1>6, DispatchAssumption, FS_CardinalityType
<1> QED BY <1>5, <1>7, DispatchAssumption DEF Reserved

----------------------------------------------------------------------------
(* dispatch_submit: the outcomes *)

\* What every outcome of dispatch_submit does to the rest.
Judged(p) ==
  /\ arrived < MaxPackets /\ arrived' = arrived + 1
  /\ FlowShape' /\ FlowsStay
  /\ EntriesShape' /\ \A c \in Cells : Keeps(fragments[c], fragments'[c])
  /\ UNCHANGED <<timeVars, stop>> /\ Elsewhere

\* The packet is dropped; chains stay.
LEMMA SubmitDropped ==
  ASSUME DispatchInv, ~stop, NEW p \in Packets, Judged(p), Drop,
         \A c \in Cells : Chained(c)' = Chained(c)
  PROVE  DispatchInv'
<1> USE DEF Judged
<1>1. Shapes /\ Owned /\ Together /\ Ordered /\ Numbering /\ Reserved /\ ~ended
  BY DEF DispatchInv, AtEnd
<1>2. /\ UNCHANGED <<frameState, frameHolds, freeSlots, queues, wake, clock, stop>>
      /\ UNCHANGED <<pc, taken, ended, processed, delivered>>
      /\ drops' = drops + 1
  BY DEF Drop, poolVars, queueVars, timeVars, Elsewhere, threadVars, mainVars, outVars
<1>3. InUse' = InUse /\ \A w \in Workers : Queued(w)' = Queued(w) /\ Assigned(w)' = Assigned(w)
  BY <1>2 DEF InUse, Queued, Assigned
<1>4. Shapes'
  <2>1. PoolShape' /\ QueueShape' /\ ThreadShape'
    BY <1>1, <1>2 DEF Shapes, PoolShape, QueueShape, ThreadShape
  <2>2. CountShape' BY <1>1, <1>2, DispatchAssumption DEF Shapes, CountShape
  <2> QED BY <2>1, <2>2 DEF Shapes
<1>5. Numbering' BY <1>1, <1>2, <1>3, NumberingLeaves
<1>6. Reserved' BY <1>1, ReservedStays
<1>7. Counted' BY <1>1, <1>2, <1>3, InUseFacts DEF DispatchInv, Counted, Shapes, CountShape
<1>8. Owned' BY <1>1, <1>2, <1>3 DEF Owned
<1>9. Together' BY <1>1, <1>2, <1>3, TogetherStays
<1>10. Ordered' BY <1>1, <1>2, OrderedStays
<1> QED BY <1>1, <1>2, <1>4, <1>5, <1>6, <1>7, <1>8, <1>9, <1>10 DEF DispatchInv, AtEnd

\* The packet goes to a queue, with a chain or none.
LEMMA SubmitQueued ==
  ASSUME DispatchInv, ~stop, NEW p \in Packets, Judged(p),
         freeSlots # <<>>, Acquire(p), drops' = drops,
         NEW q \in Workers, NEW s, Distinct(s, Frames), Queue(q, s),
         NEW D, D = {} \/ \E c \in Cells : D = Chained(c),
         ToSet(s) = {Last(freeSlots)} \cup D,
         \A c \in Cells : Chained(c)' = Chained(c) \ D,
         InBucket(q, p)', PassedRight(q, p)',
         \A g \in D : PassedRight(q, frameHolds[g].p)'
  PROVE  DispatchInv'
<1> USE DEF Judged
<1>1. Shapes /\ Owned /\ Together /\ Ordered /\ Numbering /\ Reserved /\ ~ended
  BY DEF DispatchInv, AtEnd
<1>2. /\ UNCHANGED <<clock, stop, pc, taken, ended, processed, delivered, drops>>
  BY DEF timeVars, Elsewhere, threadVars, mainVars, outVars
<1> DEFINE f == Last(freeSlots)
<1>3. /\ f \in Frames /\ frameState[f] = "FREE"
      /\ PoolShape'
      /\ ToSet(freeSlots') = ToSet(freeSlots) \ {f}
      /\ \A g \in Frames : frameState'[g] = IF g = f THEN "RECEIVED" ELSE frameState[g]
      /\ \A g \in Frames : g # f => frameHolds'[g] = frameHolds[g]
      /\ frameHolds'[f] = [n |-> arrived', p |-> p] /\ frameHolds'[f] \in Arrival
      /\ \A w \in Workers : f \notin Queued(w) /\ f \notin Assigned(w)
      /\ \A c \in Cells : f \notin Chained(c)
      /\ f \notin InUse /\ InUse' = InUse \cup {f}
      /\ Cardinality(InUse') = Cardinality(InUse) + 1
  BY <1>1, AcquireFacts
<1> HIDE DEF f
<1>4. Fills(f, p) /\ D \subseteq InUse /\ ToSet(s) = {f} \cup D
  <2>1. InUse \subseteq Frames BY DEF InUse
  <2> QED BY <1>1, <1>3, <2>1, InUseFacts DEF Fills, f
<1>5. ToSet(s) \cap Queued(q) = {} BY <1>1, <1>3, <1>4 DEF Owned
<1>6. /\ queues' = [queues EXCEPT ![q] = @ \o s] /\ queues[q] \in Seq(Frames)
      /\ \A w \in Workers : wake'[w] \in BOOLEAN
      /\ DOMAIN wake' = Workers
  BY <1>1 DEF Queue, Shapes, QueueShape
<1>7. /\ Distinct(queues[q] \o s, Frames)
      /\ ToSet(queues[q] \o s) = ToSet(queues[q]) \cup ToSet(s)
  BY <1>1, <1>5, <1>6, DistinctConcat DEF Queued, Distinct, Shapes, QueueShape
<1>8. /\ queues' \in [Workers -> Seq(Frames)]
      /\ \A w \in Workers : queues'[w] = IF w = q THEN queues[q] \o s ELSE queues[w]
  BY <1>1, <1>6, <1>7 DEF Distinct, Shapes, QueueShape
<1>9. QueueShape'
  <2>1. \A w \in Workers : IsInjective(queues'[w])
    BY <1>1, <1>7, <1>8 DEF Distinct, Shapes, QueueShape
  <2>2. wake' \in [Workers -> BOOLEAN] BY <1>1, <1>6 DEF Queue, Shapes, QueueShape
  <2> QED BY <1>8, <2>1, <2>2 DEF QueueShape
<1>10. \A w \in Workers : Queued(w)' = IF w = q THEN Queued(w) \cup ({f} \cup D) ELSE Queued(w)
  BY <1>4, <1>7, <1>8 DEF Queued
<1>11. Owned' BY <1>1, <1>2, <1>3, <1>10, OwnedQueue
<1>12. Shapes'
  <2>1. ThreadShape' BY <1>1, <1>2 DEF Shapes, ThreadShape
  <2>2. CountShape' BY <1>1, <1>2, DispatchAssumption DEF Shapes, CountShape
  <2> QED BY <1>3, <1>9, <2>1, <2>2 DEF Shapes
<1>13. Numbering' BY <1>1, <1>2, <1>4, NumberingFills
<1>14. Reserved' BY <1>1, ReservedStays
<1>15. Counted' BY <1>1, <1>2, <1>3, InUseFacts DEF DispatchInv, Counted, Shapes, CountShape
<1>16. \A w \in Workers : \A g \in Assigned(w)' :
         \/ g \in Assigned(w) /\ frameHolds'[g] = frameHolds[g]
         \/ PassedRight(w, frameHolds[g].p)'
  <2> SUFFICES ASSUME NEW w \in Workers, NEW g \in Assigned(w)'
               PROVE  \/ g \in Assigned(w) /\ frameHolds'[g] = frameHolds[g]
                      \/ PassedRight(w, frameHolds[g].p)'
    OBVIOUS
  <2>1. CASE g \in Assigned(w)
    BY <1>1, <1>4, <2>1, InUseFacts DEF Fills
  <2>2. CASE g \notin Assigned(w)
    <3>1. w = q /\ g \in {f} \cup D
      BY <1>2, <1>10, <2>2 DEF Assigned, Queued
    <3>2. CASE g = f BY <1>3, <3>1, <3>2 DEF PassedRight
    <3>3. CASE g \in D BY <3>1, <3>3
    <3> QED BY <3>1, <3>2, <3>3
  <2> QED BY <2>1, <2>2
<1>17. \A c \in Cells : \A g \in Chained(c)' : g \in Chained(c) /\ frameHolds'[g] = frameHolds[g]
  BY <1>1, <1>4, InUseFacts DEF Fills
<1>18. Together' BY <1>1, <1>16, <1>17, TogetherStays
<1>19. \A g \in ToSet(s) : g # f => g \in InUse /\ ~frameHolds[g].p.first
  BY <1>1, <1>4 DEF Together, HeldRight
<1>20. Ordered'
  <2>1. s \in Seq(Frames) /\ IsInjective(queues'[q]) BY <1>7, <1>8 DEF Distinct
  <2> QED BY <1>1, <1>2, <1>3, <1>4, <1>6, <1>19, <2>1, OrderedQueue
<1> QED BY <1>1, <1>2, <1>11, <1>12, <1>13, <1>14, <1>15, <1>18, <1>20 DEF DispatchInv, AtEnd

\* The packet is held: Reserve frames stay free.
LEMMA SubmitHeld ==
  ASSUME DispatchInv, ~stop, NEW p \in Packets, Judged(p),
         Len(freeSlots) > Reserve, Acquire(p), UNCHANGED <<drops, queues, wake>>,
         NEW k \in Cells,
         \A c \in Cells : Chained(c)' = IF c = k THEN Chained(c) \cup {Last(freeSlots)} ELSE Chained(c),
         HeldRight(k, p)'
  PROVE  DispatchInv'
<1> USE DEF Judged
<1>1. Shapes /\ Owned /\ Together /\ Ordered /\ Numbering /\ Reserved /\ ~ended
  BY DEF DispatchInv, AtEnd
<1>2. /\ UNCHANGED <<clock, stop, pc, taken, ended, processed, delivered, drops, queues, wake>>
  BY DEF timeVars, Elsewhere, threadVars, mainVars, outVars
<1>3. freeSlots # <<>> /\ Distinct(freeSlots, Frames) /\ Len(freeSlots) \in Nat
  BY <1>1, EmptySeq, ElementsOf, DispatchAssumption DEF Shapes, PoolShape, Distinct
<1> DEFINE f == Last(freeSlots)
<1>4. /\ f \in Frames /\ frameState[f] = "FREE"
      /\ PoolShape'
      /\ ToSet(freeSlots') = ToSet(freeSlots) \ {f}
      /\ \A g \in Frames : frameState'[g] = IF g = f THEN "RECEIVED" ELSE frameState[g]
      /\ \A g \in Frames : g # f => frameHolds'[g] = frameHolds[g]
      /\ frameHolds'[f] = [n |-> arrived', p |-> p] /\ frameHolds'[f] \in Arrival
      /\ \A w \in Workers : f \notin Queued(w) /\ f \notin Assigned(w)
      /\ \A c \in Cells : f \notin Chained(c)
      /\ f \notin InUse /\ InUse' = InUse \cup {f}
      /\ Cardinality(InUse') = Cardinality(InUse) + 1
  BY <1>1, <1>3, AcquireFacts
<1>5. \A c \in Cells : Chained(c)' = IF c = k THEN Chained(c) \cup {f} ELSE Chained(c)
  OBVIOUS
<1> HIDE DEF f
<1>6. Fills(f, p)
  <2>1. InUse \subseteq Frames BY DEF InUse
  <2> QED BY <1>4, <2>1 DEF Fills
<1>7. /\ \A w \in Workers : Queued(w)' = Queued(w) /\ Assigned(w)' = Assigned(w)
      /\ \A w \in Workers : \A g \in Assigned(w) : frameHolds'[g] = frameHolds[g]
      /\ \A c \in Cells : \A g \in Chained(c) : frameHolds'[g] = frameHolds[g]
  BY <1>1, <1>2, <1>6, InUseFacts DEF Queued, Assigned, Fills
<1>8. Owned' BY <1>1, <1>2, <1>4, <1>5, <1>7, OwnedHold
<1>9. Shapes'
  <2>1. ThreadShape' /\ QueueShape' BY <1>1, <1>2 DEF Shapes, ThreadShape, QueueShape
  <2>2. CountShape' BY <1>1, <1>2, DispatchAssumption DEF Shapes, CountShape
  <2> QED BY <1>4, <2>1, <2>2 DEF Shapes
<1>10. Numbering' BY <1>1, <1>2, <1>6, NumberingFills
<1>11. Counted' BY <1>1, <1>2, <1>4, InUseFacts DEF DispatchInv, Counted, Shapes, CountShape
<1>12. Together'
  <2>1. \A c \in Cells : \A g \in Chained(c)' :
          \/ g \in Chained(c) /\ frameHolds'[g] = frameHolds[g]
          \/ HeldRight(c, frameHolds[g].p)'
    BY <1>4, <1>5, <1>7 DEF HeldRight
  <2> QED BY <1>1, <1>7, <2>1, TogetherStays
<1>13. Ordered' BY <1>1, <1>2, <1>7, OrderedStays
<1>14. Reserved'
  <2> DEFINE free == ToSet(freeSlots)
  <2>1. IsFiniteSet(free) /\ Cardinality(free) = Len(freeSlots)
    BY <1>3, DistinctSize
  <2>2. /\ HeldFrames = UNION {Chained(c) : c \in Cells}
        /\ HeldFrames' = UNION {Chained(c)' : c \in Cells}
    BY DEF HeldFrames, Entries, Chained
  <2>3. HeldFrames' = HeldFrames \cup {f} /\ f \notin HeldFrames BY <1>4, <1>5, <2>2
  <2>4. HeldFrames \subseteq InUse BY <1>1, <2>2, InUseFacts
  <2>5. HeldFrames \subseteq Frames /\ HeldFrames \cap free = {} /\ free \subseteq Frames
    BY <1>1, <1>3, <2>4, InUseFacts, ElementsOf DEF Distinct
  <2> HIDE DEF free
  <2>6. IsFiniteSet(HeldFrames) BY <2>5, DispatchAssumption, FS_Subset
  <2>7. Cardinality(HeldFrames \cup free) = Cardinality(HeldFrames) + Cardinality(free)
    <3>1. Cardinality(HeldFrames \cap free) = 0 BY <2>5, FS_EmptySet
    <3>2. Cardinality(HeldFrames \cup free) =
            Cardinality(HeldFrames) + Cardinality(free) - Cardinality(HeldFrames \cap free)
      BY <2>1, <2>6, FS_Union
    <3>3. Cardinality(HeldFrames) \in Nat /\ Cardinality(free) \in Nat
      BY <2>1, <2>6, FS_CardinalityType
    <3> QED BY <3>1, <3>2, <3>3
  <2>8. Cardinality(HeldFrames \cup free) <= Cardinality(Frames)
    BY <2>5, DispatchAssumption, FS_Subset
  <2>9. Cardinality(HeldFrames') = Cardinality(HeldFrames) + 1 BY <2>3, <2>6, FS_AddElement
  <2>10. Cardinality(HeldFrames) \in Nat /\ Cardinality(Frames) \in Nat
    BY <2>6, DispatchAssumption, FS_CardinalityType
  <2> QED BY <1>3, <2>1, <2>7, <2>8, <2>9, <2>10, DispatchAssumption DEF Reserved
<1> QED BY <1>1, <1>2, <1>8, <1>9, <1>10, <1>11, <1>12, <1>13, <1>14 DEF DispatchInv, AtEnd

\* An entry is replaced.
LEMMA SetEntryFacts ==
  ASSUME Shapes, NEW p \in Packets, Fragmented(p), NEW x, SetEntry(p, x), EntryShape(x),
         Keeps(fragments[CellOf[p.datagram]], x)
  PROVE  /\ EntriesShape' /\ \A c \in Cells : Keeps(fragments[c], fragments'[c])
         /\ fragments'[CellOf[p.datagram]] = x
         /\ \A c \in Cells : c # CellOf[p.datagram] => fragments'[c] = fragments[c]
<1> DEFINE k == CellOf[p.datagram]
<1>1. k \in Cells BY HashAssumption
<1>2. fragments' = [fragments EXCEPT ![k] = x] BY DEF SetEntry
<1> HIDE DEF k
<1>3. \A c \in Cells : fragments'[c] = IF c = k THEN x ELSE fragments[c]
  BY <1>1, <1>2 DEF Shapes, EntriesShape
<1>4. fragments' = [c \in Cells |-> fragments'[c]] BY <1>2 DEF Shapes, EntriesShape
<1>5. \A c \in Cells : EntryShape(fragments'[c]) BY <1>3 DEF Shapes, EntriesShape
<1>6. EntriesShape' BY <1>4, <1>5 DEF EntriesShape, EntryShape
<1>7. \A c \in Cells : Keeps(fragments[c], fragments'[c])
  <2>1. \A e : Keeps(e, e) BY DEF Keeps
  <2>2. Keeps(fragments[k], x) BY DEF k
  <2> QED BY <1>3, <2>1, <2>2
<1> QED BY <1>1, <1>3, <1>6, <1>7 DEF k

\* The records that the code makes of an entry.
LEMMA EntryResolved ==
  ASSUME NEW e \in EntryRecords, NEW r \in 0..2, NEW x, x = [e EXCEPT !.resolved = r]
  PROVE  /\ x \in EntryRecords /\ x.resolved = r /\ x.used = e.used
         /\ x.queue = e.queue /\ x.key = e.key /\ x.held = e.held
BY DEF EntryRecords
LEMMA EntryHeld ==
  ASSUME NEW e \in EntryRecords, NEW h \in Seq(Frames), NEW x, x = [e EXCEPT !.held = h]
  PROVE  /\ x \in EntryRecords /\ x.resolved = e.resolved /\ x.used = e.used
         /\ x.queue = e.queue /\ x.key = e.key /\ x.held = h
BY DEF EntryRecords

\* The entry after it was judged: what may follow from the entry as it was found.
LEMMA JudgedEntries ==
  ASSUME Shapes, NEW p \in Packets, Fragmented(p), QueueOf(p) \in Workers
  PROVE  LET k == CellOf[p.datagram]
             e == Entry(p)
             x == Resolved(p, e)
             t == [e EXCEPT !.resolved = 2]
         IN /\ EntryShape(e) /\ Keeps(fragments[k], e) /\ e.held = fragments[k].held
            /\ EntryShape(t) /\ Keeps(fragments[k], t) /\ t.held = fragments[k].held
            /\ ~Refused(p, e) /\ ~Contradicts(p, e) =>
                 /\ EntryShape(x) /\ Keeps(fragments[k], x) /\ x.held = fragments[k].held
                 /\ x.used /\ x.key = p.datagram
                 /\ x.resolved = 1 => x.queue \in Workers
                 /\ p.first => x.resolved = 1 /\ x.queue = QueueOf(p)
            /\ ~Refused(p, e) /\ x.resolved = 0 =>
                 /\ x = e /\ ~p.first /\ e.used /\ e.key = p.datagram /\ Len(e.held) < MaxHeld
<1> DEFINE k == CellOf[p.datagram]
           e == Entry(p)
           x == Resolved(p, e)
           t == [e EXCEPT !.resolved = 2]
           o == fragments[k]
<1>1. /\ EntryShape(o) /\ EntryShape(e) /\ e.used
      /\ e.held = o.held /\ e.resolved = o.resolved /\ e.queue = o.queue
      /\ o.used => e = o
      /\ ~o.used => o.resolved = 0 /\ e.key = p.datagram
  BY EntryFacts
<1> HIDE DEF e, o
<1>2. Keeps(o, e) BY <1>1 DEF Keeps
<1>3. /\ t \in EntryRecords /\ t.held = e.held /\ t.resolved = 2 /\ t.used = e.used /\ t.queue = e.queue
      /\ t.key = e.key
  <2>1. e \in EntryRecords /\ 2 \in 0..2 BY <1>1 DEF EntryShape
  <2>2. t = [e EXCEPT !.resolved = 2] OBVIOUS
  <2> HIDE DEF t
  <2> QED BY <2>1, <2>2, EntryResolved
<1>4. EntryShape(t) /\ Keeps(o, t) BY <1>1, <1>2, <1>3 DEF EntryShape, Keeps
<1>5. ASSUME ~Refused(p, e), ~Contradicts(p, e)
      PROVE  /\ EntryShape(x) /\ Keeps(o, x) /\ x.held = o.held
             /\ x.used /\ x.key = p.datagram
             /\ x.resolved = 1 => x.queue \in Workers
             /\ p.first => x.resolved = 1 /\ x.queue = QueueOf(p)
  <2>1. e.key = p.datagram /\ e.resolved # 2 BY <1>5 DEF Refused
  <2>2. CASE p.first
    <3>1. x = [e EXCEPT !.resolved = 1, !.queue = QueueOf(p)] BY <2>2 DEF Resolved
    <3>2. QueueOf(p) \in 0..W BY DEF Workers
    <3>3. /\ x \in EntryRecords /\ x.held = e.held /\ x.resolved = 1 /\ x.used = e.used
          /\ x.queue = QueueOf(p) /\ x.key = e.key
      <4>1. e \in EntryRecords /\ 1 \in 0..2 BY <1>1 DEF EntryShape
      <4>2. ASSUME NEW q \in 0..W, NEW y, y = [e EXCEPT !.resolved = 1, !.queue = q]
            PROVE  /\ y \in EntryRecords /\ y.resolved = 1 /\ y.used = e.used
                   /\ y.queue = q /\ y.key = e.key /\ y.held = e.held
        BY <4>1, <4>2 DEF EntryRecords
      <4> HIDE DEF x
      <4> QED BY <3>1, <3>2, <4>2
    <3>4. e.resolved = 1 => e.queue = QueueOf(p) BY <1>5, <2>2 DEF Contradicts
    <3>5. e.resolved # 0 => e.resolved = 1 BY <1>1, <2>1 DEF EntryShape, EntryRecords
    <3>6. EntryShape(x) BY <1>1, <3>3 DEF EntryShape
    <3>7. Keeps(o, x) BY <1>1, <1>2, <3>3, <3>4, <3>5 DEF Keeps
    <3> QED BY <1>1, <2>1, <3>3, <3>6, <3>7
  <2>3. CASE ~p.first
    <3>1. x = e BY <2>3 DEF Resolved
    <3>2. e.resolved = 1 => e.queue \in Workers BY <1>1 DEF EntryShape
    <3> HIDE DEF x
    <3> QED BY <1>1, <1>2, <2>1, <2>3, <3>1, <3>2
  <2> QED BY <2>2, <2>3
<1>6. ASSUME ~Refused(p, e), x.resolved = 0
      PROVE  x = e /\ ~p.first /\ e.used /\ e.key = p.datagram /\ Len(e.held) < MaxHeld
  <2>1. ~p.first
    <3> SUFFICES ASSUME p.first PROVE FALSE OBVIOUS
    <3>1. x = [e EXCEPT !.resolved = 1, !.queue = QueueOf(p)] BY DEF Resolved
    <3>2. x.resolved = 1 BY <1>1, <3>1 DEF EntryShape, EntryRecords
    <3> QED BY <1>6, <3>2
  <2>2. x = e BY <2>1 DEF Resolved
  <2>3. e.key = p.datagram /\ Len(e.held) # MaxHeld BY <1>6, <2>1, <2>2 DEF Refused
  <2>4. Len(e.held) \in Nat /\ Len(e.held) <= MaxHeld
    BY <1>1 DEF EntryShape, EntryRecords
  <2> QED BY <1>1, <2>1, <2>2, <2>3, <2>4, DispatchAssumption
<1> QED BY <1>1, <1>2, <1>3, <1>4, <1>5, <1>6 DEF e, o

\* The fragments held for p pass when p does.
LEMMA HeldPass ==
  ASSUME Shapes, Together, NEW p \in Packets, Fragmented(p), Fragmented(p) => CellOf[p.datagram] \in Cells,
         NEW x, fragments'[CellOf[p.datagram]] = x, NEW q,
         x.used, x.key = p.datagram, x.resolved # 0, x.queue = q,
         Keeps(fragments[CellOf[p.datagram]], x)
  PROVE  /\ PassedRight(q, p)'
         /\ \A g \in Chained(CellOf[p.datagram]) : PassedRight(q, frameHolds[g].p)'
                                                  \/ frameHolds'[g] # frameHolds[g]
<1> DEFINE k == CellOf[p.datagram]
<1>1. k \in Cells BY HashAssumption
<1>2. PassedRight(q, p)' BY DEF PassedRight
<1>3. ASSUME NEW g \in Chained(k), frameHolds'[g] = frameHolds[g]
      PROVE  PassedRight(q, frameHolds[g].p)'
  <2>1. HeldRight(k, frameHolds[g].p) BY <1>1 DEF Together
  <2>2. CellOf[frameHolds'[g].p.datagram] = k /\ fragments[k].key = frameHolds'[g].p.datagram
        /\ fragments[k].used
    BY <1>3, <2>1 DEF HeldRight
  <2> QED BY <1>2, <2>2 DEF PassedRight, Keeps
<1> QED BY <1>2, <1>3

LEMMA SubmitKeeps ==
  ASSUME DispatchInv, ~stop, Submit, Elsewhere
  PROVE  DispatchInv'
<1>1. Shapes /\ Owned /\ Together BY DEF DispatchInv, AtEnd
<1>2. PICK p \in Packets : SubmitMalformed(p) \/ SubmitWhole(p) \/ SubmitFragment(p)
  BY DEF Submit
<1>3. /\ \A e : Keeps(e, e)
      /\ fragments' = fragments => /\ EntriesShape' /\ \A c \in Cells : Chained(c)' = Chained(c)
                                   /\ \A c \in Cells : Keeps(fragments[c], fragments'[c])
  BY <1>1 DEF Keeps, Shapes, EntriesShape, EntryShape, Chained
<1>4. CASE SubmitMalformed(p)
  <2>1. FlowShape' /\ FlowsStay BY <1>1, <1>4 DEF SubmitMalformed, flowVars, FlowsStay, Shapes, FlowShape
  <2>2. Judged(p) /\ Drop /\ fragments' = fragments BY <1>3, <1>4, <2>1 DEF SubmitMalformed, Judged
  <2> QED BY <1>3, <2>2, SubmitDropped
<1>5. ASSUME Classify(p)
      PROVE  /\ FlowShape' /\ FlowsStay /\ QueueOf(p) \in Workers
             /\ \E q \in Workers : q = QueueOf(p) /\ InBucket(q, p)'
             /\ arrived < MaxPackets /\ arrived' = arrived + 1
  <2>1. FlowShape BY <1>1 DEF Shapes
  <2>2. /\ flowQueue' = FlowQueues(p)
        /\ nextQueue' = IF flowQueue' = flowQueue THEN nextQueue ELSE nextQueue + 1
        /\ arrived < MaxPackets /\ arrived' = arrived + 1
    BY <1>5 DEF Classify
  <2>3. /\ FlowShape' /\ QueueOf(p) \in Workers
        /\ Transport(p) => flowQueue'[Bucket(p)] = QueueOf(p)
        /\ \A b \in Buckets : flowQueue[b] # 0 => flowQueue'[b] = flowQueue[b]
    BY <2>1, <2>2, FlowQueuesFacts
  <2>4. PICK q \in Workers : q = QueueOf(p) BY <2>3
  <2>5. InBucket(q, p)' BY <2>3, <2>4 DEF InBucket, Bucket
  <2> QED BY <2>2, <2>3, <2>4, <2>5 DEF FlowsStay
<1>6. ASSUME freeSlots # <<>>
      PROVE  /\ Last(freeSlots) \in Frames
             /\ Distinct(<<Last(freeSlots)>>, Frames)
             /\ ToSet(<<Last(freeSlots)>>) = {Last(freeSlots)}
             /\ <<Last(freeSlots)>> \in Seq(Frames)
  <2>1. Distinct(freeSlots, Frames) BY <1>1 DEF Shapes, PoolShape
  <2>2. Last(freeSlots) \in Frames BY <1>6, <2>1, DistinctFront
  <2>3. \A f \in Frames : Distinct(<<f>>, Frames) /\ ToSet(<<f>>) = {f} /\ <<f>> \in Seq(Frames)
    BY DistinctOne DEF Distinct
  <2> QED BY <2>2, <2>3
<1>7. CASE SubmitWhole(p)
  <2>1. Judged(p) /\ fragments' = fragments BY <1>3, <1>5, <1>7 DEF SubmitWhole, Judged
  <2>2. CASE NoRoom(FALSE)
    <3>1. Drop BY <1>7, <2>2 DEF SubmitWhole
    <3> QED BY <1>3, <2>1, <3>1, SubmitDropped
  <2>3. CASE ~NoRoom(FALSE)
    <3>1. /\ Acquire(p) /\ Queue(QueueOf(p), <<Last(freeSlots)>>) /\ drops' = drops
          /\ freeSlots # <<>> /\ ~Fragmented(p)
      BY <1>7, <2>3 DEF SubmitWhole, NoRoom
    <3>2. \A q : PassedRight(q, p)' BY <3>1 DEF PassedRight
    <3>3. \A c \in Cells : Chained(c)' = Chained(c) \ {} BY <1>3, <2>1
    <3>4. PICK q \in Workers : q = QueueOf(p) /\ InBucket(q, p)' BY <1>5, <1>7 DEF SubmitWhole
    <3> DEFINE s == <<Last(freeSlots)>>
               none == {}
    <3>5. /\ ToSet(s) = {Last(freeSlots)} \cup none /\ Distinct(s, Frames) /\ Queue(q, s)
          /\ \A c \in Cells : Chained(c)' = Chained(c) \ none
          /\ PassedRight(q, p)' /\ \A g \in none : PassedRight(q, frameHolds[g].p)'
          /\ none = {}
      BY <1>6, <3>1, <3>2, <3>3, <3>4
    <3> HIDE DEF s, none
    <3> QED BY <2>1, <3>1, <3>4, <3>5, SubmitQueued
  <2> QED BY <2>2, <2>3
<1>8. CASE SubmitFragment(p)
  <2> DEFINE k == CellOf[p.datagram]
             e == Entry(p)
             x == Resolved(p, e)
             t == [e EXCEPT !.resolved = 2]
             o == fragments[k]
  <2>1. /\ Fragmented(p) /\ k \in Cells /\ Classify(p) /\ UNCHANGED <<timeVars, stop>>
        /\ RefuseFragment(p) \/ HoldFragment(p) \/ PassFragment(p)
    BY <1>8, HashAssumption DEF SubmitFragment
  <2>2. QueueOf(p) \in Workers BY <1>5, <2>1
  <2>3. /\ EntryShape(e) /\ Keeps(o, e) /\ e.held = o.held
        /\ EntryShape(t) /\ Keeps(o, t) /\ t.held = o.held
        /\ ~Refused(p, e) /\ ~Contradicts(p, e) =>
             /\ EntryShape(x) /\ Keeps(o, x) /\ x.held = o.held
             /\ x.used /\ x.key = p.datagram
             /\ x.resolved = 1 => x.queue \in Workers
             /\ p.first => x.resolved = 1 /\ x.queue = QueueOf(p)
        /\ ~Refused(p, e) /\ x.resolved = 0 =>
             /\ x = e /\ ~p.first /\ e.used /\ e.key = p.datagram /\ Len(e.held) < MaxHeld
    BY <1>1, <2>1, <2>2, JudgedEntries
  <2>4. ASSUME NEW y, SetEntry(p, y), EntryShape(y), Keeps(o, y)
        PROVE  /\ Judged(p) /\ fragments'[k] = y
               /\ \A c \in Cells : c # k => Chained(c)' = Chained(c)
    <3>1. /\ EntriesShape' /\ \A c \in Cells : Keeps(fragments[c], fragments'[c])
          /\ fragments'[k] = y
          /\ \A c \in Cells : c # k => fragments'[c] = fragments[c]
      BY <1>1, <2>1, <2>4, SetEntryFacts
    <3> HIDE DEF k
    <3> QED BY <1>5, <2>1, <3>1 DEF Judged, Chained
  <2>5. ASSUME NEW y, SetEntry(p, y), EntryShape(y), Keeps(o, y), y.held = o.held, Drop
        PROVE  DispatchInv'
    <3>1. \A c \in Cells : Chained(c)' = Chained(c) BY <2>4, <2>5 DEF Chained
    <3> QED BY <2>4, <2>5, <3>1, SubmitDropped
  <2>6. CASE RefuseFragment(p)
    <3>1. Drop /\ (SetEntry(p, e) \/ SetEntry(p, t)) BY <2>6 DEF RefuseFragment
    <3> HIDE DEF e, t, o
    <3> QED BY <2>3, <2>5, <3>1
  <2>7. CASE HoldFragment(p)
    <3>1. /\ x = e /\ ~p.first /\ e.used /\ e.key = p.datagram /\ Len(e.held) < MaxHeld
          /\ EntryShape(e) /\ Keeps(o, e) /\ e.held = o.held /\ e.resolved = 0
      BY <2>3, <2>7 DEF HoldFragment
    <3>2. CASE NoRoom(TRUE)
      <4>1. Drop /\ SetEntry(p, x) BY <2>7, <3>2 DEF HoldFragment
      <4> HIDE DEF e, x, o
      <4> QED BY <2>5, <3>1, <4>1
    <3>3. CASE ~NoRoom(TRUE)
      <4> DEFINE h == Append(e.held, Last(freeSlots))
                 y == [e EXCEPT !.held = h]
      <4>1. /\ Acquire(p) /\ UNCHANGED <<queueVars, drops>>
            /\ SetEntry(p, [x EXCEPT !.held = Append(@, Last(freeSlots))])
            /\ freeSlots # <<>> /\ ~(Len(freeSlots) <= Reserve)
        BY <2>7, <3>3 DEF HoldFragment, NoRoom
      <4>2. [x EXCEPT !.held = Append(@, Last(freeSlots))] = y
        BY <3>1
      <4>3. Distinct(e.held, Frames) /\ Last(freeSlots) \notin ToSet(e.held)
        <5>1. Last(freeSlots) \notin Chained(k)
          BY <1>1, <1>5, <2>1, <4>1, AcquireFacts
        <5> QED BY <3>1, <5>1 DEF Distinct, EntryShape, EntryRecords, Chained
      <4>4. /\ Distinct(h, Frames) /\ ToSet(h) = ToSet(e.held) \cup {Last(freeSlots)}
            /\ Len(h) = Len(e.held) + 1
        <5>1. Last(freeSlots) \in Frames BY <1>6, <4>1
        <5> DEFINE z == Last(freeSlots)
        <5> HIDE DEF z, e
        <5>2. z \in Frames /\ Distinct(e.held, Frames) /\ z \notin ToSet(e.held)
          BY <4>3, <5>1 DEF z
        <5>3. /\ Distinct(Append(e.held, z), Frames)
              /\ ToSet(Append(e.held, z)) = ToSet(e.held) \cup {z}
              /\ Len(Append(e.held, z)) = Len(e.held) + 1
          BY <5>2, DistinctAppend
        <5> QED BY <5>3 DEF z
      <4>5. e \in EntryRecords BY <3>1 DEF EntryShape
      <4> HIDE DEF e, x, h
      <4>6. /\ y \in EntryRecords /\ y.resolved = e.resolved /\ y.used = e.used
            /\ y.queue = e.queue /\ y.key = e.key /\ y.held = h
        BY <4>4, <4>5, EntryHeld DEF Distinct
      <4> HIDE DEF y
      <4>7. Len(e.held) \in Nat
        <5>1. e.held \in Seq(Frames) BY <4>3 DEF Distinct
        <5> QED BY <5>1
      <4>8. EntryShape(y) /\ Keeps(o, y)
        BY <3>1, <4>4, <4>6, <4>7, DispatchAssumption DEF EntryShape, Keeps, Distinct
      <4>9. SetEntry(p, y) BY <4>1, <4>2
      <4>10. /\ Judged(p) /\ fragments'[k] = y
             /\ \A c \in Cells : c # k => Chained(c)' = Chained(c)
        BY <2>4, <4>8, <4>9
      <4>11. \A c \in Cells : Chained(c)' = IF c = k THEN Chained(c) \cup {Last(freeSlots)} ELSE Chained(c)
        BY <3>1, <4>4, <4>6, <4>10 DEF Chained
      <4>12. HeldRight(k, p)' BY <2>1, <3>1, <4>6, <4>10 DEF HeldRight
      <4>13. Len(freeSlots) > Reserve
        <5>1. Len(freeSlots) \in Nat BY <1>1, ElementsOf DEF Shapes, PoolShape, Distinct
        <5> QED BY <4>1, <5>1, DispatchAssumption
      <4> QED BY <2>1, <4>1, <4>10, <4>11, <4>12, <4>13, SubmitHeld DEF queueVars
    <3> QED BY <3>2, <3>3
  <2>8. CASE PassFragment(p)
    <3>1. /\ EntryShape(x) /\ Keeps(o, x) /\ x.held = o.held
          /\ x.used /\ x.key = p.datagram /\ x.resolved = 1
          /\ x.queue \in Workers
          /\ p.first => x.queue = QueueOf(p)
      BY <2>3, <2>8 DEF PassFragment
    <3>2. CASE NoRoom(FALSE)
      <4>1. Drop /\ SetEntry(p, x) BY <2>8, <3>2 DEF PassFragment
      <4> HIDE DEF x, o
      <4> QED BY <2>5, <3>1, <4>1
    <3>3. CASE ~NoRoom(FALSE)
      <4> DEFINE s == <<Last(freeSlots)>> \o x.held
                 y == [x EXCEPT !.held = <<>>]
                 D == Chained(k)
      <4>0. PICK q \in Workers : q = x.queue BY <3>1
      <4>1. /\ Acquire(p) /\ Queue(q, s) /\ SetEntry(p, y) /\ drops' = drops /\ freeSlots # <<>>
        BY <2>8, <3>3, <4>0 DEF PassFragment, NoRoom
      <4>2. x \in EntryRecords /\ <<>> \in Seq(Frames) BY <3>1 DEF EntryShape
      <4>3. Distinct(x.held, Frames) /\ ToSet(x.held) = D
        BY <3>1 DEF EntryShape, EntryRecords, Distinct, Chained
      <4>4. Last(freeSlots) \notin D BY <1>1, <1>5, <2>1, <4>1, AcquireFacts
      <4> HIDE DEF x
      <4>5. /\ y \in EntryRecords /\ y.resolved = x.resolved /\ y.used = x.used
            /\ y.queue = x.queue /\ y.key = x.key /\ y.held = <<>>
        BY <4>2, EntryHeld
      <4>6. Distinct(s, Frames) /\ ToSet(s) = {Last(freeSlots)} \cup D
        BY <1>6, <4>1, <4>3, <4>4, DistinctConcat
      <4> HIDE DEF y, s, D
      <4>7. EntryShape(y) /\ Keeps(o, y)
        <5>1. IsInjective(<<>>) /\ Len(<<>>) = 0 BY DistinctEmpty, EmptySeq DEF Distinct
        <5> QED BY <3>1, <4>5, <5>1, DispatchAssumption DEF EntryShape, Keeps
      <4>8. /\ Judged(p) /\ fragments'[k] = y
            /\ \A c \in Cells : c # k => Chained(c)' = Chained(c)
        BY <2>4, <4>1, <4>7
      <4>9. \A c \in Cells : Chained(c)' = Chained(c) \ D
        <5>1. Chained(k)' = {} BY <4>5, <4>8, DistinctEmpty DEF Chained
        <5>2. \A c \in Cells : c # k => Chained(c) \cap D = {} BY <1>1, <2>1 DEF Owned, D
        <5> QED BY <2>1, <4>8, <5>1, <5>2 DEF D
      <4>10. /\ PassedRight(q, p)'
             /\ \A g \in D : PassedRight(q, frameHolds[g].p)' \/ frameHolds'[g] # frameHolds[g]
        <5>1. y.used /\ y.key = p.datagram /\ y.resolved # 0 /\ y.queue = q
          BY <3>1, <4>0, <4>5
        <5>2. Shapes /\ Together /\ Fragmented(p) /\ CellOf[p.datagram] \in Cells BY <1>1, <2>1
        <5> QED BY <4>7, <4>8, <5>1, <5>2, HeldPass DEF D
      <4>11. \A g \in D : frameHolds'[g] = frameHolds[g]
        <5>1. D \subseteq Frames BY <1>1, <2>1, InUseFacts DEF D
        <5> QED BY <1>1, <1>5, <2>1, <4>1, <4>4, <5>1, AcquireFacts
      <4>12. InBucket(q, p)'
        <5>1. CASE p.first
          <6>1. x.queue = QueueOf(p) BY <3>1, <5>1
          <6> QED BY <1>5, <2>1, <4>0, <6>1
        <5>2. CASE ~p.first BY <5>2 DEF InBucket, Transport
        <5> QED BY <5>1, <5>2
      <4>13. \E c \in Cells : D = Chained(c) BY <2>1 DEF D
      <4>14. \A g \in D : PassedRight(q, frameHolds[g].p)' BY <4>10, <4>11
      <4> QED BY <4>1, <4>6, <4>8, <4>9, <4>10, <4>12, <4>13, <4>14, SubmitQueued
    <3> QED BY <3>2, <3>3
  <2> QED BY <2>1, <2>6, <2>7, <2>8
<1> QED BY <1>2, <1>4, <1>7, <1>8

----------------------------------------------------------------------------
(* The worker *)

\* The pool, the queues and the entries stay, and no thread takes or gives a frame.
LEMMA UnmovedKeeps ==
  ASSUME DispatchInv, ThreadShape',
         UNCHANGED <<poolVars, queues, flowVars, fragments, arrived, drops, taken, ended, outVars>>,
         wake' \in [Workers -> BOOLEAN], clock' \in Nat, stop' \in BOOLEAN, stop => stop',
         ended => \A w \in Workers : pc'[w] = "done"
  PROVE  DispatchInv'
<1>1. UNCHANGED <<frameState, frameHolds, freeSlots, flowQueue, nextQueue, processed, delivered>>
  BY DEF poolVars, flowVars, outVars
<1>2. /\ InUse' = InUse
      /\ \A w \in Workers : Queued(w)' = Queued(w) /\ Assigned(w)' = Assigned(w)
      /\ \A c \in Cells : Chained(c)' = Chained(c)
  BY <1>1 DEF InUse, Queued, Assigned, Chained
<1>3. Shapes'
  <2>1. PoolShape' /\ QueueShape' /\ FlowShape'
    BY <1>1 DEF DispatchInv, Shapes, PoolShape, QueueShape, FlowShape
  <2>2. EntriesShape' BY DEF DispatchInv, Shapes, EntriesShape, EntryShape
  <2>3. CountShape' BY <1>1 DEF DispatchInv, Shapes, CountShape
  <2> QED BY <2>1, <2>2, <2>3 DEF Shapes
<1>4. Numbering' BY <1>1, <1>2 DEF DispatchInv, Numbering
<1>5. Reserved' BY <1>1 DEF DispatchInv, Reserved, HeldFrames, Entries
<1>6. Counted' BY <1>1, <1>2 DEF DispatchInv, Counted
<1>7. AtEnd' BY <1>2 DEF DispatchInv, AtEnd
<1>8. ASSUME ~ended PROVE Owned' /\ Together' /\ Ordered'
  <2>1. Owned' BY <1>1, <1>2, <1>8 DEF DispatchInv, Owned
  <2>2. Together' BY <1>1, <1>2, <1>8 DEF DispatchInv, Together, HeldRight, PassedRight
  <2>3. Ordered' BY <1>1, <1>2, <1>8 DEF DispatchInv, Ordered, InBucket, Before, Bucket
  <2> QED BY <2>1, <2>2, <2>3
<1> QED BY <1>3, <1>4, <1>5, <1>6, <1>7, <1>8 DEF DispatchInv

\* dispatch_take: the frame stays with the worker.
LEMMA TakeKeeps ==
  ASSUME DispatchInv, NEW w \in Workers, pc[w] = "loop", Take(w),
         taken' = [taken EXCEPT ![w] = Head(queues[w])], Goto(w, "busy"),
         UNCHANGED <<mainVars, outVars>>
  PROVE  DispatchInv'
<1>1. ~ended BY DEF DispatchInv, AtEnd
<1>2. Shapes /\ Numbering /\ Reserved /\ Counted /\ Owned /\ Together /\ Ordered
  BY <1>1 DEF DispatchInv
<1>3. UNCHANGED <<frameHolds, freeSlots, wake, flowQueue, nextQueue, clock, fragments, stop, arrived,
                  drops, ended, processed, delivered>>
  BY DEF Take, flowVars, timeVars, mainVars, outVars
<1>4. Distinct(queues[w], Frames) /\ queues[w] # <<>>
  BY <1>2 DEF Take, Distinct, Shapes, QueueShape
<1> DEFINE f == Head(queues[w])
           s == Tail(queues[w])
<1>5. /\ Distinct(s, Frames) /\ Len(s) = Len(queues[w]) - 1
      /\ f \in Queued(w) /\ f \in Frames
      /\ ToSet(s) = Queued(w) \ {f}
      /\ \A i \in 1..Len(s) : s[i] = queues[w][i + 1]
  BY <1>4, DistinctTail DEF Queued
<1>6. f = queues[w][1] BY <1>4 DEF Distinct
<1>7. frameState[f] = "RECEIVED" BY <1>2, <1>5 DEF Owned
<1>8. /\ taken[w] = NoFrame
      /\ taken' = [taken EXCEPT ![w] = f] /\ pc' = [pc EXCEPT ![w] = "busy"]
      /\ queues' = [queues EXCEPT ![w] = s]
  BY <1>2 DEF Take, Goto, Shapes, ThreadShape
<1>9. frameState' = [g \in Frames |-> IF g = f THEN "TRANSLATING" ELSE frameState[g]]
  <2>1. frameState' = [g \in Frames |->
          IF g \in {f} THEN Transition(frameState[g], "TRANSLATING", stop) ELSE frameState[g]]
    BY DEF Take, Mark
  <2>2. Transition(frameState[f], "TRANSLATING", stop) = "TRANSLATING"
    BY <1>7 DEF Transition, Allowed
  <2> HIDE DEF f
  <2> QED BY <2>1, <2>2
<1> HIDE DEF f, s
<1>10. \A v \in Workers : /\ queues'[v] = IF v = w THEN s ELSE queues[v]
                          /\ taken'[v] = IF v = w THEN f ELSE taken[v]
                          /\ pc'[v] = IF v = w THEN "busy" ELSE pc[v]
  BY <1>2, <1>8 DEF Shapes, QueueShape, ThreadShape
<1>11. /\ \A v \in Workers : Queued(v)' = IF v = w THEN Queued(v) \ {f} ELSE Queued(v)
       /\ \A v \in Workers : Assigned(v)' = Assigned(v)
       /\ \A c \in Cells : Chained(c)' = Chained(c)
  <2>1. \A v \in Workers : Queued(v)' = IF v = w THEN Queued(v) \ {f} ELSE Queued(v)
    BY <1>5, <1>10 DEF Queued
  <2>2. f # NoFrame BY <1>5, NullAssumption
  <2>3. Assigned(w) = Queued(w) /\ Assigned(w)' = (Queued(w) \ {f}) \cup {f}
    BY <1>5, <1>8, <1>10, <2>2 DEF Assigned, Queued
  <2>4. ASSUME NEW v \in Workers PROVE Assigned(v)' = Assigned(v)
    <3>1. CASE v = w BY <1>5, <2>3, <3>1
    <3>2. CASE v # w BY <1>10, <3>2 DEF Assigned
    <3> QED BY <3>1, <3>2
  <2> QED BY <1>3, <2>1, <2>4 DEF Chained
<1>12. InUse' = InUse BY <1>7, <1>9 DEF InUse
<1>13. Shapes'
  <2>1. PoolShape' BY <1>2, <1>3, <1>9 DEF Shapes, PoolShape
  <2>2. QueueShape'
    <3>1. s \in Seq(Frames) /\ IsInjective(s) BY <1>5 DEF Distinct
    <3>2. queues' \in [Workers -> Seq(Frames)] /\ \A v \in Workers : IsInjective(queues'[v])
      BY <1>2, <1>8, <1>10, <3>1 DEF Shapes, QueueShape
    <3> QED BY <1>2, <1>3, <3>2 DEF Shapes, QueueShape
  <2>3. FlowShape' /\ CountShape' BY <1>2, <1>3 DEF Shapes, FlowShape, CountShape
  <2>4. EntriesShape' BY <1>2, <1>3 DEF Shapes, EntriesShape, EntryShape
  <2>5. ThreadShape' BY <1>2, <1>5, <1>8, <1>10, NullAssumption DEF Shapes, ThreadShape
  <2> QED BY <2>1, <2>2, <2>3, <2>4, <2>5 DEF Shapes
<1>14. Numbering' BY <1>2, <1>3, <1>12 DEF Numbering
<1>15. Reserved' /\ Counted'
  BY <1>2, <1>3, <1>12 DEF Reserved, HeldFrames, Entries, Counted
<1>16. Owned'
  <2>1. \A g \in Frames : frameState'[g] = "FREE" <=> g \in ToSet(freeSlots')
    BY <1>2, <1>3, <1>7, <1>9 DEF Owned
  <2>2. \A g \in Frames : frameState'[g] = "TRANSLATING" <=> \E v \in Workers : taken'[v] = g
    BY <1>2, <1>8, <1>9, <1>10, NullAssumption DEF Owned
  <2>3. ASSUME NEW g \in Frames
        PROVE frameState'[g] = "RECEIVED" <=>
                (\E v \in Workers : g \in Queued(v)') \/ (\E c \in Cells : g \in Chained(c)')
    <3>1. CASE g = f
      <4>1. \A v \in Workers : f \notin Queued(v)' BY <1>2, <1>5, <1>11 DEF Owned
      <4>2. \A c \in Cells : f \notin Chained(c)' BY <1>2, <1>5, <1>11 DEF Owned
      <4> QED BY <1>9, <3>1, <4>1, <4>2
    <3>2. CASE g # f
      <4>1. \A v \in Workers : g \in Queued(v)' <=> g \in Queued(v) BY <1>11, <3>2
      <4> QED BY <1>2, <1>9, <1>11, <3>2, <4>1 DEF Owned
    <3> QED BY <3>1, <3>2
  <2>4. \A u, v \in Workers : u # v => Queued(u)' \cap Queued(v)' = {}
    BY <1>2, <1>11 DEF Owned
  <2>5. \A u, v \in Workers : u # v => taken'[u] # taken'[v] \/ taken'[u] = NoFrame
    <3>1. \A v \in Workers : taken[v] # f BY <1>2, <1>5, <1>7 DEF Owned
    <3> QED BY <1>2, <1>10, <3>1 DEF Owned
  <2>6. /\ \A b, c \in Cells : b # c => Chained(b)' \cap Chained(c)' = {}
        /\ \A v \in Workers, c \in Cells : Queued(v)' \cap Chained(c)' = {}
    BY <1>2, <1>11 DEF Owned
  <2> QED BY <2>1, <2>2, <2>3, <2>4, <2>5, <2>6 DEF Owned
<1>17. Together' BY <1>2, <1>3, <1>11 DEF Together, HeldRight, PassedRight
<1>18. Ordered'
  <2>1. /\ \A v \in Workers, g \in Frames : InBucket(v, frameHolds[g].p) <=> InBucket(v, frameHolds[g].p)'
        /\ \A g, h \in Frames : Before(g, h) <=> Before(g, h)'
    BY <1>3 DEF InBucket, Before
  <2>2. \A v \in Workers : Assigned(v) \subseteq Frames BY <1>2, InUseFacts
  <2>3. \A v \in Workers : \A g \in Assigned(v)' : InBucket(v, frameHolds[g].p)'
    BY <1>2, <1>11, <2>1, <2>2 DEF Ordered
  <2>4. /\ DOMAIN queues[w] = 1..Len(queues[w]) /\ DOMAIN s = 1..Len(s) /\ Len(s) \in Nat
        /\ \A i \in 1..Len(s) : i + 1 \in 1..Len(queues[w]) /\ s[i] \in Frames
        /\ 1 \in 1..Len(queues[w])
    <3>1. /\ queues[w] \in Seq(Frames) /\ s \in Seq(Frames) /\ Len(queues[w]) # 0
          /\ Len(queues[w]) \in Nat /\ Len(s) \in Nat
      BY <1>4, <1>5, EmptySeq, ElementsOf DEF Distinct
    <3> QED BY <1>5, <3>1, ElementsOf, ElementOfSeq
  <2>5. ASSUME NEW i \in 1..Len(s), NEW j \in 1..Len(s), i < j PROVE Before(s[i], s[j])
    <3>1. i + 1 < j + 1 BY <2>4, <2>5
    <3> QED BY <1>2, <1>5, <2>4, <3>1 DEF Ordered
  <2>6. ASSUME NEW i \in 1..Len(s) PROVE Before(f, s[i])
    <3>1. 1 < i + 1 BY <2>4
    <3> QED BY <1>2, <1>5, <1>6, <2>4, <3>1 DEF Ordered
  <2>7. ASSUME NEW v \in Workers
        PROVE  /\ \A i, j \in DOMAIN queues'[v] : i < j => Before(queues[v][i], queues[v][j])'
               /\ \A i \in DOMAIN queues'[v] : taken'[v] # NoFrame => Before(taken[v], queues[v][i])'
    <3>1. CASE v = w
      <4>1. queues'[v] = s /\ taken'[v] = f BY <1>10, <3>1
      <4> QED BY <1>3, <2>4, <2>5, <2>6, <4>1 DEF Before
    <3>2. CASE v # w
      <4>1. queues'[v] = queues[v] /\ taken'[v] = taken[v] BY <1>10, <3>2
      <4> QED BY <1>2, <1>3, <4>1 DEF Ordered, Before
    <3> QED BY <3>1, <3>2
  <2> QED BY <2>3, <2>7 DEF Ordered
<1> QED BY <1>1, <1>3, <1>13, <1>14, <1>15, <1>16, <1>17, <1>18 DEF DispatchInv, AtEnd

\* dispatch_free_locked, for frames in use: they go on top of the free stack.
LEMMA FreedFacts ==
  ASSUME Shapes, Owned, NEW s, Distinct(s, Frames), ToSet(s) \subseteq InUse, FreeAll(s),
         arrived' = arrived
  PROVE  /\ PoolShape' /\ ToSet(freeSlots') = ToSet(freeSlots) \cup ToSet(s)
         /\ \A g \in Frames : frameState'[g] = IF g \in ToSet(s) THEN "FREE" ELSE frameState[g]
         /\ InUse' = InUse \ ToSet(s)
         /\ \A g \in InUse' : frameHolds'[g] = frameHolds[g]
         /\ Cardinality(InUse') = Cardinality(InUse) - Len(s) /\ Len(s) \in Nat
<1> DEFINE D == ToSet(s)
<1>1. /\ frameState' = [f \in Frames |->
           IF f \in D THEN Transition(frameState[f], "FREE", stop) ELSE frameState[f]]
      /\ frameHolds' = [f \in Frames |-> IF f \in D THEN NoPacket ELSE frameHolds[f]]
      /\ freeSlots' = freeSlots \o s
  BY DEF FreeAll, Mark
<1> HIDE DEF D
<1>2. D \subseteq InUse /\ InUse \subseteq Frames BY InUseFacts DEF D
<1>3. \A f \in D : Transition(frameState[f], "FREE", stop) = "FREE"
  <2>1. \A f \in Frames : f \in InUse => frameState[f] \in {"RECEIVED", "TRANSLATING"}
    BY DEF Shapes, PoolShape, InUse
  <2> QED BY <1>2, <2>1 DEF Transition, Allowed
<1>4. \A g \in Frames : frameState'[g] = IF g \in D THEN "FREE" ELSE frameState[g]
  BY <1>1, <1>3
<1>5. \A g \in Frames : g \notin D => frameHolds'[g] = frameHolds[g] BY <1>1
<1>6. InUse' = InUse \ D BY <1>2, <1>4 DEF InUse
<1>7. ToSet(freeSlots) \cap D = {} BY <1>2, InUseFacts
<1>8. /\ Distinct(freeSlots \o s, Frames)
      /\ ToSet(freeSlots \o s) = ToSet(freeSlots) \cup D
  <2>1. Distinct(freeSlots, Frames) BY DEF Shapes, PoolShape
  <2> QED BY <1>7, <2>1, DistinctConcat DEF D
<1>9. PoolShape'
  <2>1. frameState' \in [Frames -> {"FREE", "RECEIVED", "TRANSLATING"}]
    BY <1>1, <1>3 DEF Shapes, PoolShape
  <2>2. frameHolds' \in [Frames -> Arrival \cup {NoPacket}] BY <1>1 DEF Shapes, PoolShape
  <2> QED BY <1>1, <1>8, <2>1, <2>2 DEF PoolShape, Arrival
<1>10. Cardinality(InUse') = Cardinality(InUse) - Len(s) /\ Len(s) \in Nat
  <2>1. IsFiniteSet(D) /\ Cardinality(D) = Len(s) /\ IsFiniteSet(InUse)
    BY DistinctSize, InUseFacts DEF D
  <2>2. Cardinality(InUse \ D) = Cardinality(InUse) - Cardinality(InUse \cap D)
    BY <2>1, FS_Difference
  <2>3. InUse \cap D = D BY <1>2
  <2>4. Cardinality(D) \in Nat BY <2>1, FS_CardinalityType
  <2> QED BY <1>6, <2>1, <2>2, <2>3, <2>4
<1> QED BY <1>1, <1>4, <1>5, <1>6, <1>8, <1>9, <1>10 DEF D, InUse

\* What comes after a frame in its flow: only the queue of the same worker has it.
LEMMA FlowBehind ==
  ASSUME DispatchInv, ~ended, NEW w \in Workers, NEW f, taken[w] = f, f # NoFrame,
         NEW g \in InUse, g # f,
         Transport(frameHolds[f].p), Transport(frameHolds[g].p),
         FlowOf(frameHolds[f].p) = FlowOf(frameHolds[g].p)
  PROVE  frameHolds[f].n < frameHolds[g].n
<1>1. Shapes /\ Owned /\ Numbering /\ Together /\ Ordered BY DEF DispatchInv
<1>2. f \in Assigned(w) /\ f \in Frames /\ g \in Frames BY <1>1, InUseFacts DEF Assigned
<1>3. /\ frameHolds[f].p \in Packets /\ flowQueue[Bucket(frameHolds[f].p)] = w
      /\ Bucket(frameHolds[f].p) = Bucket(frameHolds[g].p)
  <2>1. f \in InUse BY <1>1, <1>2, InUseFacts
  <2>2. InBucket(w, frameHolds[f].p) BY <1>1, <1>2 DEF Ordered
  <2> QED BY <1>1, <2>1, <2>2 DEF InBucket, Numbering, Arrival, Bucket
<1>4. ASSUME NEW v \in Workers, g \in Assigned(v) PROVE v = w
  <2>1. InBucket(v, frameHolds[g].p) BY <1>1, <1>4 DEF Ordered
  <2> QED BY <1>3, <2>1 DEF InBucket
<1>5. ASSUME NEW c \in Cells PROVE g \notin Chained(c)
  BY <1>1 DEF Together, HeldRight, Transport
<1>6. g \in Queued(w)
  <2>1. frameState[g] \in {"RECEIVED", "TRANSLATING"} BY <1>1, <1>2 DEF Shapes, PoolShape, InUse
  <2>2. CASE frameState[g] = "RECEIVED"
    <3>1. PICK v \in Workers : g \in Queued(v) BY <1>1, <1>2, <1>5, <2>2 DEF Owned
    <3> QED BY <1>4, <3>1 DEF Assigned, Queued
  <2>3. CASE frameState[g] = "TRANSLATING"
    <3>1. PICK v \in Workers : taken[v] = g BY <1>1, <1>2, <2>3 DEF Owned
    <3>2. v = w BY <1>2, <1>4, <3>1, NullAssumption DEF Assigned
    <3> QED BY <3>1, <3>2
  <2> QED BY <2>1, <2>2, <2>3
<1>7. PICK i \in DOMAIN queues[w] : queues[w][i] = g BY <1>6 DEF Queued, ToSet
<1>8. Before(taken[w], queues[w][i]) BY <1>1 DEF Ordered
<1> QED BY <1>7, <1>8 DEF Before

\* tun_process_frame and dispatch_release.
LEMMA ProcessKeeps ==
  ASSUME DispatchInv, NEW w \in Workers, Process(w)
  PROVE  DispatchInv'
<1>1. ~ended BY DEF DispatchInv, AtEnd, Process
<1>2. Shapes /\ Numbering /\ Reserved /\ Counted /\ Owned /\ Together /\ Ordered
  BY <1>1 DEF DispatchInv
<1> DEFINE f == taken[w]
           s == <<f>>
<1>3. /\ UNCHANGED <<queues, wake, flowQueue, nextQueue, clock, fragments, stop, arrived, drops, ended>>
      /\ FreeAll(s) /\ processed' = processed + 1
      /\ taken' = [taken EXCEPT ![w] = NoFrame] /\ pc' = [pc EXCEPT ![w] = "loop"]
      /\ delivered' = Recorded(frameHolds[f]) \/ delivered' = delivered
  BY DEF Process, Release, Goto, queueVars, flowVars, timeVars, mainVars
<1>4. f \in Frames /\ frameState[f] = "TRANSLATING" /\ f # NoFrame
  <2>1. f \in Frames /\ f # NoFrame BY <1>2 DEF Shapes, ThreadShape, Process
  <2> QED BY <1>2, <2>1 DEF Owned
<1>5. f \in InUse BY <1>4 DEF InUse
<1> HIDE DEF f
<1>6. Distinct(s, Frames) /\ ToSet(s) = {f} /\ Len(s) = 1 BY <1>4, DistinctOne
<1> HIDE DEF s
<1>7. /\ PoolShape' /\ ToSet(freeSlots') = ToSet(freeSlots) \cup {f}
      /\ \A g \in Frames : frameState'[g] = IF g = f THEN "FREE" ELSE frameState[g]
      /\ InUse' = InUse \ {f}
      /\ \A g \in InUse' : frameHolds'[g] = frameHolds[g]
      /\ Cardinality(InUse') = Cardinality(InUse) - 1
  <2>1. ToSet(s) \subseteq InUse BY <1>5, <1>6
  <2>2. /\ PoolShape' /\ ToSet(freeSlots') = ToSet(freeSlots) \cup ToSet(s)
        /\ \A g \in Frames : frameState'[g] = IF g \in ToSet(s) THEN "FREE" ELSE frameState[g]
        /\ InUse' = InUse \ ToSet(s)
        /\ \A g \in InUse' : frameHolds'[g] = frameHolds[g]
        /\ Cardinality(InUse') = Cardinality(InUse) - Len(s)
    BY <1>2, <1>3, <1>6, <2>1, FreedFacts
  <2> QED BY <1>6, <2>2
<1>8. \A v \in Workers : /\ taken'[v] = IF v = w THEN NoFrame ELSE taken[v]
                         /\ pc'[v] = IF v = w THEN "loop" ELSE pc[v]
  BY <1>2, <1>3 DEF Shapes, ThreadShape
<1>9. /\ \A v \in Workers : Queued(v)' = Queued(v) /\ Queued(v) \subseteq InUse'
      /\ \A c \in Cells : Chained(c)' = Chained(c) /\ Chained(c) \subseteq InUse'
  <2>1. /\ \A v \in Workers : Queued(v)' = Queued(v) /\ f \notin Queued(v)
        /\ \A c \in Cells : Chained(c)' = Chained(c) /\ f \notin Chained(c)
    BY <1>2, <1>3, <1>4 DEF Queued, Chained, Owned
  <2> QED BY <1>2, <1>7, <2>1, InUseFacts
<1>10. \A v \in Workers : v # w => taken[v] # f BY <1>2, <1>4 DEF Owned, f
<1>11. \A v \in Workers : Assigned(v)' \subseteq Assigned(v) /\ Assigned(v)' \subseteq InUse'
  <2>1. \A v \in Workers : Assigned(v)' \subseteq Assigned(v) /\ f \notin Assigned(v)'
    BY <1>3, <1>4, <1>7, <1>8, <1>9, <1>10 DEF Assigned, Queued
  <2> QED BY <1>2, <1>7, <2>1, InUseFacts
<1>12. frameHolds[f] \in Arrival /\ frameHolds[f].n <= arrived
  BY <1>2, <1>5 DEF Numbering
<1>13. \A g \in Flows : \/ delivered'[g] = delivered[g]
                        \/ /\ Transport(frameHolds[f].p) /\ g = FlowOf(frameHolds[f].p)
                           /\ delivered'[g] = frameHolds[f].n
  BY <1>3, NullAssumption DEF Recorded, LinkFlow
<1>14. delivered' \in [Flows -> 0..MaxPackets]
  <2>1. frameHolds[f].n \in 0..MaxPackets BY <1>12, DispatchAssumption DEF Arrival
  <2>2. delivered \in [Flows -> 0..MaxPackets] BY <1>2 DEF Shapes, CountShape
  <2>3. CASE delivered' = Recorded(frameHolds[f]) BY <2>1, <2>2, <2>3 DEF Recorded
  <2> QED BY <1>3, <2>2, <2>3
<1>15. Shapes'
  <2>1. QueueShape' /\ FlowShape' BY <1>2, <1>3 DEF Shapes, QueueShape, FlowShape
  <2>2. EntriesShape' BY <1>2, <1>3 DEF Shapes, EntriesShape, EntryShape
  <2>3. CountShape' BY <1>2, <1>3, <1>14 DEF Shapes, CountShape
  <2>4. ThreadShape' BY <1>2, <1>3, <1>8 DEF Shapes, ThreadShape
  <2> QED BY <1>7, <2>1, <2>2, <2>3, <2>4 DEF Shapes
<1>16. Numbering'
  <2>1. \A g \in InUse' : frameHolds'[g] \in Arrival /\ frameHolds'[g].n <= arrived'
    BY <1>2, <1>3, <1>7 DEF Numbering
  <2>2. \A g, h \in InUse' : frameHolds'[g].n = frameHolds'[h].n => g = h
    BY <1>2, <1>7 DEF Numbering
  <2>3. \A g \in Flows : delivered'[g] <= arrived' BY <1>2, <1>3, <1>12, <1>13 DEF Numbering
  <2>4. ASSUME NEW g \in InUse', Transport(frameHolds'[g].p)
        PROVE  delivered'[FlowOf(frameHolds'[g].p)] < frameHolds'[g].n
    <3>1. g \in InUse /\ g # f /\ frameHolds'[g] = frameHolds[g] BY <1>7
    <3>2. FlowOf(frameHolds[g].p) \in Flows BY <1>2, <2>4, <3>1 DEF Numbering, Arrival, Flows
    <3>3. CASE delivered'[FlowOf(frameHolds[g].p)] = delivered[FlowOf(frameHolds[g].p)]
      BY <1>2, <2>4, <3>1, <3>3 DEF Numbering
    <3>4. CASE /\ Transport(frameHolds[f].p) /\ FlowOf(frameHolds[g].p) = FlowOf(frameHolds[f].p)
               /\ delivered'[FlowOf(frameHolds[g].p)] = frameHolds[f].n
      <4>1. taken[w] = f BY DEF f
      <4>2. frameHolds[f].n < frameHolds[g].n
        BY <1>1, <1>4, <2>4, <3>1, <3>4, <4>1, FlowBehind
      <4> QED BY <3>1, <3>4, <4>2
    <3> QED BY <1>13, <3>2, <3>3, <3>4
  <2> QED BY <2>1, <2>2, <2>3, <2>4 DEF Numbering
<1>17. Reserved' BY <1>2, <1>3 DEF Reserved, HeldFrames, Entries
<1>18. Counted' BY <1>2, <1>3, <1>7, InUseFacts DEF Counted, Shapes, CountShape
<1>19. Owned'
  <2>1. \A g \in Frames : frameState'[g] = "FREE" <=> g \in ToSet(freeSlots')
    BY <1>2, <1>4, <1>7 DEF Owned
  <2>2. ASSUME NEW g \in Frames
        PROVE frameState'[g] = "TRANSLATING" <=> \E v \in Workers : taken'[v] = g
    <3>1. CASE g = f BY <1>4, <1>7, <1>8, <1>10, <3>1
    <3>2. CASE g # f
      <4>1. (\E v \in Workers : taken'[v] = g) <=> \E v \in Workers : taken[v] = g
        BY <1>8, <3>2, NullAssumption DEF f
      <4> QED BY <1>2, <1>7, <3>2, <4>1 DEF Owned
    <3> QED BY <3>1, <3>2
  <2>3. \A g \in Frames : frameState'[g] = "RECEIVED" <=>
          (\E v \in Workers : g \in Queued(v)') \/ (\E c \in Cells : g \in Chained(c)')
    <3>1. \A g \in Frames : frameState'[g] = "RECEIVED" <=> frameState[g] = "RECEIVED"
      BY <1>4, <1>7
    <3> QED BY <1>2, <1>9, <3>1 DEF Owned
  <2>4. \A u, v \in Workers : u # v => taken'[u] # taken'[v] \/ taken'[u] = NoFrame
    BY <1>2, <1>8 DEF Owned
  <2>5. /\ \A u, v \in Workers : u # v => Queued(u)' \cap Queued(v)' = {}
        /\ \A b, c \in Cells : b # c => Chained(b)' \cap Chained(c)' = {}
        /\ \A v \in Workers, c \in Cells : Queued(v)' \cap Chained(c)' = {}
    BY <1>2, <1>9 DEF Owned
  <2> QED BY <2>1, <2>2, <2>3, <2>4, <2>5 DEF Owned
<1>20. Together'
  <2>1. \A c \in Cells : Keeps(fragments[c], fragments'[c]) BY <1>3 DEF Keeps
  <2>2. \A c \in Cells : \A g \in Chained(c)' : g \in Chained(c) /\ frameHolds'[g] = frameHolds[g]
    BY <1>7, <1>9
  <2>3. \A v \in Workers : \A g \in Assigned(v)' : g \in Assigned(v) /\ frameHolds'[g] = frameHolds[g]
    BY <1>7, <1>11
  <2> QED BY <1>2, <2>1, <2>2, <2>3, TogetherStays
<1>21. Ordered'
  <2>1. \A v \in Workers : \A g \in Assigned(v)' : InBucket(v, frameHolds[g].p)'
    BY <1>2, <1>3, <1>7, <1>11 DEF Ordered, InBucket, Bucket
  <2>2. \A v \in Workers : \A i \in DOMAIN queues[v] : queues[v][i] \in InUse'
    BY <1>9 DEF Queued, ToSet
  <2>3. \A g, h \in InUse' : Before(g, h) => Before(g, h)' BY <1>7 DEF Before
  <2>4. ASSUME NEW v \in Workers, NEW i \in DOMAIN queues'[v], taken'[v] # NoFrame
        PROVE  Before(taken[v], queues[v][i])'
    <3>1. v # w /\ taken'[v] = taken[v] /\ taken[v] # NoFrame BY <1>8, <2>4
    <3>2. taken[v] \in InUse' /\ queues[v][i] \in InUse' /\ i \in DOMAIN queues[v]
      BY <1>3, <1>11, <2>2, <2>4, <3>1 DEF Assigned
    <3>3. Before(taken[v], queues[v][i]) BY <1>2, <3>1, <3>2 DEF Ordered
    <3> QED BY <1>3, <2>3, <3>1, <3>2, <3>3
  <2>5. \A v \in Workers : \A i, j \in DOMAIN queues'[v] :
          i < j => Before(queues[v][i], queues[v][j])'
    BY <1>2, <1>3, <2>2, <2>3 DEF Ordered
  <2> QED BY <2>1, <2>4, <2>5 DEF Ordered
<1> QED BY <1>1, <1>3, <1>15, <1>16, <1>17, <1>18, <1>19, <1>20, <1>21 DEF DispatchInv, AtEnd

----------------------------------------------------------------------------
(* The main thread *)

\* The chains that dispatch_expire frees, one after the other.
DueChain(c) == IF Due(c) THEN fragments[c].held ELSE <<>>

LEMMA DeadFacts ==
  ASSUME Shapes, Owned
  PROVE  LET dead == FlattenSeq([c \in Cells |-> DueChain(c)])
         IN /\ Distinct(dead, Frames)
            /\ ToSet(dead) = UNION {Chained(c) : c \in {c \in Cells : Due(c)}}
<1> DEFINE s == [c \in Cells |-> DueChain(c)]
           n == Cardinality(Cells)
<1>1. n \in Nat /\ Cells = 1..n BY DispatchAssumption, FS_CardinalityType
<1>2. ASSUME NEW c \in Cells
      PROVE  /\ Distinct(DueChain(c), Frames)
             /\ ToSet(DueChain(c)) = IF Due(c) THEN Chained(c) ELSE {}
  <2>1. Distinct(fragments[c].held, Frames)
    BY DEF Shapes, EntriesShape, EntryShape, EntryRecords, Distinct
  <2> QED BY <2>1, DistinctEmpty DEF DueChain, Chained
<1>3. s \in [1..n -> Seq(Frames)] /\ \A i \in 1..n : s[i] = DueChain(i)
  BY <1>1, <1>2 DEF Distinct
<1>4. \A i \in 1..n : IsInjective(s[i]) BY <1>1, <1>2, <1>3 DEF Distinct
<1>5. \A i, j \in 1..n : i # j => ToSet(s[i]) \cap ToSet(s[j]) = {}
  <2> SUFFICES ASSUME NEW i \in 1..n, NEW j \in 1..n, i # j PROVE ToSet(s[i]) \cap ToSet(s[j]) = {}
    OBVIOUS
  <2>1. Chained(i) \cap Chained(j) = {} BY <1>1 DEF Owned
  <2> QED BY <1>1, <1>2, <1>3, <2>1
<1> HIDE DEF s, n
<1>6. Distinct(FlattenSeq(s), Frames) /\ ToSet(FlattenSeq(s)) = Gathered(s, n)
  BY <1>1, <1>3, <1>4, <1>5, FlattenDistinct
<1>7. Gathered(s, n) = UNION {Chained(c) : c \in {c \in Cells : Due(c)}}
  <2>1. Gathered(s, n) = UNION {ToSet(DueChain(c)) : c \in Cells}
    BY <1>1, <1>3 DEF Gathered
  <2>2. \A c \in Cells : ToSet(DueChain(c)) = IF Due(c) THEN Chained(c) ELSE {} BY <1>2
  <2> QED BY <2>1, <2>2
<1> QED BY <1>6, <1>7 DEF s

\* The entry that is left is a record of the type, without a chain.
LEMMA TombstoneFacts ==
  ASSUME NEW e \in EntryRecords, EntryShape(e), e.used
  PROVE  EntryShape(Tombstone(e)) /\ Keeps(e, Tombstone(e)) /\ ToSet(Tombstone(e).held) = {}
<1> DEFINE x == Tombstone(e)
<1>1. /\ x \in EntryRecords /\ x.used = e.used /\ x.key = e.key /\ x.queue = e.queue
      /\ x.resolved = 2 /\ x.held = <<>>
  <2>1. <<>> \in Seq(Frames) OBVIOUS
  <2>2. PICK h \in Seq(Frames) : h = <<>> BY <2>1
  <2>3. PICK r \in 0..2 : r = 2 OBVIOUS
  <2>4. x = [e EXCEPT !.held = h, !.resolved = r] BY <2>2, <2>3 DEF Tombstone
  <2> HIDE DEF x
  <2>5. /\ x \in EntryRecords /\ x.used = e.used /\ x.key = e.key /\ x.queue = e.queue
        /\ x.resolved = r /\ x.held = h
    BY <2>4 DEF EntryRecords
  <2> QED BY <2>2, <2>3, <2>5
<1> HIDE DEF x
<1>2. IsInjective(<<>>) /\ Len(<<>>) = 0 /\ ToSet(<<>>) = {}
  BY DistinctEmpty, EmptySeq DEF Distinct
<1>3. EntryShape(x) /\ Keeps(e, x) /\ ToSet(x.held) = {}
  BY <1>1, <1>2, DispatchAssumption DEF EntryShape, Keeps
<1> QED BY <1>3 DEF x

\* dispatch_expire.
LEMMA ExpireKeeps ==
  ASSUME DispatchInv, MainExpires
  PROVE  DispatchInv'
<1>1. ~ended BY DEF DispatchInv, AtEnd, MainExpires
<1>2. Shapes /\ Numbering /\ Reserved /\ Counted /\ Owned /\ Together /\ Ordered
  BY <1>1 DEF DispatchInv
<1> DEFINE s == FlattenSeq([c \in Cells |-> DueChain(c)])
           D == ToSet(s)
<1>3. /\ UNCHANGED <<queues, wake, flowQueue, nextQueue, clock, stop, arrived>>
      /\ UNCHANGED <<pc, taken, ended, processed, delivered>>
      /\ FreeAll(s) /\ drops' = drops + Len(s)
      /\ fragments' = [c \in Cells |-> IF Due(c) THEN Tombstone(fragments[c]) ELSE fragments[c]]
  BY DEF MainExpires, Expire, DueChain, queueVars, flowVars, Elsewhere, threadVars, mainVars, outVars
<1>4. /\ Distinct(s, Frames) /\ D = UNION {Chained(c) : c \in {c \in Cells : Due(c)}}
      /\ ToSet(s) = D
  BY <1>2, DeadFacts
<1> HIDE DEF s, D
<1>5. D \subseteq InUse BY <1>2, <1>4, InUseFacts
<1>6. /\ PoolShape' /\ ToSet(freeSlots') = ToSet(freeSlots) \cup D
      /\ \A g \in Frames : frameState'[g] = IF g \in D THEN "FREE" ELSE frameState[g]
      /\ InUse' = InUse \ D
      /\ \A g \in InUse' : frameHolds'[g] = frameHolds[g]
      /\ Cardinality(InUse') = Cardinality(InUse) - Len(s) /\ Len(s) \in Nat
  BY <1>2, <1>3, <1>4, <1>5, FreedFacts
<1>7. \A c \in Cells : /\ EntryShape(fragments'[c]) /\ Keeps(fragments[c], fragments'[c])
                       /\ Chained(c)' = Chained(c) \ D
  <2> SUFFICES ASSUME NEW c \in Cells
               PROVE  /\ EntryShape(fragments'[c]) /\ Keeps(fragments[c], fragments'[c])
                      /\ Chained(c)' = Chained(c) \ D
    OBVIOUS
  <2>1. EntryShape(fragments[c]) /\ fragments[c] \in EntryRecords
    BY <1>2 DEF Shapes, EntriesShape, EntryShape
  <2>2. CASE Due(c)
    <3>1. fragments'[c] = Tombstone(fragments[c]) /\ fragments[c].used BY <1>3, <2>2 DEF Due
    <3>2. Chained(c) \subseteq D BY <1>4, <2>2
    <3>3. Chained(c)' = {} BY <2>1, <3>1, TombstoneFacts DEF Chained
    <3> QED BY <2>1, <3>1, <3>2, <3>3, TombstoneFacts
  <2>3. CASE ~Due(c)
    <3>1. fragments'[c] = fragments[c] BY <1>3, <2>3
    <3>2. Chained(c) \cap D = {} BY <1>2, <1>4, <2>3 DEF Owned
    <3> QED BY <2>1, <3>1, <3>2 DEF Keeps, Chained
  <2> QED BY <2>2, <2>3
<1>8. /\ \A v \in Workers : Queued(v)' = Queued(v) /\ Queued(v) \cap D = {}
      /\ \A v \in Workers : Assigned(v)' = Assigned(v) /\ Assigned(v) \cap D = {}
  <2>1. \A v \in Workers : Queued(v)' = Queued(v) /\ Queued(v) \cap D = {}
    BY <1>2, <1>3, <1>4 DEF Queued, Owned
  <2>2. \A g \in D : frameState[g] = "RECEIVED" /\ g \in Frames
    BY <1>2, <1>4, <1>5 DEF Owned, InUse
  <2>3. \A v \in Workers : taken[v] \notin D
    <3> SUFFICES ASSUME NEW v \in Workers, taken[v] \in D PROVE FALSE OBVIOUS
    <3>1. frameState[taken[v]] = "TRANSLATING" BY <1>2, <2>2 DEF Owned
    <3> QED BY <2>2, <3>1
  <2> QED BY <1>3, <2>1, <2>3 DEF Assigned, Queued
<1>9. \A v \in Workers : \A g \in Assigned(v) : frameHolds'[g] = frameHolds[g]
  BY <1>2, <1>6, <1>8, InUseFacts
<1>10. Shapes'
  <2>1. QueueShape' /\ FlowShape' BY <1>2, <1>3 DEF Shapes, QueueShape, FlowShape
  <2>2. EntriesShape'
    <3>1. fragments' = [c \in Cells |-> fragments'[c]] BY <1>3
    <3> QED BY <1>7, <3>1 DEF EntriesShape, EntryShape
  <2>3. CountShape' BY <1>2, <1>3, <1>6 DEF Shapes, CountShape
  <2>4. ThreadShape' BY <1>2, <1>3 DEF Shapes, ThreadShape
  <2> QED BY <1>6, <2>1, <2>2, <2>3, <2>4 DEF Shapes
<1>11. Numbering' BY <1>2, <1>3, <1>6, NumberingLeaves
<1>12. Reserved' BY <1>2, <1>7, ReservedStays
<1>13. Counted' BY <1>2, <1>3, <1>6, InUseFacts DEF Counted, Shapes, CountShape
<1>14. Owned'
  <2>1. \A g \in Frames : frameState'[g] = "FREE" <=> g \in ToSet(freeSlots')
    BY <1>2, <1>6 DEF Owned
  <2>2. \A g \in D : frameState[g] = "RECEIVED" BY <1>2, <1>4, <1>5 DEF Owned, InUse
  <2>3. \A g \in Frames : frameState'[g] = "TRANSLATING" <=> \E v \in Workers : taken'[v] = g
    BY <1>2, <1>3, <1>6, <2>2 DEF Owned
  <2>4. ASSUME NEW g \in Frames
        PROVE frameState'[g] = "RECEIVED" <=>
                (\E v \in Workers : g \in Queued(v)') \/ (\E c \in Cells : g \in Chained(c)')
    <3>1. CASE g \in D
      <4>1. /\ \A v \in Workers : g \notin Queued(v)'
            /\ \A c \in Cells : g \notin Chained(c)'
        BY <1>7, <1>8, <3>1
      <4> QED BY <1>6, <3>1, <4>1
    <3>2. CASE g \notin D
      <4>1. /\ \A v \in Workers : g \in Queued(v)' <=> g \in Queued(v)
            /\ \A c \in Cells : g \in Chained(c)' <=> g \in Chained(c)
        BY <1>7, <1>8, <3>2
      <4> QED BY <1>2, <1>6, <3>2, <4>1 DEF Owned
    <3> QED BY <3>1, <3>2
  <2>5. \A u, v \in Workers : u # v => taken'[u] # taken'[v] \/ taken'[u] = NoFrame
    BY <1>2, <1>3 DEF Owned
  <2>6. /\ \A u, v \in Workers : u # v => Queued(u)' \cap Queued(v)' = {}
        /\ \A b, c \in Cells : b # c => Chained(b)' \cap Chained(c)' = {}
        /\ \A v \in Workers, c \in Cells : Queued(v)' \cap Chained(c)' = {}
    BY <1>2, <1>7, <1>8 DEF Owned
  <2> QED BY <2>1, <2>3, <2>4, <2>5, <2>6 DEF Owned
<1>15. Together'
  <2>1. \A c \in Cells : \A g \in Chained(c)' : g \in Chained(c) /\ frameHolds'[g] = frameHolds[g]
    BY <1>2, <1>6, <1>7, InUseFacts
  <2> QED BY <1>2, <1>7, <1>8, <1>9, <2>1, TogetherStays
<1>16. Ordered'
  <2>1. FlowsStay BY <1>3 DEF FlowsStay
  <2> QED BY <1>2, <1>3, <1>9, <2>1, OrderedStays
<1> QED BY <1>1, <1>3, <1>10, <1>11, <1>12, <1>13, <1>14, <1>15, <1>16 DEF DispatchInv, AtEnd

\* dispatch_destroy: nothing is in use afterwards, and everything was counted.
LEMMA EndsKeeps ==
  ASSUME DispatchInv, MainEnds
  PROVE  DispatchInv'
<1>1. Shapes /\ Numbering /\ Reserved /\ Counted /\ Owned /\ ~ended
  BY DEF DispatchInv, MainEnds
<1> DEFINE s == SetToSeq(InUse)
<1>2. /\ UNCHANGED <<queues, wake, flowQueue, nextQueue, clock, fragments, stop, arrived>>
      /\ UNCHANGED <<pc, taken, processed, delivered>>
      /\ FreeAll(s) /\ drops' = drops + Len(s) /\ ended' = TRUE
      /\ stop /\ \A w \in Workers : pc[w] = "done"
  BY DEF MainEnds, Destroy, InUse, queueVars, flowVars, timeVars, threadVars, outVars
<1>3. IsFiniteSet(InUse) /\ InUse \subseteq Frames BY <1>1, InUseFacts
<1>4. Distinct(s, InUse) /\ ToSet(s) = InUse BY <1>3, SetToSeqLists
<1> HIDE DEF s
<1>5. Distinct(s, Frames) BY <1>3, <1>4 DEF Distinct
<1>6. /\ PoolShape' /\ InUse' = {}
      /\ Cardinality(InUse') = Cardinality(InUse) - Len(s) /\ Len(s) \in Nat
  BY <1>1, <1>2, <1>4, <1>5, FreedFacts
<1>7. Shapes'
  <2>1. QueueShape' /\ FlowShape' BY <1>1, <1>2 DEF Shapes, QueueShape, FlowShape
  <2>2. EntriesShape' BY <1>1, <1>2 DEF Shapes, EntriesShape, EntryShape
  <2>3. CountShape' BY <1>1, <1>2, <1>6 DEF Shapes, CountShape
  <2>4. ThreadShape' BY <1>1, <1>2 DEF Shapes, ThreadShape
  <2> QED BY <1>6, <2>1, <2>2, <2>3, <2>4 DEF Shapes
<1>8. Numbering' BY <1>1, <1>2, <1>6 DEF Numbering
<1>9. Reserved' BY <1>1, <1>2 DEF Reserved, HeldFrames, Entries
<1>10. Counted' BY <1>1, <1>2, <1>6, InUseFacts DEF Counted, Shapes, CountShape
<1>11. AtEnd' BY <1>2, <1>6 DEF AtEnd
<1> QED BY <1>2, <1>7, <1>8, <1>9, <1>10, <1>11 DEF DispatchInv

----------------------------------------------------------------------------
(* The invariant, and what it says *)

\* Every step of every thread keeps it.
LEMMA DispatchNext == DispatchInv /\ [Next]_vars => DispatchInv'
<1> SUFFICES ASSUME DispatchInv, [Next]_vars PROVE DispatchInv' OBVIOUS
<1>0. /\ ThreadShape /\ QueueShape /\ CountShape /\ (ended => \A w \in Workers : pc[w] = "done")
  BY DEF DispatchInv, Shapes, AtEnd
<1>1. ASSUME NEW w \in Workers, Turn(w) PROVE DispatchInv'
  <2>1. CASE Take(w) BY <1>1, <2>1, TakeKeeps DEF Turn, Take
  <2>2. CASE ~Take(w)
    <3>1. /\ pc[w] = "loop" /\ pc' = [pc EXCEPT ![w] = "wait"] /\ UNCHANGED <<dispatchVars, taken>>
          /\ UNCHANGED <<ended, outVars>>
      BY <1>1, <2>2 DEF Turn, Goto, mainVars
    <3>2. ThreadShape' BY <1>0, <3>1 DEF ThreadShape
    <3>3. ~ended BY <1>0, <3>1
    <3> QED BY <1>0, <3>1, <3>2, <3>3, UnmovedKeeps
         DEF dispatchVars, queueVars, timeVars, QueueShape, CountShape
  <2> QED BY <2>1, <2>2
<1>2. ASSUME NEW w \in Workers, Woken(w) PROVE DispatchInv'
  <2>1. /\ pc[w] = "wait" /\ pc' = [pc EXCEPT ![w] = "loop"] /\ wake' = [wake EXCEPT ![w] = FALSE]
        /\ UNCHANGED <<poolVars, queues, flowVars, timeVars, fragments, stop, arrived, drops>>
        /\ UNCHANGED <<taken, ended, outVars>>
    BY <1>2 DEF Woken, Wait, Goto, mainVars
  <2>2. ThreadShape' /\ wake' \in [Workers -> BOOLEAN] /\ ~ended
    BY <1>0, <2>1 DEF ThreadShape, QueueShape
  <2> QED BY <1>0, <2>1, <2>2, UnmovedKeeps DEF timeVars, CountShape
<1>3. ASSUME NEW w \in Workers, Process(w) PROVE DispatchInv' BY <1>3, ProcessKeeps
<1>4. ASSUME NEW w \in Workers, Leave(w) PROVE DispatchInv'
  <2>1. /\ pc[w] = "loop" /\ pc' = [pc EXCEPT ![w] = "done"] /\ UNCHANGED <<dispatchVars, taken>>
        /\ UNCHANGED <<ended, outVars>>
    BY <1>4 DEF Leave, Goto, mainVars
  <2>2. ThreadShape' /\ ~ended BY <1>0, <2>1 DEF ThreadShape
  <2> QED BY <1>0, <2>1, <2>2, UnmovedKeeps
       DEF dispatchVars, queueVars, timeVars, QueueShape, CountShape
<1>5. CASE MainReads BY <1>5, SubmitKeeps DEF MainReads
<1>6. CASE MainExpires BY <1>6, ExpireKeeps
<1>7. CASE MainStops
  <2>1. /\ UNCHANGED <<poolVars, queueVars, flowVars, timeVars, fragments, arrived, drops>>
        /\ stop' = TRUE /\ UNCHANGED <<threadVars, ended, outVars>>
    BY <1>7 DEF MainStops, Stop, Elsewhere, mainVars
  <2>2. ThreadShape' BY <1>0, <2>1 DEF ThreadShape, threadVars
  <2> QED BY <1>0, <2>1, <2>2, UnmovedKeeps
       DEF queueVars, timeVars, threadVars, QueueShape, CountShape
<1>8. CASE MainEnds BY <1>8, EndsKeeps
<1>9. CASE Terminate \/ Over \/ UNCHANGED vars
  <2>1. UNCHANGED <<dispatchVars, threadVars, ended, outVars>>
    BY <1>9 DEF Terminate, Over, vars, mainVars
  <2>2. ThreadShape' BY <1>0, <2>1 DEF ThreadShape, threadVars
  <2> QED BY <1>0, <2>1, <2>2, UnmovedKeeps
       DEF dispatchVars, queueVars, timeVars, threadVars, QueueShape, CountShape
<1>10. CASE Time
  <2>1. /\ UNCHANGED <<poolVars, queueVars, flowVars, fragments, stop, arrived, drops>>
        /\ clock' = clock + 1 /\ UNCHANGED <<threadVars, ended, outVars>>
    BY <1>10 DEF Time, Tick, Elsewhere, mainVars
  <2>2. ThreadShape' BY <1>0, <2>1 DEF ThreadShape, threadVars
  <2> QED BY <1>0, <2>1, <2>2, UnmovedKeeps
       DEF queueVars, threadVars, QueueShape, CountShape
<1> QED BY <1>1, <1>2, <1>3, <1>4, <1>5, <1>6, <1>7, <1>8, <1>9, <1>10 DEF Next

\* The invariant holds.
LEMMA DispatchAlways == Spec => []DispatchInv
BY DispatchStarts, DispatchNext, PTL DEF Spec

\* The type of every variable, and the bounds that the code gives its arrays: no chain
\* over FLOW_MAX_HELD, no queue over the pool, and the reserve that held fragments leave.
THEOREM DataPathTypes == Spec => []TypeOK
<1>1. ASSUME DispatchInv PROVE TypeOK
  <2>1. Shapes /\ Reserved /\ Counted BY <1>1 DEF DispatchInv
  <2>2. ASSUME NEW s, Distinct(s, Frames) PROVE Len(s) <= Cardinality(Frames)
    <3>1. IsFiniteSet(ToSet(s)) /\ Cardinality(ToSet(s)) = Len(s) /\ ToSet(s) \subseteq Frames
      BY <2>2, DistinctSize, ElementsOf DEF Distinct
    <3> QED BY <3>1, DispatchAssumption, FS_Subset
  <2>3. frameState \in [Frames -> FrameStates]
    BY <2>1 DEF Shapes, PoolShape, FrameStates, Receiving, Sending
  <2>4. frameHolds \in [Frames -> Arrival \cup {NoPacket}] BY <2>1 DEF Shapes, PoolShape
  <2>5. freeSlots \in Seq(Frames) /\ Len(freeSlots) <= Cardinality(Frames)
    BY <2>1, <2>2 DEF Shapes, PoolShape, Distinct
  <2>6. \A w \in Workers : queues[w] \in Seq(Frames) /\ Len(queues[w]) <= Cardinality(Frames)
    BY <2>1, <2>2 DEF Shapes, QueueShape, Distinct
  <2>7. wake \in [Workers -> BOOLEAN] BY <2>1 DEF Shapes, QueueShape
  <2>8. flowQueue \in [Buckets -> 0..W] /\ nextQueue \in 0..Cardinality(Buckets)
    <3> DEFINE B == {b \in Buckets : flowQueue[b] # 0}
    <3>1. IsFiniteSet(B) /\ Cardinality(B) <= Cardinality(Buckets)
      BY DispatchAssumption, FS_Subset
    <3>2. Cardinality(B) \in Nat /\ Cardinality(Buckets) \in Nat
      BY <3>1, DispatchAssumption, FS_CardinalityType
    <3> QED BY <2>1, <3>1, <3>2 DEF Shapes, FlowShape
  <2>9. \A e \in Entries : /\ e.held \in Seq(Frames) /\ Len(e.held) <= MaxHeld
                           /\ e.resolved \in 0..2 /\ e.queue \in 0..W
    BY <2>1 DEF Shapes, EntriesShape, EntryShape, EntryRecords, Entries
  <2>10. arrived \in 0..MaxPackets /\ drops \in 0..MaxPackets /\ processed \in 0..MaxPackets
    <3>1. Cardinality(InUse) \in Nat
      BY DispatchAssumption, FS_Subset, FS_CardinalityType DEF InUse
    <3> QED BY <2>1, <3>1, DispatchAssumption DEF Shapes, CountShape, Counted
  <2>11. delivered \in [Flows -> 0..MaxPackets] /\ taken \in [Workers -> Frames \cup {NoFrame}]
    BY <2>1 DEF Shapes, CountShape, ThreadShape
  <2> QED BY <2>1, <2>3, <2>4, <2>5, <2>6, <2>7, <2>8, <2>9, <2>10, <2>11 DEF TypeOK, Reserved
<1> QED BY <1>1, DispatchAlways, PTL

\* Where a frame is in a sequence without repetitions.
LEMMA OnePosition ==
  ASSUME NEW S, NEW s, Distinct(s, S), NEW f
  PROVE  /\ f \in ToSet(s) => \E i \in DOMAIN s : Positions(s, f) = {i}
         /\ f \notin ToSet(s) => Positions(s, f) = {}
BY DEF Distinct, IsInjective, ToSet, Positions

\* Until main frees the dispatcher, a frame is on the free stack, in one queue, in one
\* chain or with one worker, and its state says which (packet_frame_acquire,
\* dispatch_queue_locked, dispatch_take, dispatch_free_locked).
THEOREM FrameOwnedOnceAlways == Spec => []FrameOwnedOnce
<1>1. ASSUME DispatchInv, ~ended, NEW f \in Frames
      PROVE  /\ Cardinality(Places(f)) = 1
             /\ frameState[f] = "FREE" <=> \E i \in DOMAIN freeSlots : freeSlots[i] = f
             /\ frameState[f] = "TRANSLATING" <=> \E w \in Workers : taken[w] = f
  <2>1. Shapes /\ Owned BY <1>1 DEF DispatchInv
  <2>2. /\ Distinct(freeSlots, Frames)
        /\ \A w \in Workers : Distinct(queues[w], Frames)
        /\ \A c \in Cells : Distinct(fragments[c].held, Frames)
    BY <2>1 DEF Shapes, PoolShape, QueueShape, EntriesShape, EntryShape, EntryRecords, Distinct
  <2>3. /\ frameState[f] # "FREE" => Positions(freeSlots, f) = {}
        /\ \A w \in Workers : f \notin Queued(w) => Positions(queues[w], f) = {}
        /\ \A c \in Cells : f \notin Chained(c) => Positions(fragments[c].held, f) = {}
        /\ frameState[f] # "TRANSLATING" => \A w \in Workers : taken[w] # f
    <3>1. frameState[f] # "FREE" => Positions(freeSlots, f) = {}
      BY <2>1, <2>2, OnePosition DEF Owned
    <3>2. \A w \in Workers : f \notin Queued(w) => Positions(queues[w], f) = {}
      BY <2>2, OnePosition DEF Queued
    <3>3. \A c \in Cells : f \notin Chained(c) => Positions(fragments[c].held, f) = {}
      BY <2>2, OnePosition DEF Chained
    <3>4. frameState[f] # "TRANSLATING" => \A w \in Workers : taken[w] # f
      BY <2>1 DEF Owned
    <3> QED BY <3>1, <3>2, <3>3, <3>4
  <2>4. /\ frameState[f] # "RECEIVED" => /\ \A w \in Workers : f \notin Queued(w)
                                         /\ \A c \in Cells : f \notin Chained(c)
        /\ \A w \in Workers, c \in Cells : ~(f \in Queued(w) /\ f \in Chained(c))
        /\ \A v, w \in Workers : f \in Queued(v) /\ f \in Queued(w) => v = w
        /\ \A b, c \in Cells : f \in Chained(b) /\ f \in Chained(c) => b = c
    BY <2>1 DEF Owned
  <2>5. \E x : Places(f) = {x}
    <3>1. CASE frameState[f] = "FREE"
      <4>1. PICK i : Positions(freeSlots, f) = {i}
        BY <2>1, <2>2, <3>1, OnePosition DEF Owned
      <4>2. /\ \A w \in Workers : taken[w] # f /\ Positions(queues[w], f) = {}
            /\ \A c \in Cells : Positions(fragments[c].held, f) = {}
        BY <2>3, <2>4, <3>1
      <4>3. Places(f) = {<<"free", 0, i>>} BY <4>1, <4>2 DEF Places
      <4> QED BY <4>3
    <3>2. CASE frameState[f] = "TRANSLATING"
      <4>1. PICK w \in Workers : taken[w] = f BY <2>1, <3>2 DEF Owned
      <4>2. \A v \in Workers : taken[v] = f => v = w
        BY <2>1, <4>1, NullAssumption DEF Owned
      <4>3. /\ Positions(freeSlots, f) = {} /\ \A v \in Workers : Positions(queues[v], f) = {}
            /\ \A c \in Cells : Positions(fragments[c].held, f) = {}
        BY <2>3, <2>4, <3>2
      <4>4. Places(f) = {<<"worker", w, 0>>} BY <4>1, <4>2, <4>3 DEF Places
      <4> QED BY <4>4
    <3>3. CASE frameState[f] = "RECEIVED" /\ \E w \in Workers : f \in Queued(w)
      <4>1. PICK w \in Workers : f \in Queued(w) BY <3>3
      <4>2. PICK i : Positions(queues[w], f) = {i} BY <2>2, <4>1, OnePosition DEF Queued
      <4>3. /\ Positions(freeSlots, f) = {}
            /\ \A v \in Workers : taken[v] # f /\ (v # w => Positions(queues[v], f) = {})
            /\ \A c \in Cells : Positions(fragments[c].held, f) = {}
        BY <2>3, <2>4, <3>3, <4>1
      <4>4. Places(f) = {<<"queue", w, i>>} BY <4>2, <4>3 DEF Places
      <4> QED BY <4>4
    <3>4. CASE frameState[f] = "RECEIVED" /\ \E c \in Cells : f \in Chained(c)
      <4>1. PICK c \in Cells : f \in Chained(c) BY <3>4
      <4>2. PICK i : Positions(fragments[c].held, f) = {i} BY <2>2, <4>1, OnePosition DEF Chained
      <4>3. /\ Positions(freeSlots, f) = {}
            /\ \A w \in Workers : taken[w] # f /\ Positions(queues[w], f) = {}
            /\ \A b \in Cells : b # c => Positions(fragments[b].held, f) = {}
        BY <2>3, <2>4, <3>4, <4>1
      <4>4. Places(f) = {<<"chain", c, i>>} BY <4>2, <4>3 DEF Places
      <4> QED BY <4>4
    <3>5. frameState[f] \in {"FREE", "RECEIVED", "TRANSLATING"} BY <2>1 DEF Shapes, PoolShape
    <3> QED BY <2>1, <3>1, <3>2, <3>3, <3>4, <3>5 DEF Owned
  <2>6. Cardinality(Places(f)) = 1 BY <2>5, FS_Singleton
  <2> QED BY <2>1, <2>6 DEF Owned, ToSet
<1>2. DispatchInv => FrameOwnedOnce BY <1>1 DEF FrameOwnedOnce
<1> QED BY <1>2, DispatchAlways, PTL

\* Every packet read is counted exactly once, however it leaves, and nothing is left in
\* the dispatcher at the end (dispatch_drops, stats_packet_done, dispatch_destroy).
THEOREM EveryPacketOnceAlways == Spec => []EveryPacketOnce
<1>1. DispatchInv => EveryPacketOnce BY DEF DispatchInv, Counted, AtEnd, EveryPacketOnce
<1> QED BY <1>1, DispatchAlways, PTL

\* The fragments of a datagram are never with two workers at once: its cell keeps the
\* queue of the first one that was passed on, also after it expired (dispatch_submit,
\* dispatch_expire).
THEOREM DatagramTogetherAlways == Spec => []DatagramTogether
<1>1. ASSUME DispatchInv, ~ended, NEW u \in Workers, NEW w \in Workers,
             NEW f \in Assigned(u), NEW g \in Assigned(w),
             Fragmented(frameHolds[f].p), frameHolds[f].p.datagram = frameHolds[g].p.datagram
      PROVE  u = w
  <2>1. PassedRight(u, frameHolds[f].p) /\ PassedRight(w, frameHolds[g].p)
    BY <1>1 DEF DispatchInv, Together
  <2>2. Fragmented(frameHolds[g].p) BY <1>1 DEF Fragmented
  <2> QED BY <1>1, <2>1, <2>2 DEF PassedRight
<1>2. DispatchInv => DatagramTogether BY <1>1 DEF DatagramTogether
<1> QED BY <1>2, DispatchAlways, PTL

----------------------------------------------------------------------------
(* The daemon as a link *)

\* Different packets of the dispatcher are different packets of the link.
LEMMA TransitNumbers ==
  ASSUME Numbering, NEW f \in InUse, NEW g \in InUse, Numbered(frameHolds[f]) = Numbered(frameHolds[g])
  PROVE  f = g
BY DEF Numbering, Numbered

\* A packet of the main thread is taken in at most once.
LEMMA OfferFills ==
  ASSUME NEW f, NEW p \in Packets, Fills(f, p), delivered' = delivered
  PROVE  Link!Offer
<1> DEFINE a == [n |-> arrived', p |-> p]
           flow == LinkFlow(p)
<1>1. flow \in Flows \cup {NoFlow} BY DEF LinkFlow, Flows
<1>2. frameHolds'[f] = a /\ Numbered(a) = <<arrived', flow>> /\ InUse' = InUse \cup {f}
  BY DEF Fills, Numbered
<1>3. \A g \in InUse : frameHolds'[g] = frameHolds[g] BY DEF Fills
<1> HIDE DEF a, flow
<1>4. LinkTransit' = {Numbered(frameHolds'[g]) : g \in InUse'} BY DEF LinkTransit, Numbered, LinkFlow, Transport, FlowOf
<1>5. LinkTransit' = LinkTransit \cup {<<arrived', flow>>}
  BY <1>2, <1>3, <1>4 DEF LinkTransit
<1> QED BY <1>1, <1>5 DEF Link!Offer, Fills

\* dispatch_submit.
LEMMA SubmitOffers ==
  ASSUME DispatchInv, ~stop, Submit, Elsewhere
  PROVE  Link!Offer
<1>1. Shapes /\ Owned BY DEF DispatchInv, AtEnd
<1>2. PICK p \in Packets : SubmitMalformed(p) \/ SubmitWhole(p) \/ SubmitFragment(p)
  BY DEF Submit
<1>3. /\ arrived' = arrived + 1 /\ arrived < MaxPackets /\ delivered' = delivered
      /\ Drop \/ (Acquire(p) /\ freeSlots # <<>>)
  <2>1. delivered' = delivered BY DEF Elsewhere, outVars
  <2>2. CASE SubmitMalformed(p) BY <2>1, <2>2 DEF SubmitMalformed
  <2>3. CASE SubmitWhole(p) BY <2>1, <2>3 DEF SubmitWhole, Classify, NoRoom
  <2>4. CASE SubmitFragment(p)
    <3>1. arrived' = arrived + 1 /\ arrived < MaxPackets BY <2>4 DEF SubmitFragment, Classify
    <3>2. RefuseFragment(p) => Drop BY DEF RefuseFragment
    <3>3. HoldFragment(p) => Drop \/ (Acquire(p) /\ freeSlots # <<>>) BY DEF HoldFragment, NoRoom
    <3>4. PassFragment(p) => Drop \/ (Acquire(p) /\ freeSlots # <<>>) BY DEF PassFragment, NoRoom
    <3> QED BY <2>1, <2>4, <3>1, <3>2, <3>3, <3>4 DEF SubmitFragment
  <2> QED BY <1>2, <2>2, <2>3, <2>4
<1>4. CASE Drop
  <2>1. LinkTransit' = LinkTransit BY <1>4 DEF Drop, poolVars, LinkTransit, InUse
  <2> QED BY <1>3, <2>1 DEF Link!Offer
<1>5. CASE Acquire(p) /\ freeSlots # <<>>
  <2>1. PICK f \in Frames : f = Last(freeSlots)
    BY <1>1, <1>5, DistinctFront DEF Shapes, PoolShape
  <2>2. /\ \A g \in Frames : g # f => frameHolds'[g] = frameHolds[g]
        /\ frameHolds'[f] = [n |-> arrived', p |-> p] /\ frameHolds'[f] \in Arrival
        /\ f \notin InUse /\ InUse' = InUse \cup {f}
    BY <1>1, <1>3, <1>5, <2>1, AcquireFacts
  <2>3. Fills(f, p) BY <1>3, <2>2 DEF Fills, InUse
  <2> QED BY <1>3, <2>3, OfferFills
<1> QED BY <1>3, <1>4, <1>5

\* Frames that are given back: their packets, and no others, leave the link.
LEMMA FreedTransit ==
  ASSUME Shapes, Owned, Numbering, NEW s, Distinct(s, Frames), ToSet(s) \subseteq InUse, FreeAll(s),
         arrived' = arrived
  PROVE  LinkTransit' = LinkTransit \ {Numbered(frameHolds[g]) : g \in ToSet(s)}
<1>1. InUse' = InUse \ ToSet(s) /\ \A g \in InUse' : frameHolds'[g] = frameHolds[g]
  BY FreedFacts
<1>2. LinkTransit' = {Numbered(frameHolds'[g]) : g \in InUse'}
  BY DEF LinkTransit, Numbered, LinkFlow, Transport, FlowOf
<1>3. LinkTransit' = {Numbered(frameHolds[g]) : g \in InUse \ ToSet(s)} BY <1>1, <1>2
<1>4. \A f, g \in InUse : Numbered(frameHolds[f]) = Numbered(frameHolds[g]) => f = g
  BY TransitNumbers
<1> QED BY <1>3, <1>4 DEF LinkTransit

\* Several packets are lost, or none.
LEMMA FreedLoses ==
  ASSUME Shapes, Owned, Numbering, NEW s, Distinct(s, Frames), ToSet(s) \subseteq InUse, FreeAll(s),
         arrived' = arrived, delivered' = delivered
  PROVE  Link!Lose \/ UNCHANGED Link!linkVars
<1> DEFINE lost == {Numbered(frameHolds[g]) : g \in ToSet(s)}
<1>1. LinkTransit' = LinkTransit \ lost BY FreedTransit
<1>2. lost \in SUBSET LinkTransit BY DEF LinkTransit
<1> HIDE DEF lost
<1>3. CASE lost = {} BY <1>1, <1>3 DEF Link!linkVars
<1>4. CASE lost # {} BY <1>1, <1>2, <1>4 DEF Link!Lose
<1> QED BY <1>3, <1>4

\* A packet that is written comes out of the link, in the order of its flow; one that is
\* dropped is lost.
LEMMA ProcessDelivers ==
  ASSUME DispatchInv, NEW w \in Workers, Process(w)
  PROVE  Link!LinkNext
<1>1. ~ended BY DEF DispatchInv, AtEnd, Process
<1>2. Shapes /\ Numbering /\ Owned BY <1>1 DEF DispatchInv
<1>3. PICK f \in Frames : f = taken[w] /\ f \in InUse
  <2>1. taken[w] \in Frames BY <1>2 DEF Shapes, ThreadShape, Process
  <2> QED BY <1>2, <2>1 DEF Owned, InUse
<1>4. /\ FreeAll(<<f>>) /\ arrived' = arrived
      /\ delivered' = Recorded(frameHolds[f]) \/ delivered' = delivered
  BY <1>3 DEF Process, Release
<1>5. Distinct(<<f>>, Frames) /\ ToSet(<<f>>) = {f} BY DistinctOne
<1>6. LinkTransit' = LinkTransit \ {Numbered(frameHolds[f])}
  <2>1. LinkTransit' = LinkTransit \ {Numbered(frameHolds[g]) : g \in ToSet(<<f>>)}
    BY <1>2, <1>3, <1>4, <1>5, FreedTransit
  <2> QED BY <1>5, <2>1
<1> DEFINE a == frameHolds[f]
<1>7. /\ a \in Arrival /\ Numbered(a) \in LinkTransit
      /\ Numbered(a)[1] = a.n /\ Numbered(a)[2] = LinkFlow(a.p)
      /\ Transport(a.p) => delivered[FlowOf(a.p)] < a.n /\ FlowOf(a.p) \in Flows
  BY <1>2, <1>3 DEF Numbering, Numbered, LinkTransit, Arrival, Flows
<1>8. delivered = [g \in Flows |-> delivered[g]] BY <1>2 DEF Shapes, CountShape
<1> HIDE DEF a
<1>9. CASE delivered' = delivered
  <2>1. Link!Lose BY <1>4, <1>6, <1>7, <1>9 DEF Link!Lose, a
  <2> QED BY <2>1 DEF Link!LinkNext
<1>10. CASE delivered' = Recorded(a)
  <2>1. CASE Transport(a.p)
    <3>1. LinkFlow(a.p) = FlowOf(a.p) /\ LinkFlow(a.p) # NoFlow
      BY <1>7, <2>1, NullAssumption DEF LinkFlow
    <3>2. delivered' = [delivered EXCEPT ![LinkFlow(a.p)] = a.n]
      BY <1>7, <1>8, <1>10, <2>1, <3>1 DEF Recorded
    <3>3. Link!Deliver(Numbered(a))
      BY <1>4, <1>6, <1>7, <2>1, <3>1, <3>2 DEF Link!Deliver, a
    <3> QED BY <1>7, <3>3 DEF Link!LinkNext
  <2>2. CASE ~Transport(a.p)
    <3>1. LinkFlow(a.p) = NoFlow BY <2>2 DEF LinkFlow
    <3>2. delivered' = delivered BY <1>8, <1>10, <3>1, NullAssumption DEF Recorded
    <3> QED BY <1>9, <3>2
  <2> QED BY <2>1, <2>2
<1> QED BY <1>4, <1>9, <1>10 DEF a

\* The other steps of the threads are not seen.
LEMMA UnmovedTransit ==
  ASSUME UNCHANGED <<frameHolds, arrived, delivered>>, InUse' = InUse
  PROVE  UNCHANGED Link!linkVars
BY DEF Link!linkVars, LinkTransit, Numbered

\* Whatever the threads, the pool and the fragments do, a flow sees no packet twice and
\* none before an earlier one of the same flow: the program is an ordered link.
THEOREM DataPathIsOrderedLink == Spec => ImplementsOrderedLink
<1>1. Init => Link!LinkInit
  BY DEF Init, DispatchInit, Link!LinkInit, LinkTransit, InUse
<1>2. DispatchInv /\ [Next]_vars => [Link!LinkNext]_(Link!linkVars)
  <2> SUFFICES ASSUME DispatchInv, [Next]_vars PROVE Link!LinkNext \/ UNCHANGED Link!linkVars
    OBVIOUS
  <2>1. Shapes /\ Numbering /\ (~ended => Owned) BY DEF DispatchInv
  <2>2. UNCHANGED <<poolVars, arrived, outVars>> => UNCHANGED Link!linkVars
    BY UnmovedTransit DEF poolVars, outVars, InUse
  <2>3. ASSUME NEW w \in Workers, Turn(w) PROVE UNCHANGED Link!linkVars
    <3>1. CASE Take(w)
      <4>1. ~ended BY <2>3 DEF DispatchInv, AtEnd, Turn
      <4> DEFINE f == Head(queues[w])
      <4>2. f \in Frames /\ frameState[f] = "RECEIVED"
        <5>1. Distinct(queues[w], Frames) /\ queues[w] # <<>>
          BY <2>1, <3>1 DEF Take, Distinct, Shapes, QueueShape
        <5>2. f \in Frames /\ f \in Queued(w) BY <5>1, DistinctTail DEF Queued
        <5> QED BY <2>1, <4>1, <5>2 DEF Owned
      <4>3. frameState' = [g \in Frames |->
              IF g \in {f} THEN Transition(frameState[g], "TRANSLATING", stop) ELSE frameState[g]]
        BY <3>1 DEF Take, Mark
      <4> HIDE DEF f
      <4>4. frameState'[f] = "TRANSLATING" /\ \A g \in Frames : g # f => frameState'[g] = frameState[g]
        BY <4>2, <4>3 DEF Transition, Allowed
      <4>5. InUse' = InUse BY <4>2, <4>4 DEF InUse
      <4> QED BY <2>3, <3>1, <4>5, UnmovedTransit DEF Turn, Take, outVars
    <3>2. CASE UNCHANGED dispatchVars BY <2>2, <2>3, <3>2 DEF Turn, dispatchVars
    <3> QED BY <2>3, <3>1, <3>2 DEF Turn, dispatchVars
  <2>4. ASSUME NEW w \in Workers, Woken(w) PROVE UNCHANGED Link!linkVars
    BY <2>2, <2>4 DEF Woken, Wait
  <2>5. ASSUME NEW w \in Workers, Process(w) PROVE Link!LinkNext BY <2>5, ProcessDelivers
  <2>6. ASSUME NEW w \in Workers, Leave(w) PROVE UNCHANGED Link!linkVars
    BY <2>2, <2>6 DEF Leave, dispatchVars
  <2>7. CASE MainReads BY <2>7, SubmitOffers DEF MainReads, Link!LinkNext
  <2>8. CASE MainExpires
    <3> DEFINE s == FlattenSeq([c \in Cells |-> DueChain(c)])
    <3>1. Owned BY <2>1, <2>8 DEF DispatchInv, AtEnd, MainExpires
    <3>2. FreeAll(s) /\ arrived' = arrived /\ delivered' = delivered
      BY <2>8 DEF MainExpires, Expire, DueChain, Elsewhere, outVars
    <3>3. Distinct(s, Frames) /\ ToSet(s) = UNION {Chained(c) : c \in {c \in Cells : Due(c)}}
      BY <2>1, <3>1, DeadFacts
    <3> HIDE DEF s
    <3>4. ToSet(s) \subseteq InUse BY <2>1, <3>1, <3>3, InUseFacts
    <3> QED BY <2>1, <3>1, <3>2, <3>3, <3>4, FreedLoses DEF Link!LinkNext
  <2>9. CASE MainStops BY <2>2, <2>9 DEF MainStops, Stop, Elsewhere
  <2>10. CASE MainEnds
    <3> DEFINE s == SetToSeq(InUse)
    <3>1. Owned BY <2>1, <2>10 DEF MainEnds
    <3>2. FreeAll(s) /\ arrived' = arrived /\ delivered' = delivered
      BY <2>10 DEF MainEnds, Destroy, InUse, outVars
    <3>3. IsFiniteSet(InUse) /\ InUse \subseteq Frames BY <2>1, <3>1, InUseFacts
    <3>4. Distinct(s, InUse) /\ ToSet(s) = InUse BY <3>3, SetToSeqLists
    <3> HIDE DEF s
    <3>5. Distinct(s, Frames) BY <3>3, <3>4 DEF Distinct
    <3> QED BY <2>1, <3>1, <3>2, <3>4, <3>5, FreedLoses DEF Link!LinkNext
  <2>11. CASE Terminate \/ Over \/ UNCHANGED vars
    BY <2>2, <2>11 DEF Terminate, Over, vars, dispatchVars
  <2>12. CASE Time BY <2>2, <2>12 DEF Time, Tick, Elsewhere
  <2> QED BY <2>3, <2>4, <2>5, <2>6, <2>7, <2>8, <2>9, <2>10, <2>11, <2>12 DEF Next
<1> QED BY <1>1, <1>2, DispatchAlways, PTL DEF Spec, ImplementsOrderedLink, Link!LinkSpec

=============================================================================
