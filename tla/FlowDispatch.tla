---------------------------- MODULE FlowDispatch ----------------------------
(***************************************************************************)
(* The software flow dispatcher (experimental_io.c, flow_dispatch.h): the  *)
(* main thread classifies what it reads from the TUN device, gives every   *)
(* flow a worker, holds fragments until the first fragment of their        *)
(* datagram tells the flow, and hands bounded frames to the workers.       *)
(*                                                                         *)
(* Every operation runs under dispatch.lock and is one action.  A packet   *)
(* is a record of what flow_parse reads of it; a hash value is the bucket  *)
(* or the fragment cell that it selects.                                   *)
(***************************************************************************)
EXTENDS PacketFrame, Integers, Sequences, FiniteSets, SequencesExt

CONSTANTS
  W,            \* number of workers
  Frames,       \* DISPATCH_FRAMES slots
  Reserve,      \* free frames that held fragments leave to others (32)
  MaxHeld,      \* fragments held for one datagram (8)
  Lifetime,     \* seconds a datagram may stay incomplete (30)
  Packets,      \* what can be read from the device
  Buckets,      \* of flow_queues
  BucketOf,     \* flow -> bucket, its hash
  Cells,        \* of fragments, 1..Cardinality
  CellOf,       \* datagram -> cell, its hash
  NoDatagram,   \* datagram of a packet that is not fragmented
  NoPacket,     \* what an empty frame holds, and the quote of no error
  MaxPackets,   \* bound on packets read
  MaxTime       \* bound on the clock

\* The pool is larger than the reserve (512 frames and 32), and tables are finite.
ASSUME DispatchAssumption ==
  /\ W \in Nat \ {0}
  /\ IsFiniteSet(Frames) /\ Reserve \in 0..Cardinality(Frames)
  /\ MaxHeld \in Nat /\ Lifetime \in Nat
  /\ IsFiniteSet(Buckets)
  /\ IsFiniteSet(Cells) /\ Cells = 1..Cardinality(Cells)
  /\ MaxPackets \in Nat /\ MaxTime \in Nat

Workers == 1..W

VARIABLES
  frameState,   \* [Frames -> FrameStates]
  frameHolds,   \* [Frames -> packets with their arrival number]
  freeSlots,    \* the stack of free frames
  queues,       \* [Workers -> Seq(Frames)]
  wake,         \* [Workers -> BOOLEAN], the event counters
  flowQueue,    \* [Buckets -> 0..W], 0 for a bucket not assigned yet
  nextQueue,    \* round robin
  fragments,    \* [Cells -> fragment entries]
  stop,         \* dispatch.stop and pool.stopping, set together
  clock, lastExpire,
  arrived,      \* packets read so far
  drops         \* dispatch_drops

poolVars == <<frameState, frameHolds, freeSlots>>
flowVars == <<flowQueue, nextQueue>>
queueVars == <<queues, wake>>
timeVars == <<clock, lastExpire>>
dispatchVars == <<poolVars, flowVars, queueVars, timeVars, fragments, stop, arrived, drops>>

----------------------------------------------------------------------------
(* flow_parse *)

\* Protocols whose header starts with ports, or with an echo identifier.
Ported == {"tcp", "udp", "echo"}
Fragmented(p) == p.datagram # NoDatagram

\* An ICMP error is of the flow of the packet it quotes, if that is known.
Quotes(p) == /\ p.proto = "error" /\ p.quote # NoPacket
             /\ p.quote.proto \in Ported /\ p.quote.first
FlowSource(p) == IF Quotes(p) THEN p.quote ELSE p

\* Both directions of a flow have one key.
FlowOf(p) == LET q == FlowSource(p) IN <<q.proto, {q.src, q.dst}>>
\* A later fragment has no ports.
Transport(p) == p.first /\ (p.proto \in Ported \/ Quotes(p))

\* Every hash value selects a slot of its table.
ASSUME HashAssumption == \A p \in Packets :
  /\ Transport(p) => BucketOf[FlowOf(p)] \in Buckets
  /\ Fragmented(p) => CellOf[p.datagram] \in Cells

----------------------------------------------------------------------------
(* dispatch_submit *)

Bucket(p) == BucketOf[FlowOf(p)]
\* Mutant: the bucket is not remembered.
FlowQueues_EveryPacket(p) ==
  IF Transport(p) THEN [flowQueue EXCEPT ![Bucket(p)] = 1 + (nextQueue % W)] ELSE flowQueue
FlowQueues(p) ==
  IF Transport(p) /\ flowQueue[Bucket(p)] = 0
  THEN [flowQueue EXCEPT ![Bucket(p)] = 1 + (nextQueue % W)] ELSE flowQueue
QueueOf(p) == IF Transport(p) THEN FlowQueues(p)[Bucket(p)] ELSE 1

Unused == [used |-> FALSE, key |-> NoDatagram, resolved |-> 0, queue |-> 0,
           held |-> <<>>, deadline |-> 0]

\* The entry as the code finds it, set up if its cell was never used.
Entry(p) ==
  LET e == fragments[CellOf[p.datagram]]
  IN IF e.used THEN e
     ELSE [e EXCEPT !.used = TRUE, !.key = p.datagram, !.deadline = clock + Lifetime]

\* Another datagram in the cell, a tombstone, too late, or the chain is full.
Refused(p, e) ==
  \/ e.key # p.datagram
  \/ e.resolved = 2
  \/ clock >= e.deadline
  \/ e.resolved = 0 /\ ~p.first /\ Len(e.held) = MaxHeld
\* A first fragment that belongs to another queue than the first one seen.
Contradicts(p, e) == p.first /\ e.resolved = 1 /\ e.queue # QueueOf(p)

Resolved(p, e) ==
  IF p.first THEN [e EXCEPT !.resolved = 1, !.queue = QueueOf(p)] ELSE e

\* No frame can be had; held fragments leave Reserve frames to others.
NoRoom(hold) == stop \/ freeSlots = <<>> \/ (hold /\ Len(freeSlots) <= Reserve)

\* Mutant: the count is tested after it was increased.
Queue_NeverWakes(q, s) ==
  /\ queues' = [queues EXCEPT ![q] = @ \o s]
  /\ wake' = [wake EXCEPT ![q] = @ \/ Len(queues[q]) = 1]
\* dispatch_queue_locked for each frame of s: the first one in an empty queue wakes.
Queue(q, s) ==
  /\ queues' = [queues EXCEPT ![q] = @ \o s]
  /\ wake' = [wake EXCEPT ![q] = @ \/ queues[q] = <<>>]

Acquire(p) ==
  LET f == Last(freeSlots)
  IN /\ freeSlots' = Front(freeSlots)
     /\ frameState' = [frameState EXCEPT ![f] = "RECEIVED"]
     /\ frameHolds' = [frameHolds EXCEPT ![f] = [n |-> arrived + 1, p |-> p]]

Drop == drops' = drops + 1 /\ UNCHANGED <<poolVars, queueVars>>

Classify(p) ==
  /\ arrived < MaxPackets
  /\ arrived' = arrived + 1
  /\ flowQueue' = FlowQueues(p)
  /\ nextQueue' = IF flowQueue' = flowQueue THEN nextQueue ELSE nextQueue + 1

\* flow_parse refuses the packet.
SubmitMalformed(p) ==
  /\ p.proto = "malformed"
  /\ arrived < MaxPackets
  /\ arrived' = arrived + 1
  /\ Drop
  /\ UNCHANGED <<flowVars, timeVars, fragments, stop>>

SubmitWhole(p) ==
  /\ p.proto # "malformed" /\ ~Fragmented(p)
  /\ Classify(p)
  /\ IF NoRoom(FALSE) THEN Drop
     ELSE Acquire(p) /\ Queue(QueueOf(p), <<Last(freeSlots)>>) /\ UNCHANGED drops
  /\ UNCHANGED <<timeVars, fragments, stop>>

SetEntry(p, e) == fragments' = [fragments EXCEPT ![CellOf[p.datagram]] = e]

RefuseFragment(p) ==
  LET e == Entry(p)
  IN /\ Refused(p, e) \/ Contradicts(p, e)
     /\ SetEntry(p, IF Refused(p, e) THEN e ELSE [e EXCEPT !.resolved = 2])
     /\ Drop

\* The first fragment is not known yet: hold this one.
HoldFragment(p) ==
  LET e == Resolved(p, Entry(p))
  IN /\ ~Refused(p, Entry(p)) /\ e.resolved = 0
     /\ IF NoRoom(TRUE) THEN Drop /\ SetEntry(p, e)
        ELSE /\ Acquire(p)
             /\ SetEntry(p, [e EXCEPT !.held = Append(@, Last(freeSlots))])
             /\ UNCHANGED <<queueVars, drops>>

\* The queue is known: the fragment first, then those held for it.  The entry
\* is resolved before the code looks for room.
PassFragment(p) ==
  LET e == Resolved(p, Entry(p))
  IN /\ ~Refused(p, Entry(p)) /\ ~Contradicts(p, Entry(p)) /\ e.resolved = 1
     /\ IF NoRoom(FALSE) THEN Drop /\ SetEntry(p, e)
        ELSE /\ Acquire(p)
             /\ Queue(e.queue, <<Last(freeSlots)>> \o e.held)
             /\ SetEntry(p, [e EXCEPT !.held = <<>>])
             /\ UNCHANGED drops

SubmitFragment(p) ==
  /\ p.proto # "malformed" /\ Fragmented(p)
  /\ Classify(p)
  /\ RefuseFragment(p) \/ HoldFragment(p) \/ PassFragment(p)
  /\ UNCHANGED <<timeVars, stop>>

----------------------------------------------------------------------------
(* The other operations.  Take, Release and Forget leave the calling thread's *)
(* own state to the module that composes them.                                *)

Mark(s, to) ==
  frameState' = [f \in Frames |->
    IF f \in s THEN Transition(frameState[f], to, stop) ELSE frameState[f]]

\* dispatch_take of a queue that is not empty.
Take(w) ==
  /\ queues[w] # <<>>
  /\ Mark({Head(queues[w])}, "TRANSLATING")
  /\ queues' = [queues EXCEPT ![w] = Tail(@)]
  /\ UNCHANGED <<frameHolds, freeSlots, wake, flowVars, timeVars, fragments, stop, arrived, drops>>

\* dispatch_free_locked for each frame of s.
FreeAll(s) ==
  /\ Mark(ToSet(s), "FREE")
  /\ frameHolds' = [f \in Frames |-> IF f \in ToSet(s) THEN NoPacket ELSE frameHolds[f]]
  /\ freeSlots' = freeSlots \o s

\* dispatch_release
Release(f) ==
  /\ FreeAll(<<f>>)
  /\ UNCHANGED <<queueVars, flowVars, timeVars, fragments, stop, arrived, drops>>

\* dispatch_wait returns: signalled, or after its timeout.
Wait(w) ==
  /\ wake' = [wake EXCEPT ![w] = FALSE]
  /\ UNCHANGED <<poolVars, queues, flowVars, timeVars, fragments, stop, arrived, drops>>

Due(c) == /\ fragments[c].used /\ fragments[c].resolved # 2
          /\ clock >= fragments[c].deadline

\* Mutant: the chain is freed but not emptied.
Tombstone_KeepsChain(e) == [e EXCEPT !.resolved = 2]

\* Mutant: the cell can be used again.
Tombstone_Reusable(e) == Unused
\* What is left of an entry whose time is over: never assigned again.
Tombstone(e) == [e EXCEPT !.held = <<>>, !.resolved = 2]

\* dispatch_expire, at most once in a second.
Expire ==
  /\ clock # lastExpire
  /\ lastExpire' = clock
  /\ LET dead == FlattenSeq([c \in Cells |-> IF Due(c) THEN fragments[c].held ELSE <<>>])
     IN FreeAll(dead) /\ drops' = drops + Len(dead)
  /\ fragments' = [c \in Cells |->
       IF Due(c) THEN Tombstone(fragments[c]) ELSE fragments[c]]
  /\ UNCHANGED <<queueVars, flowVars, clock, stop, arrived>>

Tick ==
  /\ clock < MaxTime
  /\ clock' = clock + 1
  /\ UNCHANGED <<poolVars, queueVars, flowVars, lastExpire, fragments, stop, arrived, drops>>

\* dispatch_stop
Stop ==
  /\ stop' = TRUE
  /\ UNCHANGED <<poolVars, queueVars, flowVars, timeVars, fragments, arrived, drops>>

\* Mutant: the frames left are not counted.
Destroy_Uncounted ==
  /\ FreeAll(SetToSeq({f \in Frames : frameState[f] # "FREE"}))
  /\ UNCHANGED <<queueVars, flowVars, timeVars, fragments, stop, arrived, drops>>
\* dispatch_destroy, after every worker was joined: the frames still in use
\* are dropped and counted, then the backend is closed.
Destroy ==
  LET left == SetToSeq({f \in Frames : frameState[f] # "FREE"})
  IN /\ FreeAll(left)
     /\ drops' = drops + Len(left)
     /\ UNCHANGED <<queueVars, flowVars, timeVars, fragments, stop, arrived>>

DispatchInit ==
  /\ frameState = [f \in Frames |-> "FREE"]
  /\ frameHolds = [f \in Frames |-> NoPacket]
  /\ freeSlots = SetToSeq(Frames)
  /\ queues = [w \in Workers |-> <<>>] /\ wake = [w \in Workers |-> FALSE]
  /\ flowQueue = [b \in Buckets |-> 0] /\ nextQueue = 0
  /\ fragments = [c \in Cells |-> Unused]
  /\ stop = FALSE
  /\ clock = 0 /\ lastExpire = 0
  /\ arrived = 0 /\ drops = 0

Submit ==
  \E p \in Packets : SubmitMalformed(p) \/ SubmitWhole(p) \/ SubmitFragment(p)
============================================================================
