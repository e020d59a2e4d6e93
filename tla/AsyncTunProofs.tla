---------------------------- MODULE AsyncTunProofs ----------------------------
(* Lemmas about one transmit context: each call of experimental_io.c, as AsyncTun has it,
   keeps what ownership and order of the frames (Good) and the counters (Active) need.
   LifecycleProofs puts them together for the whole process. *)
EXTENDS AsyncTun, FiniteSetTheorems, WellFoundedInduction, TLAPS

\* A transmit context: its frames, the queue of packets waiting to be written, the
\* one write the kernel may have, and the counters.
Context ==
  [frames : [Slot -> FrameStates],
   data : [Slot -> (Writers \X Nat) \cup {NoData}],
   counted : [Slot -> BOOLEAN],
   queue : Seq(Slot), cursor : Slot,
   outstanding : BOOLEAN, failed : BOOLEAN, stopping : BOOLEAN,
   kernel : Slot \cup {NoSlot},
   answer : (Slot \cup {NoSlot}) \X {"full", "lost", "fatal"},
   accepted : Nat, completed : Nat, errors : Nat,
   storage : {"none", "live", "freed"}]

\* Who has a frame: a write the kernel has, or has answered, is the one outstanding
\* write and its frame is submitted; a queued frame waits and is queued once.
Owned(c) ==
  /\ c.kernel # NoSlot =>
       /\ c.outstanding /\ c.frames[c.kernel] = "TX_SUBMITTED"
       /\ c.answer[1] = NoSlot /\ c.storage = "live"
  /\ c.answer[1] # NoSlot => c.outstanding /\ c.frames[c.answer[1]] = "TX_SUBMITTED"
  /\ \A i \in DOMAIN c.queue : c.frames[c.queue[i]] = "PENDING_TX"
  /\ \A i, j \in DOMAIN c.queue : i # j => c.queue[i] # c.queue[j]

\* The number of the packet frame s holds.
Number(c, s) == c.data[s][2]

\* Frame s holds a packet of thread w, accepted among the first n and later than
\* everything in out, what the device has of w.
Between(c, s, w, n, out) ==
  /\ c.data[s] \in {w} \X Nat
  /\ Number(c, s) <= n
  /\ \A m \in out : m < Number(c, s)

\* What is written next was accepted after what is written, and the queue is in the
\* order of acceptance.
Ordered(c, w, n, out) ==
  /\ \A m \in out : m <= n
  /\ c.kernel # NoSlot => Between(c, c.kernel, w, n, out)
  /\ \A i \in DOMAIN c.queue : Between(c, c.queue[i], w, n, out)
  /\ c.kernel # NoSlot => \A i \in DOMAIN c.queue : Number(c, c.kernel) < Number(c, c.queue[i])
  /\ \A i, j \in DOMAIN c.queue : i < j => Number(c, c.queue[i]) < Number(c, c.queue[j])

\* The invariant of one context behind KernelOwnsFrame and WireInOrder.
Good(c, w, n, out) == c \in Context /\ Owned(c) /\ Ordered(c, w, n, out)

\* Every waiting frame is in the queue, and at most one frame is submitted.
Filed(c) ==
  /\ \A s \in Slot : c.frames[s] = "PENDING_TX" => \E i \in DOMAIN c.queue : c.queue[i] = s
  /\ \A s \in Slot : c.frames[s] = "TX_SUBMITTED" => c.outstanding
  /\ \A s, t \in Slot : c.frames[s] = "TX_SUBMITTED" /\ c.frames[t] = "TX_SUBMITTED" => s = t

\* What was accepted is written, failed, or in a frame not counted yet.
Tallied(c) == c.accepted = c.completed + c.errors + Cardinality(Uncounted(c))

\* Frames that hold a packet; none of them is counted while the thread runs.
Busy(c) == {s \in Slot : c.frames[s] \in {"PENDING_TX", "TX_SUBMITTED"}}
Open(c) == \A s \in Busy(c) : ~c.counted[s]

\* The part of Good the counters need.
Sound(c) == c \in Context /\ Owned(c)

\* The invariant of the counters while the thread runs: before async_tun_finish
\* gives up what is left, which counts frames that keep their packet.
Active(c) == Filed(c) /\ Tallied(c) /\ Open(c)

----------------------------------------------------------------------------
\* Frames are numbered from zero, and NoSlot is none of them.
LEMMA SlotFacts == Slots \in Nat \ {0} /\ NoSlot \notin Slot /\ Slot \subseteq Nat
BY AsyncAssumption DEF Slot

\* Remainders, as the search for a free frame takes them.
LEMMA ModSmall == ASSUME NEW N \in Nat \ {0}, NEW s \in 0..N-1 PROVE s % N = s
OBVIOUS

\* Once around.
LEMMA ModOnce == ASSUME NEW N \in Nat \ {0}, NEW s \in 0..N-1 PROVE (s+N) % N = s
OBVIOUS

\* A remainder is below the divisor.
LEMMA ModRange == ASSUME NEW N \in Nat \ {0}, NEW s \in Nat PROVE s % N \in 0..N-1
OBVIOUS
\* Every set of numbers has a least one.
LEMMA Least == ASSUME NEW T \in SUBSET Nat, T # {} PROVE \E m \in T : \A k \in T : m <= k
<1> DEFINE Below == {0..n-1 : n \in T}
<1>1. Below # {} /\ Below \subseteq FiniteSubsetsOf(Nat)
  <2>1. ASSUME NEW n \in T PROVE 0..n-1 \in FiniteSubsetsOf(Nat)
    <3>1. IsFiniteSet(0..n-1) BY FS_Interval
    <3>2. 0..n-1 \in SUBSET Nat OBVIOUS
    <3> QED BY <3>1, <3>2 DEF FiniteSubsetsOf
  <2>2. Below \subseteq FiniteSubsetsOf(Nat) BY <2>1
  <2>3. Below # {} OBVIOUS
  <2> QED BY <2>2, <2>3
<1>2. PICK B \in Below : \A C \in Below : ~ (<<C, B>> \in StrictSubsetOrdering(Nat))
  <2>1. IsWellFoundedOn(StrictSubsetOrdering(Nat), FiniteSubsetsOf(Nat))
    BY FS_StrictSubsetOrderingWellFounded
  <2> HIDE DEF Below
  <2> QED BY <2>1, <1>1, WFMin
<1>3. PICK m \in T : B = 0..m-1
  OBVIOUS
<1>4. ASSUME NEW k \in T, k < m PROVE FALSE
  <2>1. <<0..k-1, B>> \notin StrictSubsetOrdering(Nat)
    BY <1>2
  <2>2. 0..k-1 \subseteq B /\ 0..k-1 # B
    <3>1. k \in B /\ k \notin 0..k-1 BY <1>3, <1>4
    <3> QED BY <3>1, <1>3, <1>4
  <2>3. 0..k-1 \in FiniteSubsetsOf(Nat) /\ B \in FiniteSubsetsOf(Nat) BY <1>1
  <2> QED BY <2>1, <2>2, <2>3 DEF StrictSubsetOrdering, FiniteSubsetsOf
<1> QED BY <1>4

\* When a frame can be taken, the search around the ring finds one that can.
LEMMA ChosenFree ==
  ASSUME NEW c \in Context, FreeSlots(c) # {}
  PROVE  Chosen(c) \in FreeSlots(c)
<1> USE SlotFacts
<1> DEFINE T == {m \in Slot : After(c, m) \in FreeSlots(c)}
<1>1. PICK s \in Slot : s \in FreeSlots(c)
  BY DEF FreeSlots
<1>2. c.cursor \in Slot BY DEF Context
<1>3. T # {}
  <2>1. CASE s >= c.cursor
    <3>1. s - c.cursor \in Slot /\ (c.cursor + (s - c.cursor)) % Slots = s
      <4>1. c.cursor + (s - c.cursor) = s BY <1>1, <1>2 DEF Slot
      <4>2. s % Slots = s BY <1>1, ModSmall DEF Slot
      <4> QED BY <1>1, <1>2, <2>1, <4>1, <4>2 DEF Slot
    <3> QED BY <1>1, <3>1 DEF After
  <2>2. CASE s < c.cursor
    <3>1. s - c.cursor + Slots \in Slot /\ (c.cursor + (s - c.cursor + Slots)) % Slots = s
      <4>1. c.cursor + (s - c.cursor + Slots) = s + Slots BY <1>1, <1>2 DEF Slot
      <4>2. (s + Slots) % Slots = s BY <1>1, ModOnce DEF Slot
      <4> QED BY <1>1, <1>2, <2>2, <4>1, <4>2 DEF Slot
    <3> QED BY <1>1, <3>1 DEF After
  <2> QED BY <1>1, <1>2, <2>1, <2>2 DEF Slot
<1>4. PICK m \in T : \A k \in T : m <= k
  <2>1. T \in SUBSET Nat BY DEF Slot
  <2> HIDE DEF T
  <2> QED BY <1>3, <2>1, Least
<1>5. /\ m \in Slot /\ After(c, m) \in FreeSlots(c)
      /\ \A k \in 0..m-1 : After(c, k) \notin FreeSlots(c)
  <2>1. ASSUME NEW k \in 0..m-1, After(c, k) \in FreeSlots(c) PROVE FALSE
    <3>1. k \in T /\ k < m BY <2>1, <1>4 DEF Slot
    <3> QED BY <3>1, <1>4 DEF Slot
  <2> QED BY <2>1
<1> QED BY <1>5 DEF Chosen

\* Sets of frames are finite, so counting them gives a number.
LEMMA SlotsFinite ==
  ASSUME NEW T \in SUBSET Slot
  PROVE  IsFiniteSet(T) /\ Cardinality(T) \in Nat
<1>1. IsFiniteSet(Slot) BY SlotFacts, FS_Interval DEF Slot
<1> QED BY <1>1, FS_Subset, FS_CardinalityType

----------------------------------------------------------------------------
\* What the calls build of a context is a context.
LEMMA CompletedContext ==
  ASSUME NEW c, c \in Context, NEW frames \in [Slot -> FrameStates],
         NEW data \in [Slot -> (Writers \X Nat) \cup {NoData}],
         NEW counted \in [Slot -> BOOLEAN], NEW completed \in Nat, NEW errors \in Nat,
         NEW failed \in BOOLEAN
  PROVE  [c EXCEPT !.frames = frames, !.data = data, !.outstanding = FALSE,
                   !.counted = counted, !.completed = completed, !.errors = errors,
                   !.failed = failed, !.answer = <<NoSlot, "full">>] \in Context
BY DEF Context

\* Likewise for a publication.
LEMMA PublishedContext ==
  ASSUME NEW c, c \in Context, NEW frames \in [Slot -> FrameStates],
         NEW queue \in Seq(Slot), NEW kernel \in Slot \cup {NoSlot}, NEW failed \in BOOLEAN
  PROVE  [c EXCEPT !.frames = frames, !.outstanding = TRUE, !.queue = queue,
                   !.kernel = kernel, !.failed = failed] \in Context
BY DEF Context

\* Likewise for an accepted packet.
LEMMA EnqueuedContext ==
  ASSUME NEW c, c \in Context, NEW frames \in [Slot -> FrameStates],
         NEW data \in [Slot -> (Writers \X Nat) \cup {NoData}],
         NEW counted \in [Slot -> BOOLEAN], NEW cursor \in Slot, NEW queue \in Seq(Slot),
         NEW accepted \in Nat
  PROVE  [c EXCEPT !.frames = frames, !.data = data, !.counted = counted,
                   !.cursor = cursor, !.queue = queue, !.accepted = accepted] \in Context
BY DEF Context

\* The completion of frame s turns context c into d.
Completes(c, d, s) ==
  /\ s \in Slot /\ c.frames[s] = "TX_SUBMITTED" /\ c.kernel = NoSlot
  /\ d \in Context
  /\ d.frames = [c.frames EXCEPT ![s] = "FREE"]
  /\ d.data = [c.data EXCEPT ![s] = NoData]
  /\ d.queue = c.queue /\ d.kernel = NoSlot /\ ~d.outstanding
  /\ d.answer[1] = NoSlot /\ d.storage = c.storage
  /\ d.accepted = c.accepted
  /\ d.completed + d.errors = c.completed + c.errors + 1
  /\ \A t \in Slot : t # s /\ d.counted[t] => c.counted[t]

\* Its frame s is published.
Publishes(c, d, s) ==
  /\ s \in Slot /\ 1 \in DOMAIN c.queue /\ s = c.queue[1]
  /\ c.frames[s] = "PENDING_TX" /\ c.kernel = NoSlot /\ c.answer[1] = NoSlot
  /\ d \in Context
  /\ d.frames = [c.frames EXCEPT ![s] = "TX_SUBMITTED"]
  /\ d.data = c.data /\ d.counted = c.counted
  /\ d.queue = Tail(c.queue) /\ d.kernel \in {NoSlot, s} /\ d.outstanding
  /\ d.answer = c.answer /\ d.storage = c.storage
  /\ d.accepted = c.accepted /\ d.completed = c.completed /\ d.errors = c.errors

\* Its frame s takes a packet and is queued.
Enqueues(c, d, s, packet) ==
  /\ s \in Slot /\ c.frames[s] = "FREE"
  /\ d \in Context
  /\ d.frames = [c.frames EXCEPT ![s] = "PENDING_TX"]
  /\ d.data = [c.data EXCEPT ![s] = packet]
  /\ d.queue = Append(c.queue, s) /\ d.kernel = c.kernel
  /\ d.outstanding = c.outstanding /\ d.answer = c.answer /\ d.storage = c.storage
  /\ d.accepted = c.accepted + 1 /\ d.completed = c.completed /\ d.errors = c.errors
  /\ ~d.counted[s] /\ \A t \in Slot : t # s /\ d.counted[t] => c.counted[t]

\* A completion frees the submitted frame and counts it once, as written or failed.
LEMMA CompletedFields ==
  ASSUME NEW c, Sound(c), Answered(c), ~Stray(c)
  PROVE  Completes(c, Completed(c), c.answer[1])
<1> USE SlotFacts
<1>1. c \in Context /\ Owned(c) BY DEF Sound
<1>2. PICK d : d = Completed(c) OBVIOUS
<1>3. PICK s : s = c.answer[1] OBVIOUS
<1> DEFINE frames == [c.frames EXCEPT ![s] = "FREE"]
<1> DEFINE data == [c.data EXCEPT ![s] = NoData]
<1> DEFINE counted == [c.counted EXCEPT ![s] = @ \/ c.answer[2] # "full"]
<1> DEFINE completed == IF c.answer[2] = "full" THEN c.completed + 1 ELSE c.completed
<1> DEFINE errors == IF c.answer[2] = "full" THEN c.errors ELSE c.errors + 1
<1> DEFINE failed == c.failed \/ c.answer[2] = "fatal"
<1>4. s \in Slot /\ c.frames[s] = "TX_SUBMITTED" /\ c.kernel = NoSlot
  BY <1>1, <1>3 DEF Context, Owned, Answered
<1>5. d = [c EXCEPT !.frames = frames, !.data = data, !.outstanding = FALSE,
                    !.counted = counted, !.completed = completed, !.errors = errors,
                    !.failed = failed, !.answer = <<NoSlot, "full">>]
  <2>1. Transition(Transition(c.frames[s], "COMPLETED", c.stopping), "FREE", c.stopping) = "FREE"
    BY <1>4 DEF Transition, Allowed
  <2> QED BY <1>2, <1>3, <2>1 DEF Completed
<1>6. frames \in [Slot -> FrameStates] /\ data \in [Slot -> (Writers \X Nat) \cup {NoData}]
  BY <1>1, <1>4 DEF Context, FrameStates, Receiving
<1>7. counted \in [Slot -> BOOLEAN]
  BY <1>1, <1>4 DEF Context
<1>8. failed \in BOOLEAN
  OBVIOUS
<1>9. completed \in Nat /\ errors \in Nat /\ completed + errors = c.completed + c.errors + 1
  BY <1>1 DEF Context
<1> HIDE DEF frames, data, counted, completed, errors, failed
<1>10. d \in Context
  <2>1. [c EXCEPT !.frames = frames, !.data = data, !.outstanding = FALSE,
                  !.counted = counted, !.completed = completed, !.errors = errors,
                  !.failed = failed, !.answer = <<NoSlot, "full">>] \in Context
    BY <1>1, <1>6, <1>7, <1>9, <1>8, CompletedContext
  <2> QED BY <1>5, <2>1
<1>11. /\ d.frames = frames /\ d.data = data /\ d.counted = counted
      /\ d.queue = c.queue /\ d.kernel = c.kernel /\ ~d.outstanding
      /\ d.answer = <<NoSlot, "full">> /\ d.storage = c.storage /\ d.accepted = c.accepted
      /\ d.completed = completed /\ d.errors = errors
  BY <1>1, <1>5 DEF Context
<1>12. \A t \in Slot : t # s /\ d.counted[t] => c.counted[t]
  BY <1>1, <1>11 DEF Context, counted
<1>13. Completes(c, d, s)
  BY <1>4, <1>9, <1>10, <1>11, <1>12 DEF frames, data, Completes
<1> QED BY <1>2, <1>3, <1>13

\* A publication takes the frame at the head of the queue, which no write uses.
LEMMA PublishedFields ==
  ASSUME NEW c, Sound(c), Publishable(c), NEW how \in Submitted
  PROVE  Publishes(c, Published(c, how), Head(c.queue))
<1> USE SlotFacts
<1>1. c \in Context /\ Owned(c) BY DEF Sound
<1>2. PICK d : d = Published(c, how) OBVIOUS
<1>3. PICK s : s = Head(c.queue) OBVIOUS
<1> DEFINE frames == [c.frames EXCEPT ![s] = "TX_SUBMITTED"]
<1> DEFINE queue == Tail(c.queue)
<1> DEFINE kernel == IF how = "refused" THEN NoSlot ELSE s
<1> DEFINE failed == how # "taken"
<1>4. c.queue \in Seq(Slot) /\ c.queue # <<>> /\ ~c.outstanding
  BY <1>1 DEF Context, Publishable
<1>5. s \in Slot /\ s = c.queue[1] /\ 1 \in DOMAIN c.queue /\ c.frames[s] = "PENDING_TX"
  BY <1>1, <1>3, <1>4 DEF Owned
<1>6. c.kernel = NoSlot /\ c.answer[1] = NoSlot
  BY <1>1, <1>3, <1>4 DEF Owned
<1>7. d = [c EXCEPT !.frames = frames, !.outstanding = TRUE, !.queue = queue,
                    !.kernel = kernel, !.failed = failed]
  BY <1>2, <1>3, <1>5 DEF Published, Transition, Allowed
<1>8. frames \in [Slot -> FrameStates] /\ queue \in Seq(Slot)
  BY <1>1, <1>4, <1>5 DEF Context, FrameStates, Sending
<1>9. kernel \in {NoSlot, s}
  OBVIOUS
<1>10. failed \in BOOLEAN
  OBVIOUS
<1> HIDE DEF frames, queue, kernel, failed
<1>11. d \in Context
  <2>1. [c EXCEPT !.frames = frames, !.outstanding = TRUE, !.queue = queue,
                  !.kernel = kernel, !.failed = failed] \in Context
    BY <1>1, <1>5, <1>8, <1>9, <1>10, PublishedContext
  <2> QED BY <1>7, <2>1
<1>12. /\ d.frames = frames /\ d.data = c.data /\ d.counted = c.counted
      /\ d.queue = queue /\ d.kernel = kernel /\ d.outstanding
      /\ d.answer = c.answer /\ d.storage = c.storage
      /\ d.accepted = c.accepted /\ d.completed = c.completed /\ d.errors = c.errors
  BY <1>1, <1>7 DEF Context
<1>13. Publishes(c, d, s)
  BY <1>5, <1>6, <1>9, <1>11, <1>12 DEF frames, queue, Publishes
<1> QED BY <1>2, <1>3, <1>13

\* An accepted packet takes a free frame, behind everything queued.
LEMMA EnqueuedFields ==
  ASSUME NEW c, Sound(c), FreeSlots(c) # {}, NEW packet \in Writers \X Nat
  PROVE  Enqueues(c, Enqueued(c, packet), Chosen(c), packet)
<1> USE SlotFacts
<1>1. c \in Context /\ Owned(c) BY DEF Sound
<1>2. PICK d : d = Enqueued(c, packet) OBVIOUS
<1>3. PICK s : s = Chosen(c) OBVIOUS
<1> DEFINE frames == [c.frames EXCEPT ![s] = "PENDING_TX"]
<1> DEFINE data == [c.data EXCEPT ![s] = packet]
<1> DEFINE counted == [c.counted EXCEPT ![s] = FALSE]
<1> DEFINE queue == Append(c.queue, s)
<1> DEFINE cursor == (s + 1) % Slots
<1>4. s \in Slot /\ c.frames[s] = "FREE"
  BY <1>1, <1>3, ChosenFree DEF FreeSlots, Acquirable
<1>5. d = [c EXCEPT !.frames = frames, !.data = data, !.counted = counted,
                    !.cursor = cursor, !.queue = queue, !.accepted = c.accepted + 1]
  BY <1>1, <1>2, <1>3 DEF Enqueued, Context
<1>6. frames \in [Slot -> FrameStates] /\ data \in [Slot -> (Writers \X Nat) \cup {NoData}]
  BY <1>1, <1>4 DEF Context, FrameStates, Sending
<1>7. counted \in [Slot -> BOOLEAN] /\ queue \in Seq(Slot)
  BY <1>1, <1>4 DEF Context
<1>8. cursor \in Slot
  <2>1. s + 1 \in Nat BY <1>4 DEF Slot
  <2> QED BY <2>1, ModRange DEF Slot
<1>9. c.accepted + 1 \in Nat BY <1>1 DEF Context
<1> HIDE DEF frames, data, counted, queue, cursor
<1>10. d \in Context
  <2>1. [c EXCEPT !.frames = frames, !.data = data, !.counted = counted,
                  !.cursor = cursor, !.queue = queue, !.accepted = c.accepted + 1] \in Context
    BY <1>1, <1>6, <1>7, <1>8, <1>9, EnqueuedContext
  <2> QED BY <1>5, <2>1
<1>11. /\ d.frames = frames /\ d.data = data /\ d.counted = counted
      /\ d.queue = queue /\ d.kernel = c.kernel
      /\ d.outstanding = c.outstanding /\ d.answer = c.answer /\ d.storage = c.storage
      /\ d.accepted = c.accepted + 1 /\ d.completed = c.completed /\ d.errors = c.errors
  BY <1>1, <1>5 DEF Context
<1>12. ~d.counted[s] /\ \A t \in Slot : t # s /\ d.counted[t] => c.counted[t]
  BY <1>1, <1>4, <1>11 DEF Context, counted
<1>13. Enqueues(c, d, s, packet)
  BY <1>4, <1>10, <1>11, <1>12 DEF frames, data, queue, Enqueues
<1> QED BY <1>2, <1>3, <1>13

----------------------------------------------------------------------------
\* Good contains what the counters need.
LEMMA GoodSound ==
  ASSUME NEW w, NEW n, NEW out, NEW c, Good(c, w, n, out)
  PROVE  Sound(c)
BY DEF Good, Sound

\* A completion keeps a context good: the frame it frees is not in the queue.
LEMMA CompletedGood ==
  ASSUME NEW w \in Writers, NEW n \in Nat, NEW out \in SUBSET Nat, NEW c,
         Good(c, w, n, out), Answered(c), ~Stray(c)
  PROVE  Good(Completed(c), w, n, out)
<1> USE SlotFacts
<1>1. PICK d : d = Completed(c) OBVIOUS
<1>2. PICK s : s = c.answer[1] OBVIOUS
<1>3. c \in Context /\ Owned(c) /\ Ordered(c, w, n, out) BY DEF Good
<1>4. /\ s \in Slot /\ c.frames[s] = "TX_SUBMITTED" /\ d \in Context
      /\ d.frames = [c.frames EXCEPT ![s] = "FREE"] /\ d.data = [c.data EXCEPT ![s] = NoData]
      /\ d.queue = c.queue /\ d.kernel = NoSlot /\ d.answer[1] = NoSlot
  <2>1. Completes(c, d, s) BY <1>1, <1>2, CompletedFields, GoodSound
  <2> QED BY <2>1 DEF Completes
<1>5. \A i \in DOMAIN c.queue : c.queue[i] \in Slot /\ c.queue[i] # s
  BY <1>3, <1>4 DEF Context, Owned
<1>6. Owned(d) BY <1>3, <1>4, <1>5 DEF Owned, Context
<1>7. \A i \in DOMAIN c.queue : d.data[d.queue[i]] = c.data[c.queue[i]]
  BY <1>3, <1>4, <1>5 DEF Context
<1>8. Ordered(d, w, n, out) BY <1>3, <1>4, <1>7 DEF Ordered, Between, Number
<1> QED BY <1>4, <1>6, <1>8, <1>1 DEF Good

\* So does reading the completion queue, whether it holds a completion, a stray one or none.
LEMMA DrainedGood ==
  ASSUME NEW w \in Writers, NEW n \in Nat, NEW out \in SUBSET Nat, NEW c,
         Good(c, w, n, out)
  PROVE  Good(Drained(c), w, n, out)
<1>1. CASE ~Answered(c)
  BY <1>1 DEF Drained
<1>2. CASE Answered(c) /\ Stray(c)
  <2> DEFINE d == [c EXCEPT !.failed = TRUE, !.answer = <<NoSlot, "full">>]
  <2>1. d \in Context /\ d.answer[1] = NoSlot BY DEF Good, Context
  <2>2. d.frames = c.frames /\ d.queue = c.queue /\ d.kernel = c.kernel /\ d.data = c.data
        /\ d.outstanding = c.outstanding /\ d.storage = c.storage
    BY DEF Good, Context
  <2> HIDE DEF d
  <2>3. Good(d, w, n, out)
    BY <1>2, <2>1, <2>2 DEF Good, Owned, Ordered, Between, Number, Answered
  <2> QED BY <1>2, <2>3 DEF Drained, d
<1>3. CASE Answered(c) /\ ~Stray(c)
  BY <1>3, CompletedGood DEF Drained
<1> QED BY <1>1, <1>2, <1>3

\* Draining leaves the storage alone.
LEMMA DrainedStorage == ASSUME NEW c \in Context PROVE Drained(c).storage = c.storage
BY DEF Context, Drained, Completed

\* Publishing a write keeps a context good: the head of the queue is the oldest packet.
LEMMA PublishedGood ==
  ASSUME NEW w \in Writers, NEW n \in Nat, NEW out \in SUBSET Nat, NEW c, NEW how \in Submitted,
         Good(c, w, n, out), Publishable(c), c.storage = "live"
  PROVE  Good(Published(c, how), w, n, out)
<1> USE SlotFacts
<1>1. PICK d : d = Published(c, how) OBVIOUS
<1>2. PICK s : s = Head(c.queue) OBVIOUS
<1>3. c \in Context /\ Owned(c) /\ Ordered(c, w, n, out) BY DEF Good
<1>4. /\ s \in Slot /\ 1 \in DOMAIN c.queue /\ s = c.queue[1]
      /\ c.frames[s] = "PENDING_TX" /\ c.kernel = NoSlot /\ c.answer[1] = NoSlot
      /\ d \in Context /\ d.frames = [c.frames EXCEPT ![s] = "TX_SUBMITTED"]
      /\ d.data = c.data /\ d.queue = Tail(c.queue) /\ d.kernel \in {NoSlot, s}
      /\ d.outstanding /\ d.answer = c.answer /\ d.storage = c.storage
  <2>1. Publishes(c, d, s) BY <1>1, <1>2, PublishedFields, GoodSound
  <2> QED BY <2>1 DEF Publishes
<1>5. c.queue \in Seq(Slot) BY <1>3 DEF Context
<1>6. \A i \in DOMAIN d.queue : i + 1 \in DOMAIN c.queue /\ d.queue[i] = c.queue[i+1]
                                /\ d.queue[i] # s /\ d.queue[i] \in Slot /\ i \in Nat
  BY <1>3, <1>4, <1>5 DEF Owned
<1>7. Owned(d)
  BY <1>3, <1>4, <1>6 DEF Owned, Context
<1>8. Ordered(d, w, n, out)
  <2>1. \A i \in DOMAIN d.queue :
          Between(d, d.queue[i], w, n, out) /\ Number(d, s) < Number(d, d.queue[i])
    BY <1>3, <1>4, <1>6 DEF Ordered, Between, Number
  <2>2. Between(d, s, w, n, out)
    BY <1>3, <1>4 DEF Ordered, Between, Number
  <2>3. \A i, j \in DOMAIN d.queue : i < j => Number(d, d.queue[i]) < Number(d, d.queue[j])
    BY <1>3, <1>4, <1>6 DEF Ordered, Number
  <2> QED BY <1>3, <1>4, <2>1, <2>2, <2>3 DEF Ordered
<1> QED BY <1>4, <1>7, <1>8, <1>1 DEF Good

\* async_tun_service, which drains and then publishes, keeps a context good.
LEMMA ServicedGood ==
  ASSUME NEW w \in Writers, NEW n \in Nat, NEW out \in SUBSET Nat, NEW c, NEW how \in Submitted,
         Good(c, w, n, out), c.storage = "live"
  PROVE  Good(Serviced(c, how), w, n, out)
<1>1. Good(Drained(c), w, n, out) BY DrainedGood
<1>2. Drained(c).storage = "live" BY DrainedStorage DEF Good
<1>3. CASE Publishable(Drained(c))
  BY <1>1, <1>2, <1>3, PublishedGood DEF Serviced
<1>4. CASE ~Publishable(Drained(c))
  BY <1>1, <1>4 DEF Serviced
<1> QED BY <1>3, <1>4

\* Queueing a packet keeps a context good: packet n+1 is later than all there is.
LEMMA EnqueuedGood ==
  ASSUME NEW w \in Writers, NEW n \in Nat, NEW out \in SUBSET Nat, NEW c,
         Good(c, w, n, out), FreeSlots(c) # {}
  PROVE  Good(Enqueued(c, <<w, n+1>>), w, n+1, out)
<1> USE SlotFacts
<1>1. PICK s : s = Chosen(c) OBVIOUS
<1>2. PICK packet : packet = <<w, n+1>> OBVIOUS
<1>3. packet \in Writers \X Nat BY <1>2
<1>4. PICK d : d = Enqueued(c, packet) OBVIOUS
<1> DEFINE data == [c.data EXCEPT ![s] = packet]
<1> DEFINE queue == Append(c.queue, s)
<1>5. c \in Context /\ Owned(c) /\ Ordered(c, w, n, out) BY DEF Good
<1>6. /\ s \in Slot /\ c.frames[s] = "FREE" /\ d \in Context
      /\ d.frames = [c.frames EXCEPT ![s] = "PENDING_TX"]
      /\ d.data = data /\ d.queue = queue
      /\ d.kernel = c.kernel /\ d.answer = c.answer /\ d.outstanding = c.outstanding
      /\ d.storage = c.storage
  <2>1. Enqueues(c, d, s, packet) BY <1>4, <1>1, <1>3, EnqueuedFields, GoodSound
  <2> QED BY <2>1 DEF Enqueues
<1>7. \A i \in DOMAIN queue :
        \/ i \in DOMAIN c.queue /\ queue[i] = c.queue[i] /\ c.queue[i] \in Slot /\ c.queue[i] # s
        \/ i = Len(c.queue) + 1 /\ queue[i] = s
  BY <1>5, <1>6 DEF Context, Owned
<1>8. DOMAIN c.queue = 1..Len(c.queue) /\ Len(c.queue) \in Nat
  BY <1>5 DEF Context
<1>9. c.kernel # NoSlot => c.kernel \in Slot /\ c.kernel # s
  BY <1>5, <1>6 DEF Context, Owned
<1>10. Owned(d)
  <2>1. d.kernel # NoSlot => /\ d.outstanding /\ d.frames[d.kernel] = "TX_SUBMITTED"
                             /\ d.answer[1] = NoSlot /\ d.storage = "live"
    BY <1>5, <1>6, <1>9 DEF Owned, Context
  <2>2. d.answer[1] # NoSlot => d.outstanding /\ d.frames[d.answer[1]] = "TX_SUBMITTED"
    BY <1>5, <1>6 DEF Owned, Context
  <2>3. \A i \in DOMAIN d.queue : d.frames[d.queue[i]] = "PENDING_TX"
    BY <1>5, <1>6, <1>7 DEF Owned, Context
  <2>4. \A i, j \in DOMAIN d.queue : i # j => d.queue[i] # d.queue[j]
    <3> HIDE DEF queue, data
    <3> QED BY <1>5, <1>6, <1>7 DEF Owned
  <2> QED BY <2>1, <2>2, <2>3, <2>4 DEF Owned
<1>11. Ordered(d, w, n+1, out)
  <2>1. data[s] = <<w, n+1>> BY <1>2, <1>5, <1>6 DEF Context
  <2>2. \A r \in Slot : r # s => data[r] = c.data[r] BY <1>5 DEF Context
  <2> HIDE DEF queue, data
  <2>3. c.kernel # NoSlot => Between(d, c.kernel, w, n, out)
    BY <1>5, <1>6, <1>9, <2>2 DEF Ordered, Between, Number
  <2>4. \A i \in DOMAIN c.queue : queue[i] = c.queue[i] => Between(d, queue[i], w, n, out)
    <3> SUFFICES ASSUME NEW i \in DOMAIN c.queue, queue[i] = c.queue[i]
                 PROVE  Between(d, c.queue[i], w, n, out)
      OBVIOUS
    <3>1. c.queue[i] \in Slot /\ c.queue[i] # s
      BY <1>5, <1>6 DEF Owned, Context
    <3>2. d.data[c.queue[i]] = c.data[c.queue[i]]
      BY <1>6, <2>2, <3>1
    <3> QED BY <1>5, <3>2 DEF Ordered, Between, Number
  <2>5. Between(d, s, w, n+1, out) /\ Number(d, s) = n+1
    BY <1>5, <1>6, <2>1 DEF Ordered, Between, Number
  <2>6. \A m \in Nat : m <= n => m <= n+1 /\ m < n+1 OBVIOUS
  <2>7. d.kernel # NoSlot =>
          Between(d, d.kernel, w, n+1, out) /\ Number(d, d.kernel) < n+1
    BY <1>6, <2>3, <2>6 DEF Between, Number
  <2>8. \A i \in DOMAIN d.queue : Between(d, d.queue[i], w, n+1, out)
    BY <1>6, <1>7, <2>4, <2>5, <2>6 DEF Between, Number
  <2>9. d.kernel # NoSlot => \A i \in DOMAIN d.queue : Number(d, d.kernel) < Number(d, d.queue[i])
    <3> SUFFICES ASSUME c.kernel # NoSlot, NEW i \in DOMAIN queue
                 PROVE  Number(d, c.kernel) < Number(d, queue[i])
      BY <1>6
    <3>1. d.data[c.kernel] = c.data[c.kernel] BY <1>6, <1>9, <2>2
    <3>2. CASE i \in DOMAIN c.queue /\ queue[i] = c.queue[i] /\ c.queue[i] \in Slot /\ c.queue[i] # s
      <4>1. d.data[c.queue[i]] = c.data[c.queue[i]]
        BY <1>6, <2>2, <3>2
      <4> QED BY <1>5, <3>1, <3>2, <4>1 DEF Ordered, Number
    <3>3. CASE queue[i] = s
      BY <1>6, <2>5, <2>7, <3>3
    <3> QED BY <1>7, <3>2, <3>3
  <2>10. \A i, j \in DOMAIN d.queue : i < j => Number(d, d.queue[i]) < Number(d, d.queue[j])
    <3> SUFFICES ASSUME NEW i \in DOMAIN queue, NEW j \in DOMAIN queue, i < j
                 PROVE  Number(d, queue[i]) < Number(d, queue[j])
      BY <1>6
    <3>1. i \in DOMAIN c.queue /\ queue[i] = c.queue[i] /\ c.queue[i] \in Slot /\ c.queue[i] # s
      BY <1>7, <1>8
    <3>2. CASE j \in DOMAIN c.queue /\ queue[j] = c.queue[j] /\ c.queue[j] \in Slot /\ c.queue[j] # s
      <4>1. d.data[c.queue[i]] = c.data[c.queue[i]] /\ d.data[c.queue[j]] = c.data[c.queue[j]]
        BY <1>6, <2>2, <3>1, <3>2
      <4> QED BY <1>5, <3>1, <3>2, <4>1 DEF Ordered, Number
    <3>3. CASE queue[j] = s
      <4>1. Between(d, queue[i], w, n, out) BY <2>4, <3>1
      <4>2. Number(d, queue[i]) \in Nat /\ Number(d, queue[i]) <= n
        BY <4>1 DEF Between, Number
      <4> QED BY <2>5, <3>3, <4>2
    <3> QED BY <1>7, <3>2, <3>3
  <2>11. \A m \in out : m <= n+1 BY <1>5 DEF Ordered
  <2> QED BY <2>7, <2>8, <2>9, <2>10, <2>11 DEF Ordered
<1> QED BY <1>6, <1>10, <1>11, <1>2, <1>4 DEF Good

\* A packet that finds no frame is never written; its number is only skipped.
LEMMA LaterGood ==
  ASSUME NEW w \in Writers, NEW n \in Nat, NEW out \in SUBSET Nat, NEW c,
         Good(c, w, n, out)
  PROVE  Good(c, w, n+1, out)
<1>1. \A m \in Nat : m <= n => m <= n+1 OBVIOUS
<1>2. \A s : Between(c, s, w, n, out) => Between(c, s, w, n+1, out)
  BY <1>1 DEF Between, Number
<1> QED BY <1>1, <1>2 DEF Good, Ordered

\* async_tun_submit, which services the ring and then queues the packet if it can,
\* keeps a context good.
LEMMA SubmitGood ==
  ASSUME NEW w \in Writers, NEW n \in Nat, NEW out \in SUBSET Nat, NEW c, NEW how \in Submitted,
         Good(c, w, n, out), c.storage = "live"
  PROVE  Good(AfterSubmit(c, <<w, n+1>>, how), w, n+1, out)
<1> DEFINE d == Serviced(c, how)
<1>1. Good(d, w, n, out) BY ServicedGood
<1>2. Good(c, w, n+1, out) /\ Good(d, w, n+1, out) BY <1>1, LaterGood
<1>3. FreeSlots(d) # {} => Good(Enqueued(d, <<w, n+1>>), w, n+1, out)
  BY <1>1, EnqueuedGood
<1> HIDE DEF d
<1> QED BY <1>2, <1>3 DEF AfterSubmit, d

\* Calls that change neither frames, data, queue nor what the kernel has.
LEMMA AsideGood ==
  ASSUME NEW w \in Writers, NEW n \in Nat, NEW out \in SUBSET Nat, NEW c, NEW d \in Context,
         Good(c, w, n, out),
         d.frames = c.frames, d.data = c.data, d.queue = c.queue, d.kernel = c.kernel,
         d.outstanding = c.outstanding, d.answer = c.answer,
         d.kernel # NoSlot => d.storage = c.storage
  PROVE  Good(d, w, n, out)
BY DEF Good, Owned, Ordered, Between, Number

\* Setting the stop flag keeps a context good.
LEMMA StoppingGood ==
  ASSUME NEW w \in Writers, NEW n \in Nat, NEW out \in SUBSET Nat, NEW c,
         Good(c, w, n, out)
  PROVE  Good(Stopping(c), w, n, out)
<1>1. c \in Context BY DEF Good
<1>2. Stopping(c) \in Context BY <1>1 DEF Stopping, Context
<1> QED BY <1>1, <1>2, AsideGood DEF Stopping, Context

\* Giving up at the deadline counts frames, and moves none.
LEMMA AbandonGood ==
  ASSUME NEW w \in Writers, NEW n \in Nat, NEW out \in SUBSET Nat, NEW c,
         Good(c, w, n, out)
  PROVE  Good(Abandon(c), w, n, out)
<1> DEFINE d == Abandon(c)
<1> DEFINE counted == [s \in Slot |-> c.counted[s] \/ s \in Abandoned(c)]
<1> DEFINE errors == c.errors + Cardinality(Abandoned(c))
<1>1. c \in Context BY DEF Good
<1>2. d = [c EXCEPT !.failed = TRUE, !.errors = errors, !.counted = counted]
  BY <1>1 DEF Abandon, Context
<1>3. errors \in Nat
  <2>1. Cardinality(Abandoned(c)) \in Nat BY SlotsFinite DEF Abandoned
  <2> QED BY <1>1, <2>1 DEF Context
<1>4. counted \in [Slot -> BOOLEAN] BY <1>1 DEF Context, Abandoned
<1> HIDE DEF d, errors, counted
<1>5. /\ d \in Context
      /\ d.frames = c.frames /\ d.data = c.data /\ d.queue = c.queue /\ d.kernel = c.kernel
      /\ d.outstanding = c.outstanding /\ d.answer = c.answer /\ d.storage = c.storage
  BY <1>1, <1>2, <1>3, <1>4 DEF Context
<1>6. Good(d, w, n, out) BY <1>5, AsideGood
<1> QED BY <1>6 DEF d

\* async_tun_destroy frees only storage no write uses.
LEMMA DestroyedGood ==
  ASSUME NEW w \in Writers, NEW n \in Nat, NEW out \in SUBSET Nat, NEW c,
         Good(c, w, n, out)
  PROVE  Good(Destroyed(c), w, n, out)
<1>1. c \in Context /\ Owned(c) BY DEF Good
<1>2. CASE c.storage = "live" /\ ~c.outstanding
  <2> DEFINE d == [c EXCEPT !.storage = "freed"]
  <2>1. /\ d \in Context
        /\ d.frames = c.frames /\ d.data = c.data /\ d.queue = c.queue /\ d.kernel = c.kernel
        /\ d.outstanding = c.outstanding /\ d.answer = c.answer
    BY <1>1 DEF Context
  <2>2. c.kernel = NoSlot BY <1>1, <1>2 DEF Owned
  <2> HIDE DEF d
  <2>3. Good(d, w, n, out) BY <2>1, <2>2, AsideGood
  <2> QED BY <1>2, <2>3 DEF Destroyed, d
<1>3. CASE ~(c.storage = "live" /\ ~c.outstanding)
  BY <1>3 DEF Destroyed
<1> QED BY <1>2, <1>3

\* The answer of the kernel keeps a context good, whether the packet is on the wire
\* after it or not.
LEMMA AnsweredGood ==
  ASSUME NEW w \in Writers, NEW n \in Nat, NEW out \in SUBSET Nat, NEW c, NEW result \in Results,
         Good(c, w, n, out), c.kernel # NoSlot,
         NEW more \in {out, out \cup {Number(c, c.kernel)}}
  PROVE  Good([c EXCEPT !.kernel = NoSlot, !.answer = <<c.kernel, result>>], w, n, more)
<1> DEFINE d == [c EXCEPT !.kernel = NoSlot, !.answer = <<c.kernel, result>>]
<1>1. c \in Context /\ Owned(c) /\ Ordered(c, w, n, out) BY DEF Good
<1>2. result \in {"full", "lost", "fatal"} BY AsyncAssumption
<1>3. c.kernel \in Slot BY <1>1 DEF Context
<1>4. /\ d \in Context /\ d.kernel = NoSlot /\ d.answer[1] = c.kernel
      /\ d.frames = c.frames /\ d.data = c.data /\ d.queue = c.queue
      /\ d.outstanding = c.outstanding
  BY <1>1, <1>2, <1>3 DEF Context
<1> HIDE DEF d
<1>5. Owned(d) BY <1>1, <1>4 DEF Owned
<1>6. Number(c, c.kernel) <= n BY <1>1 DEF Ordered, Between
<1>7. \A i \in DOMAIN c.queue : Between(d, d.queue[i], w, n, more)
  BY <1>1, <1>4 DEF Ordered, Between, Number
<1>8. Ordered(d, w, n, more)
  BY <1>1, <1>4, <1>6, <1>7 DEF Ordered, Number
<1>9. Good(d, w, n, more) BY <1>4, <1>5, <1>8 DEF Good
<1> QED BY <1>9 DEF d

----------------------------------------------------------------------------
\* While the thread runs, the packets not counted are those in frames.
LEMMA OpenUncounted == ASSUME NEW c, Open(c) PROVE Uncounted(c) = Busy(c)
BY DEF Open, Uncounted, Busy

\* The frames that hold a packet can be counted.
LEMMA BusyFinite == ASSUME NEW c PROVE IsFiniteSet(Busy(c)) /\ Cardinality(Busy(c)) \in Nat
BY SlotsFinite DEF Busy

\* A completion moves one packet from a frame to a counter.
LEMMA CompletedActive ==
  ASSUME NEW c, Sound(c), Active(c), Answered(c), ~Stray(c)
  PROVE  Active(Completed(c))
<1> USE SlotFacts
<1>1. c \in Context /\ Owned(c) BY DEF Sound
<1>2. PICK d : d = Completed(c) OBVIOUS
<1>3. PICK s : s = c.answer[1] OBVIOUS
<1>4. /\ s \in Slot /\ c.frames[s] = "TX_SUBMITTED" /\ d \in Context
      /\ d.frames = [c.frames EXCEPT ![s] = "FREE"]
      /\ d.queue = c.queue /\ ~d.outstanding
      /\ d.accepted = c.accepted /\ d.completed + d.errors = c.completed + c.errors + 1
      /\ \A t \in Slot : t # s /\ d.counted[t] => c.counted[t]
  <2>1. Completes(c, d, s) BY <1>2, <1>3, CompletedFields
  <2> QED BY <2>1 DEF Completes
<1>5. d.frames[s] = "FREE" /\ \A t \in Slot : t # s => d.frames[t] = c.frames[t]
  BY <1>1, <1>4 DEF Context
<1>6. Busy(d) = Busy(c) \ {s} /\ s \in Busy(c)
  BY <1>4, <1>5 DEF Busy
<1>7. Open(d)
  <2>1. \A t \in Busy(d) : t \in Slot /\ t # s /\ t \in Busy(c) BY <1>6 DEF Busy
  <2>2. \A t \in Busy(c) : ~c.counted[t] BY DEF Active, Open
  <2> QED BY <1>4, <2>1, <2>2 DEF Open
<1>8. Filed(d) BY <1>4, <1>5 DEF Active, Filed
<1>9. Cardinality(Busy(d)) = Cardinality(Busy(c)) - 1
  BY <1>6, BusyFinite, FS_RemoveElement
<1>10. c.accepted = c.completed + c.errors + Cardinality(Busy(c))
  BY OpenUncounted DEF Active, Tallied
<1>11. Tallied(d)
  <2>1. /\ c.completed + c.errors \in Nat /\ c.accepted \in Nat
    BY <1>1 DEF Context
  <2> QED BY <1>4, <1>7, <1>9, <1>10, <2>1, OpenUncounted, BusyFinite DEF Tallied
<1> QED BY <1>7, <1>8, <1>11, <1>2 DEF Active

\* Calls that change neither frames, queue nor counters.
LEMMA AsideActive ==
  ASSUME NEW c, NEW d, Active(c),
         d.frames = c.frames, d.queue = c.queue, d.outstanding = c.outstanding,
         \A s \in Slot : d.counted[s] = c.counted[s],
         d.accepted = c.accepted, d.completed = c.completed, d.errors = c.errors
  PROVE  Active(d)
<1>1. Busy(d) = Busy(c) BY DEF Busy
<1>2. Open(d)
  <2>1. \A s \in Busy(c) : s \in Slot /\ ~c.counted[s] BY DEF Active, Open, Busy
  <2> QED BY <1>1, <2>1 DEF Open
<1>3. Filed(d) BY DEF Active, Filed
<1>4. Tallied(d)
  <2>1. Uncounted(d) = Uncounted(c) BY <1>1, <1>2, OpenUncounted DEF Active
  <2> QED BY <2>1 DEF Active, Tallied
<1> QED BY <1>2, <1>3, <1>4 DEF Active

\* Draining keeps the counters exact.
LEMMA DrainedActive ==
  ASSUME NEW c, Sound(c), Active(c)
  PROVE  Active(Drained(c))
<1>1. c \in Context BY DEF Sound
<1>2. CASE ~Answered(c)
  BY <1>2 DEF Drained
<1>3. CASE Answered(c) /\ Stray(c)
  <2> DEFINE d == [c EXCEPT !.failed = TRUE, !.answer = <<NoSlot, "full">>]
  <2>1. /\ d.frames = c.frames /\ d.queue = c.queue /\ d.outstanding = c.outstanding
        /\ d.counted = c.counted
        /\ d.accepted = c.accepted /\ d.completed = c.completed /\ d.errors = c.errors
    BY <1>1 DEF Context
  <2>2. Drained(c) = d BY <1>3 DEF Drained
  <2> HIDE DEF d
  <2> QED BY <2>1, <2>2, AsideActive
<1>4. CASE Answered(c) /\ ~Stray(c)
  BY <1>4, CompletedActive DEF Drained
<1> QED BY <1>2, <1>3, <1>4

\* Publishing keeps them exact: a submitted frame is still uncounted.
LEMMA PublishedActive ==
  ASSUME NEW c, Sound(c), Active(c), Publishable(c), NEW how \in Submitted
  PROVE  Active(Published(c, how))
<1> USE SlotFacts
<1>1. c \in Context /\ Owned(c) BY DEF Sound
<1>2. PICK d : d = Published(c, how) OBVIOUS
<1>3. PICK s : s = Head(c.queue) OBVIOUS
<1>4. /\ s \in Slot /\ 1 \in DOMAIN c.queue /\ s = c.queue[1] /\ c.frames[s] = "PENDING_TX"
      /\ d.frames = [c.frames EXCEPT ![s] = "TX_SUBMITTED"] /\ d.counted = c.counted
      /\ d.queue = Tail(c.queue) /\ d.outstanding
      /\ d.accepted = c.accepted /\ d.completed = c.completed /\ d.errors = c.errors
  <2>1. Publishes(c, d, s) BY <1>2, <1>3, PublishedFields
  <2> QED BY <2>1 DEF Publishes
<1>5. d.frames[s] = "TX_SUBMITTED" /\ \A t \in Slot : t # s => d.frames[t] = c.frames[t]
  BY <1>1, <1>4 DEF Context
<1>6. Busy(d) = Busy(c)
  BY <1>4, <1>5 DEF Busy
<1>7. Open(d)
  BY <1>4, <1>6 DEF Active, Open
<1>8. Tallied(d)
  <2>1. Uncounted(d) = Uncounted(c) BY <1>6, <1>7, OpenUncounted DEF Active
  <2> QED BY <1>4, <2>1 DEF Active, Tallied
<1>9. Filed(d)
  <2>1. \A t \in Slot : t # s => d.frames[t] # "TX_SUBMITTED"
    BY <1>5 DEF Active, Filed, Publishable
  <2>2. ASSUME NEW t \in Slot, d.frames[t] = "PENDING_TX"
        PROVE  \E i \in DOMAIN d.queue : d.queue[i] = t
    <3>1. t # s /\ c.frames[t] = "PENDING_TX" BY <1>5, <2>2
    <3>2. PICK k \in DOMAIN c.queue : c.queue[k] = t BY <3>1 DEF Active, Filed
    <3>3. c.queue \in Seq(Slot) BY <1>1 DEF Context
    <3>4. k # 1 /\ k \in 1..Len(c.queue) /\ Len(c.queue) \in Nat BY <1>4, <3>1, <3>2, <3>3
    <3>5. k - 1 \in DOMAIN Tail(c.queue) /\ Tail(c.queue)[k-1] = c.queue[k]
      BY <3>3, <3>4
    <3> QED BY <1>4, <3>2, <3>5
  <2> QED BY <1>4, <2>1, <2>2 DEF Filed
<1> QED BY <1>7, <1>8, <1>9, <1>2 DEF Active

\* An accepted packet is counted as accepted and has a frame of its own.
LEMMA EnqueuedActive ==
  ASSUME NEW packet \in Writers \X Nat, NEW c, Sound(c), Active(c), FreeSlots(c) # {}
  PROVE  Active(Enqueued(c, packet))
<1> USE SlotFacts
<1>1. c \in Context /\ Owned(c) BY DEF Sound
<1>2. PICK d : d = Enqueued(c, packet) OBVIOUS
<1>3. PICK s : s = Chosen(c) OBVIOUS
<1>4. /\ s \in Slot /\ c.frames[s] = "FREE"
      /\ d.frames = [c.frames EXCEPT ![s] = "PENDING_TX"]
      /\ d.queue = Append(c.queue, s) /\ d.outstanding = c.outstanding
      /\ d.accepted = c.accepted + 1 /\ d.completed = c.completed /\ d.errors = c.errors
      /\ ~d.counted[s] /\ \A t \in Slot : t # s /\ d.counted[t] => c.counted[t]
  <2>1. Enqueues(c, d, s, packet) BY <1>2, <1>3, EnqueuedFields
  <2> QED BY <2>1 DEF Enqueues
<1>5. d.frames[s] = "PENDING_TX" /\ \A t \in Slot : t # s => d.frames[t] = c.frames[t]
  BY <1>1, <1>4 DEF Context
<1>6. Busy(d) = Busy(c) \cup {s} /\ s \notin Busy(c)
  BY <1>4, <1>5 DEF Busy
<1>7. Open(d)
  <2>1. \A t \in Busy(d) : t \in Slot /\ (t # s => t \in Busy(c)) BY <1>6 DEF Busy
  <2>2. \A t \in Busy(c) : ~c.counted[t] BY DEF Active, Open
  <2> QED BY <1>4, <2>1, <2>2 DEF Open
<1>8. Filed(d)
  <2>1. \A t \in Slot : d.frames[t] = "TX_SUBMITTED" => c.frames[t] = "TX_SUBMITTED"
    BY <1>5
  <2>2. ASSUME NEW t \in Slot, d.frames[t] = "PENDING_TX"
        PROVE  \E i \in DOMAIN d.queue : d.queue[i] = t
    <3>1. c.queue \in Seq(Slot) BY <1>1 DEF Context
    <3>2. CASE t = s
      <4>1. Len(c.queue) + 1 \in DOMAIN d.queue /\ d.queue[Len(c.queue) + 1] = s
        BY <1>4, <3>1
      <4> QED BY <3>2, <4>1
    <3>3. CASE t # s
      <4>1. PICK i \in DOMAIN c.queue : c.queue[i] = t BY <1>5, <2>2, <3>3 DEF Active, Filed
      <4>2. i \in DOMAIN d.queue /\ d.queue[i] = c.queue[i] BY <1>4, <3>1
      <4> QED BY <4>1, <4>2
    <3> QED BY <3>2, <3>3
  <2> QED BY <1>4, <2>1, <2>2 DEF Active, Filed
<1>9. Cardinality(Busy(d)) = Cardinality(Busy(c)) + 1
  BY <1>6, BusyFinite, FS_AddElement
<1>10. Tallied(d)
  <2>1. c.completed + c.errors \in Nat /\ c.accepted \in Nat
    BY <1>1 DEF Context
  <2>2. c.accepted = c.completed + c.errors + Cardinality(Busy(c))
    BY OpenUncounted DEF Active, Tallied
  <2> QED BY <1>4, <1>7, <1>9, <2>1, <2>2, OpenUncounted, BusyFinite DEF Tallied
<1> QED BY <1>7, <1>8, <1>10, <1>2 DEF Active

\* Servicing the ring keeps the counters exact.
LEMMA ServicedActive ==
  ASSUME NEW w \in Writers, NEW n \in Nat, NEW out \in SUBSET Nat, NEW c, NEW how \in Submitted,
         Good(c, w, n, out), Active(c)
  PROVE  Active(Serviced(c, how))
<1> DEFINE d == Drained(c)
<1>1. Sound(c) /\ Sound(d) BY DrainedGood, GoodSound
<1>2. Active(d) BY <1>1, DrainedActive
<1> HIDE DEF d
<1>3. Publishable(d) => Active(Published(d, how))
  BY <1>1, <1>2, PublishedActive
<1> QED BY <1>2, <1>3 DEF Serviced, d

\* So does submitting a packet, whether it is accepted or not.
LEMMA SubmitActive ==
  ASSUME NEW w \in Writers, NEW n \in Nat, NEW out \in SUBSET Nat, NEW c, NEW how \in Submitted,
         Good(c, w, n, out), c.storage = "live", Active(c)
  PROVE  Active(AfterSubmit(c, <<w, n+1>>, how))
<1> DEFINE d == Serviced(c, how)
<1>1. Sound(d) BY ServicedGood, GoodSound
<1>2. Active(d) BY ServicedActive
<1> HIDE DEF d
<1>3. FreeSlots(d) # {} => Active(Enqueued(d, <<w, n+1>>))
  <2>1. <<w, n+1>> \in Writers \X Nat OBVIOUS
  <2> QED BY <1>1, <1>2, <2>1, EnqueuedActive
<1> QED BY <1>2, <1>3 DEF AfterSubmit, d

\* Calls that leave the frames and the counters alone.
Same(c, d) ==
  /\ d.frames = c.frames /\ d.queue = c.queue /\ d.outstanding = c.outstanding
  /\ d.counted = c.counted
  /\ d.accepted = c.accepted /\ d.completed = c.completed /\ d.errors = c.errors

\* Leaving frames and counters alone keeps the invariant of the counters.
LEMMA SameActive ==
  ASSUME NEW c, NEW d, Same(c, d), Active(c)
  PROVE  Active(d)
BY AsideActive DEF Same

\* And keeps the sum.
LEMMA SameTallied ==
  ASSUME NEW c, NEW d, Same(c, d)
  PROVE  Uncounted(d) = Uncounted(c) /\ (Tallied(c) => Tallied(d))
<1>1. Uncounted(d) = Uncounted(c) BY DEF Same, Uncounted
<1> QED BY <1>1 DEF Same, Tallied

\* The stop flag is neither a frame nor a counter.
LEMMA StoppingSame == ASSUME NEW c \in Context PROVE Same(c, Stopping(c))
BY DEF Same, Context, Stopping

\* Freeing the storage leaves the counters.
LEMMA DestroyedSame == ASSUME NEW c \in Context PROVE Same(c, Destroyed(c))
BY DEF Same, Context, Destroyed

\* A context that does not change.
LEMMA SameSame == ASSUME NEW c PROVE Same(c, c)
BY DEF Same

\* async_tun_init allocates the frames of a context or frees what it allocated; neither files one.
LEMMA SameStorage ==
  ASSUME NEW c \in Context, NEW d,
         d \in {[c EXCEPT !.storage = "live"], [c EXCEPT !.storage = "freed"], c}
  PROVE  Same(c, d)
BY DEF Same, Context

\* The kernel's answer waits in the completion queue; the context is as it was.
LEMMA SameAnswered ==
  ASSUME NEW c \in Context, NEW d, NEW kernel, NEW answer,
         d = [c EXCEPT !.kernel = kernel, !.answer = answer]
  PROVE  Same(c, d)
BY DEF Same, Context

\* Nothing is left in an idle context.
LEMMA IdleCounted ==
  ASSUME NEW c, Active(c), Idle(c)
  PROVE  Uncounted(c) = {}
<1>1. Busy(c) = {} BY DEF Active, Filed, Idle, Busy
<1> QED BY <1>1, OpenUncounted DEF Active

\* After async_tun_finish gave up on a context no packet of it is uncounted.
LEMMA AbandonCounted ==
  ASSUME NEW c, Sound(c), Tallied(c)
  PROVE  Uncounted(Abandon(c)) = {} /\ Tallied(Abandon(c))
<1>1. c \in Context BY DEF Sound
<1>2. PICK d : d = Abandon(c) OBVIOUS
<1>3. d.frames = c.frames /\ d.accepted = c.accepted /\ d.completed = c.completed
  BY <1>1, <1>2 DEF Abandon, Context
<1>4. d.errors = c.errors + Cardinality(Abandoned(c))
  BY <1>1, <1>2 DEF Abandon, Context
<1>5. d.counted = [s \in Slot |-> c.counted[s] \/ s \in Abandoned(c)]
  BY <1>1, <1>2 DEF Abandon, Context
<1>6. Uncounted(d) = {}
  BY <1>3, <1>5 DEF Uncounted, Abandoned
<1>7. Abandoned(c) = Uncounted(c)
  BY DEF Abandoned, Uncounted
<1>8. Cardinality(Uncounted(c)) \in Nat /\ Cardinality({}) = 0
  <2>1. Uncounted(c) \in SUBSET Slot BY DEF Uncounted
  <2> QED BY <2>1, SlotsFinite, FS_EmptySet
<1>9. c.completed \in Nat /\ c.errors \in Nat BY <1>1 DEF Context
<1>10. Tallied(d)
  BY <1>3, <1>4, <1>6, <1>7, <1>8, <1>9 DEF Tallied
<1> QED BY <1>6, <1>10, <1>2
=============================================================================
