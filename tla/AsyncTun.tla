------------------------------ MODULE AsyncTun ------------------------------
(***************************************************************************)
(* Asynchronous writes to the TUN device (experimental_io.c, built with    *)
(* io_uring).  Each worker has a context of its own: frames that own a     *)
(* copy of the packet, a queue of frames waiting to be written, and at     *)
(* most one write published to the kernel.  The kernel answers when it     *)
(* likes, in full, short, or with an error.                                *)
(*                                                                         *)
(* A context is a record, and what the code does to it in one call is a    *)
(* function of it.  The counters the contexts share are kept per context;  *)
(* their sum is what the status shows.                                     *)
(***************************************************************************)
EXTENDS PacketFrame, Integers, Sequences, FiniteSets

CONSTANTS
  Writers,      \* the threads that own a context, 1..n
  Slots,        \* number of frames of a context (64)
  NoSlot,       \* no write in flight, no completion
  NoData,       \* what a free frame holds
  \* How a write ends: "full"; "lost", short or with an error that costs one
  \* frame; "fatal", with an error of the descriptor, which stops the service.
  Results,
  \* What io_uring_submit makes of the published entry: "taken"; "refused"; or
  \* "unknown", taken although the call reports a failure.
  Submitted

ASSUME AsyncAssumption == /\ Slots \in Nat \ {0}
                          /\ NoSlot \notin Int
                          /\ Results \subseteq {"full", "lost", "fatal"}
                          /\ Submitted \subseteq {"taken", "refused", "unknown"}

VARIABLES
  ring,         \* [Writers -> contexts]
  wire          \* the packets <<writer, number>> that the device took, in its order

asyncVars == <<ring, wire>>

Slot == 0..Slots-1

NewContext ==
  [frames |-> [s \in Slot |-> "FREE"],
   data |-> [s \in Slot |-> NoData],     \* the copy of the packet
   counted |-> [s \in Slot |-> FALSE],   \* failure_counted
   queue |-> <<>>, cursor |-> 0,
   outstanding |-> FALSE, failed |-> FALSE, stopping |-> FALSE,
   kernel |-> NoSlot,                    \* the write the kernel works on
   answer |-> <<NoSlot, "full">>,        \* the completion queue
   accepted |-> 0, completed |-> 0, errors |-> 0,
   storage |-> "none"]                   \* of the frames: "none", "live" or "freed"

AsyncInit ==
  /\ ring = [w \in Writers |-> NewContext]
  /\ wire = <<>>

----------------------------------------------------------------------------
(* async_tun_service *)

Answered(c) == c.answer[1] # NoSlot

\* A completion nobody asked for.
Stray(c) == ~c.outstanding \/ c.frames[c.answer[1]] # "TX_SUBMITTED"

\* Mutant: a write that was lost is tried again after the others.
Completed_Requeues(c) ==
  LET s == c.answer[1]
      again == c.answer[2] = "lost"
  IN [c EXCEPT
        !.frames[s] = IF again THEN "PENDING_TX" ELSE "FREE",
        !.queue = IF again THEN Append(@, s) ELSE @,
        !.outstanding = FALSE, !.answer = <<NoSlot, "full">>]
\* The completion is counted and its frame given back.
Completed(c) ==
  LET s == c.answer[1]
      full == c.answer[2] = "full"
  IN [c EXCEPT
        !.frames[s] = Transition(Transition(@, "COMPLETED", c.stopping), "FREE", c.stopping),
        !.data[s] = NoData,
        !.outstanding = FALSE,
        !.counted[s] = @ \/ ~full,
        !.completed = IF full THEN @ + 1 ELSE @,
        !.errors = IF full THEN @ ELSE @ + 1,
        !.failed = @ \/ c.answer[2] = "fatal",
        !.answer = <<NoSlot, "full">>]

Drained(c) ==
  IF ~Answered(c) THEN c
  ELSE IF Stray(c) THEN [c EXCEPT !.failed = TRUE, !.answer = <<NoSlot, "full">>]
  ELSE Completed(c)

Publishable(c) == ~c.failed /\ ~c.outstanding /\ c.queue # <<>>

\* One published write keeps the order of the packets.
Published(c, how) ==
  LET s == Head(c.queue)
  IN [c EXCEPT
        !.frames[s] = Transition(@, "TX_SUBMITTED", c.stopping),
        !.outstanding = TRUE,
        !.queue = Tail(@),
        !.kernel = IF how = "refused" THEN NoSlot ELSE s,
        !.failed = how # "taken"]

Serviced(c, how) ==
  LET d == Drained(c) IN IF Publishable(d) THEN Published(d, how) ELSE d

----------------------------------------------------------------------------
(* async_tun_submit *)

\* The first free frame at or after the cursor.
FreeSlots(c) == {s \in Slot : Acquirable(c.frames[s], c.stopping)}
After(c, n) == (c.cursor + n) % Slots
Chosen(c) ==
  After(c, CHOOSE n \in Slot :
             /\ After(c, n) \in FreeSlots(c)
             /\ \A k \in 0..n-1 : After(c, k) \notin FreeSlots(c))

Enqueued(c, packet) ==
  LET s == Chosen(c)
  IN [c EXCEPT
        !.frames[s] = "PENDING_TX", !.data[s] = packet, !.counted[s] = FALSE,
        !.cursor = (s + 1) % Slots, !.queue = Append(@, s),
        !.accepted = @ + 1]

\* The packet is accepted, or the call fails and the caller counts the loss.
AfterSubmit(c, packet, how) ==
  LET d == Serviced(c, how)
  IN IF c.stopping THEN c
     ELSE IF d.failed \/ FreeSlots(d) = {} THEN d
     ELSE Enqueued(d, packet)

----------------------------------------------------------------------------
(* async_tun_finish and async_tun_destroy *)

Stopping(c) == [c EXCEPT !.stopping = TRUE]
Idle(c) == c.queue = <<>> /\ ~c.outstanding

\* Mutant: the write the kernel has is not counted.
Abandoned_Queued(c) == {s \in Slot : ~c.counted[s] /\ c.frames[s] = "PENDING_TX"}
\* Frames that shutdown abandons are failed frames, each counted once.
Abandoned(c) ==
  {s \in Slot : ~c.counted[s] /\ c.frames[s] \in {"PENDING_TX", "TX_SUBMITTED"}}
Abandon(c) ==
  [c EXCEPT !.failed = TRUE, !.errors = @ + Cardinality(Abandoned(c)),
            !.counted = [s \in Slot |-> @[s] \/ s \in Abandoned(c)]]

\* Mutant: storage is freed whatever the kernel does.
Destroyed_Frees(c) == IF c.storage = "live" THEN [c EXCEPT !.storage = "freed"] ELSE c
\* Storage that a write may still read is kept until the process ends.
Destroyed(c) ==
  IF c.storage = "live" /\ ~c.outstanding THEN [c EXCEPT !.storage = "freed"] ELSE c

\* The second call for a context that was freed once frees it again.
FreesTwice(c) == c.storage = "freed" /\ ~c.outstanding

----------------------------------------------------------------------------
(* The calls.  A thread calls for its own context, the main thread for all. *)

Live(w) == ring[w].storage = "live"
Set(w, c) == ring' = [ring EXCEPT ![w] = c] /\ UNCHANGED wire

\* async_tun_init, which may stop at any context and then destroys all.
InitContexts == ring' = [w \in Writers |-> [ring[w] EXCEPT !.storage = "live"]] /\ UNCHANGED wire
InitFails ==
  /\ \E n \in Writers : ring' = [w \in Writers |->
                          IF w < n THEN [ring[w] EXCEPT !.storage = "freed"] ELSE ring[w]]
  /\ UNCHANGED wire

Write(w, packet) ==
  Live(w) /\ \E how \in Submitted : Set(w, AfterSubmit(ring[w], packet, how))
Service(w) == Live(w) /\ \E how \in Submitted : Set(w, Serviced(ring[w], how))
Stop(w) == Set(w, Stopping(ring[w]))

\* The end of async_tun_finish: all is written, or a failure, or 3 seconds.
Finish(w) == Live(w) /\ Set(w, IF Idle(ring[w]) THEN ring[w] ELSE Abandon(ring[w]))

Destroy == ring' = [w \in Writers |-> Destroyed(ring[w])] /\ UNCHANGED wire

\* The kernel takes the packet from the frame's storage and answers.  An answer
\* to a ring that was given up is read by nobody.
KernelWrites(w) ==
  /\ ring[w].kernel # NoSlot
  /\ \E result \in Results :
       /\ ring' = [ring EXCEPT ![w].kernel = NoSlot, ![w].answer = <<ring[w].kernel, result>>]
       /\ wire' = IF result = "full" THEN Append(wire, ring[w].data[ring[w].kernel]) ELSE wire

----------------------------------------------------------------------------
(* Properties *)

\* A write the kernel has not answered reads storage that is there, in a frame
\* that nobody else can have: it is submitted, and not waiting to be written
\* again.  A drain that times out and the end of the thread change nothing.
KernelOwnsFrame ==
  \A w \in Writers : LET c == ring[w] IN
    c.kernel # NoSlot =>
      /\ c.storage = "live" /\ c.outstanding
      /\ c.frames[c.kernel] = "TX_SUBMITTED"
      /\ \A i \in DOMAIN c.queue : c.queue[i] # c.kernel

\* Each accepted packet is counted once, as written or as failed; those not
\* counted yet are in a frame of their own.
Uncounted(c) ==
  {s \in Slot : c.frames[s] \in {"PENDING_TX", "TX_SUBMITTED"} /\ ~c.counted[s]}
AcceptedCountedOnce ==
  \A w \in Writers :
    ring[w].accepted = ring[w].completed + ring[w].errors + Cardinality(Uncounted(ring[w]))

\* The device sees the packets of a thread in the order they were accepted,
\* and none twice, although frames are taken around a ring and a write fails.
WireInOrder ==
  \A i, j \in DOMAIN wire : i < j /\ wire[i][1] = wire[j][1] => wire[i][2] < wire[j][2]
============================================================================
