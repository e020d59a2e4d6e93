------------------------------ MODULE DataPath ------------------------------
(***************************************************************************)
(* The path of a packet with --dispatch=flows: the main thread reads and   *)
(* dispatches it (FlowDispatch), a worker takes the frame, translates it   *)
(* and writes the result, and the frame goes back to the dispatcher.  This *)
(* module adds the loops of the threads that call the dispatcher, from the *)
(* opening of the start gate to the end of main.                           *)
(*                                                                         *)
(* What translation does to a packet is left out: a frame becomes one      *)
(* packet to write, or none.                                               *)
(***************************************************************************)
EXTENDS FlowDispatch

CONSTANTS NoFrame, NoFlow

VARIABLES
  pc,           \* [Workers -> program counter]
  taken,        \* [Workers -> the frame a worker works on, or NoFrame]
  shutdown,     \* g_shutdown
  ended,        \* main has freed what the workers left
  processed,    \* packets the workers are done with: stats_packet_done
  delivered     \* flow -> number of its last packet that the device took

threadVars == <<pc, taken>>
mainVars == <<shutdown, ended>>
outVars == <<processed, delivered>>
vars == <<dispatchVars, threadVars, mainVars, outVars>>

Flows == {FlowOf(p) : p \in {p \in Packets : Transport(p)}}
LinkFlow(p) == IF Transport(p) THEN FlowOf(p) ELSE NoFlow
Arrival == [n : 1..MaxPackets, p : Packets]

ASSUME NullAssumption == NoFrame \notin Frames /\ NoFlow \notin Flows /\ NoPacket \notin Arrival

\* The device takes a packet; only flows are remembered.
Recorded(a) ==
  [f \in Flows |-> IF f = LinkFlow(a.p) THEN a.n ELSE delivered[f]]

Init ==
  /\ DispatchInit
  /\ pc = [w \in Workers |-> "loop"]
  /\ taken = [w \in Workers |-> NoFrame]
  /\ shutdown = FALSE /\ ended = FALSE
  /\ processed = 0 /\ delivered = [f \in Flows |-> 0]

Goto(w, label) == pc' = [pc EXCEPT ![w] = label]

----------------------------------------------------------------------------
(* The worker *)

\* A turn of the loop: a frame, or a wait for one.
Turn(w) ==
  /\ pc[w] = "loop" /\ ~shutdown
  /\ \/ Take(w) /\ taken' = [taken EXCEPT ![w] = Head(queues[w])] /\ Goto(w, "busy")
     \/ queues[w] = <<>> /\ Goto(w, "wait") /\ UNCHANGED <<dispatchVars, taken>>
  /\ UNCHANGED <<mainVars, outVars>>

Woken(w) ==
  /\ pc[w] = "wait"
  /\ Wait(w) /\ Goto(w, "loop")
  /\ UNCHANGED <<taken, mainVars, outVars>>

\* tun_process_frame, which writes the packet or drops it; then dispatch_release.
Process(w) ==
  /\ pc[w] = "busy"
  /\ processed' = processed + 1
  /\ \/ delivered' = Recorded(frameHolds[taken[w]])
     \/ UNCHANGED delivered
  /\ Release(taken[w])
  /\ taken' = [taken EXCEPT ![w] = NoFrame]
  /\ Goto(w, "loop")
  /\ UNCHANGED mainVars

\* The loop ends on g_shutdown, whatever is left in the queue.
Leave(w) ==
  /\ pc[w] = "loop" /\ shutdown
  /\ Goto(w, "done")
  /\ UNCHANGED <<dispatchVars, taken, mainVars, outVars>>

----------------------------------------------------------------------------
(* The main thread *)

Elsewhere == UNCHANGED <<threadVars, mainVars, outVars>>

\* g_shutdown may be set while main is still in a burst of reads.
MainReads == ~stop /\ Submit /\ Elsewhere

\* At the head of the loop.
MainExpires == ~stop /\ ~shutdown /\ Expire /\ Elsewhere

\* SIGTERM, or a fatal failure of the device in any thread.
Terminate ==
  /\ ~shutdown /\ shutdown' = TRUE
  /\ UNCHANGED <<dispatchVars, threadVars, ended, outVars>>

MainStops == shutdown /\ ~stop /\ Stop /\ Elsewhere

\* Every worker is joined; what they left is counted and freed.
MainEnds ==
  /\ stop /\ ~ended /\ \A w \in Workers : pc[w] = "done"
  /\ Destroy
  /\ ended' = TRUE
  /\ UNCHANGED <<threadVars, shutdown, outVars>>

Time == Tick /\ Elsewhere

\* The process is over.
Over == ended /\ UNCHANGED vars

Next ==
  \/ \E w \in Workers : Turn(w) \/ Woken(w) \/ Process(w) \/ Leave(w)
  \/ MainReads \/ MainExpires \/ MainStops \/ MainEnds
  \/ Terminate \/ Time \/ Over

Spec == Init /\ [][Next]_vars

----------------------------------------------------------------------------
(* Properties *)

Entries == {fragments[c] : c \in Cells}
HeldFrames == UNION {ToSet(e.held) : e \in Entries}

\* The type of every variable, with the bounds that the code gives its arrays:
\* a chain never exceeds its limit, no queue the number of frames, and what is
\* held for up to Lifetime seconds leaves Reserve frames to other packets.
TypeOK ==
  /\ frameState \in [Frames -> FrameStates]
  /\ frameHolds \in [Frames -> Arrival \cup {NoPacket}]
  /\ freeSlots \in Seq(Frames) /\ Len(freeSlots) <= Cardinality(Frames)
  /\ \A w \in Workers : queues[w] \in Seq(Frames) /\ Len(queues[w]) <= Cardinality(Frames)
  /\ wake \in [Workers -> BOOLEAN]
  /\ flowQueue \in [Buckets -> 0..W] /\ nextQueue \in 0..Cardinality(Buckets)
  /\ \A e \in Entries : /\ e.held \in Seq(Frames) /\ Len(e.held) <= MaxHeld
                        /\ e.resolved \in 0..2 /\ e.queue \in 0..W
  /\ Cardinality(HeldFrames) + Reserve <= Cardinality(Frames)
  /\ arrived \in 0..MaxPackets /\ drops \in 0..MaxPackets /\ processed \in 0..MaxPackets
  /\ delivered \in [Flows -> 0..MaxPackets] /\ taken \in [Workers -> Frames \cup {NoFrame}]

\* The places a frame can be in: the free stack, queues, chains and workers' hands.
Positions(s, f) == {i \in DOMAIN s : s[i] = f}
Places(f) ==
  {<<"free", 0, i>> : i \in Positions(freeSlots, f)}
    \cup (UNION {{<<"queue", w, i>> : i \in Positions(queues[w], f)} : w \in Workers})
    \cup (UNION {{<<"chain", c, i>> : i \in Positions(fragments[c].held, f)} : c \in Cells})
    \cup {<<"worker", w, 0>> : w \in {w \in Workers : taken[w] = f}}

\* Until main frees the dispatcher, a frame is on the free stack, in one queue,
\* in one chain or with one worker, and its state says which.
FrameOwnedOnce ==
  ~ended => \A f \in Frames :
    /\ Cardinality(Places(f)) = 1
    /\ frameState[f] = "FREE" <=> \E i \in DOMAIN freeSlots : freeSlots[i] = f
    /\ frameState[f] = "TRANSLATING" <=> \E w \in Workers : taken[w] = f

InUse == {f \in Frames : frameState[f] # "FREE"}

\* Every packet read is counted exactly once, however it leaves: dropped by the
\* dispatcher or processed by a worker; until then it is in one frame.
\* At the end nothing is left inside.
EveryPacketOnce ==
  /\ arrived = drops + processed + Cardinality(InUse)
  /\ ended => InUse = {}

\* Frames a worker has in its queue or in its hands.
Assigned(w) == ToSet(queues[w]) \cup ({taken[w]} \ {NoFrame})

\* The fragments of a datagram are never with two workers at once, whatever is
\* lost, late, repeated or reused for another flow.
DatagramTogether ==
  ~ended => \A u, w \in Workers : \A f \in Assigned(u), g \in Assigned(w) :
    LET p == frameHolds[f].p
        q == frameHolds[g].p
    IN Fragmented(p) /\ p.datagram = q.datagram => u = w

\* A worker that is about to sleep over a queue with frames has been signalled.
NoLostWakeup == \A w \in Workers : pc[w] = "wait" /\ queues[w] # <<>> => wake[w]

----------------------------------------------------------------------------
(* The daemon as a link *)

Numbered(a) == <<a.n, LinkFlow(a.p)>>
LinkTransit == {Numbered(frameHolds[f]) : f \in InUse}

Link == INSTANCE OrderedLink WITH offered <- arrived, transit <- LinkTransit, last <- delivered

\* Whatever the threads, the pool and the fragments do, a flow sees no packet
\* twice and none before an earlier one of the same flow.
ImplementsOrderedLink == Link!LinkSpec
============================================================================
