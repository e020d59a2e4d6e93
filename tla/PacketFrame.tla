---------------------------- MODULE PacketFrame ----------------------------
(***************************************************************************)
(* The ownership contract of packet_io_lifetime.h: a frame of a fixed pool *)
(* is free, being filled, translated, waiting to be written, the kernel's, *)
(* or completed.  A transition that the table does not allow returns an    *)
(* error and leaves the frame alone; the callers in experimental_io.c      *)
(* ignore the error.                                                       *)
(*                                                                         *)
(* Generations and pool identities are left out: each slot has one token,  *)
(* renewed whenever the slot is acquired, and no caller keeps a copy.      *)
(***************************************************************************)

Receiving == {"FREE", "RX_POSTED", "RECEIVED"}
Sending == {"TRANSLATING", "PENDING_TX", "TX_SUBMITTED", "COMPLETED"}
FrameStates == Receiving \cup Sending

\* packet_frame_acquire succeeds on a free frame of a pool that is not stopping.
Acquirable(state, stopping) == ~stopping /\ state = "FREE"

Allowed(from, to, stopping) ==
  CASE to = "RX_POSTED"    -> from = "RECEIVED" /\ ~stopping
    [] to = "RECEIVED"     -> from = "RX_POSTED"
    [] to = "TRANSLATING"  -> from = "RECEIVED"
    [] to = "PENDING_TX"   -> from = "TRANSLATING"
    [] to = "TX_SUBMITTED" -> from \in {"TRANSLATING", "PENDING_TX"}
    [] to = "COMPLETED"    -> from = "TX_SUBMITTED"
    [] to = "FREE"         -> from \in {"RECEIVED", "TRANSLATING", "PENDING_TX", "COMPLETED"}

\* packet_frame_transition; a frame in use has a length, and no pool is used
\* after packet_frame_backend_closed.
Transition(from, to, stopping) == IF Allowed(from, to, stopping) THEN to ELSE from

\* packet_frame_backend_closed refuses a pool that is not stopping.
BackendClosed(state, stopping) ==
  IF stopping /\ state \in {"RX_POSTED", "TX_SUBMITTED"} THEN "COMPLETED" ELSE state
============================================================================
