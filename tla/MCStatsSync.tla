---------------------------- MODULE MCStatsSync ----------------------------
(***************************************************************************)
(* The main loop, one worker and the telemetry thread.                     *)
(***************************************************************************)
EXTENDS StatsSync

\* The worker counts enough to fill a batch, the main loop a single packet.
OneAndTwo == [s \in Slots |-> IF s = Main THEN 1 ELSE 2]
=============================================================================
