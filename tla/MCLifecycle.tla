---------------------------- MODULE MCLifecycle ----------------------------
(***************************************************************************)
(* A daemon with two workers and an administrator, on a host whose device  *)
(* is not there, is up with addresses and a route, or is down.             *)
(***************************************************************************)
EXTENDS Lifecycle

CONSTANTS daemon, admin

MCModes == (daemon :> {"run"}) @@ (admin :> {"mktun", "rmtun"})

\* d1 is routed over another interface, d2 by tayga.conf, d1 by both.
Routes(r1, r2) == [d \in Dests |-> IF d = "d1" THEN r1 ELSE r2]
Device(up, persist, addrs, routes) ==
  [exists |-> TRUE, up |-> up, persist |-> persist, addrs |-> addrs, routes |-> routes]

MCNetworks ==
  { Absent @@ ("routes" :> Routes("other", "none")),
    Device(TRUE, TRUE, {"a4", "a6"}, Routes("other", "static")),
    Device(TRUE, TRUE, {"a6"}, Routes("static", "other")),
    Device(FALSE, TRUE, {"b4"}, Routes("none", "none")) }

MCConf == [addrs |-> {"a4"}, routes |-> {"d1"}, up |-> TRUE]

\* The second worker queue takes TCP only.
MCAble == [q \in 0..Queues |-> IF q = 2 THEN {"tcp", "none"} ELSE {"udp", "tcp", "none"}]
\* One worker has packets to write; the other only comes and goes.
MCQuota == <<2, 0>>
============================================================================
