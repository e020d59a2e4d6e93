----------------------------- MODULE LeaseTable -----------------------------
(***************************************************************************)
(* What TAYGA promises of its dynamic pool, without lists, locks or cache: *)
(* an address is free, mapped (its host is being translated) or dormant    *)
(* (kept for its host, but others may take it over); a mapped address is   *)
(* never given away, a host never has two, and only the dormant lease that *)
(* has been idle longest changes hands.                                    *)
(***************************************************************************)
EXTENDS Integers

CONSTANTS Addrs, Hosts, NoHost, MinLease, MaxLease, MaxTime, Boot

VARIABLES now, table

vars == <<now, table>>

Free == [st |-> "free", host |-> NoHost, last |-> 0]
In(st) == {a \in Addrs : table[a].st = st}
Known(h) == {a \in Addrs : table[a].st # "free" /\ table[a].host = h}

Init == now \in Boot /\ table = [a \in Addrs |-> Free]

Give(a, h) ==
  /\ table' = [table EXCEPT ![a] = [st |-> "mapped", host |-> h, last |-> now]]
  /\ UNCHANGED now

\* A host nobody knows gets a free address.
Grant(a, h) == table[a].st = "free" /\ Known(h) = {} /\ Give(a, h)

\* A host comes back to its own address.
Return(a) == table[a].st = "dormant" /\ Give(a, table[a].host)

\* A host nobody knows takes over the lease that has been idle longest.
TakeOver(a, h) ==
  /\ table[a].st = "dormant"
  /\ Known(h) = {}
  /\ \A b \in In("dormant") : table[a].last <= table[b].last
  /\ Give(a, h)


\* The last use is brought up to date.
Use(a) ==
  /\ table[a].st = "mapped"
  /\ \E t \in table[a].last .. now : table'[a] = [table[a] EXCEPT !.last = t]

\* An idle lease rests; one that has been idle for too long is freed.
Idle(a) == table[a].st = "mapped" /\ table[a].last + MinLease < now
Rest(a) == Idle(a) /\ table'[a] = [table[a] EXCEPT !.st = "dormant"]
Expire(a) ==
  /\ table[a].st = "dormant" \/ Idle(a)
  /\ table[a].last + MaxLease < now
  /\ table'[a] = Free

\* Each of these may happen to several leases in one step.
Uses ==
  /\ UNCHANGED now
  /\ \A a \in Addrs : table'[a] = table[a] \/ Use(a)
  /\ table' = [a \in Addrs |-> table'[a]]

Ages ==
  /\ UNCHANGED now
  /\ \A a \in Addrs : table'[a] = table[a] \/ Rest(a) \/ Expire(a)
  /\ table' = [a \in Addrs |-> table'[a]]

Tick == now < MaxTime /\ now' = now + 1 /\ UNCHANGED table

Next ==
  \/ Tick
  \/ Uses
  \/ Ages
  \/ \E a \in Addrs : Return(a)
  \/ \E a \in Addrs, h \in Hosts : Grant(a, h) \/ TakeOver(a, h)

Spec == Init /\ [][Next]_vars
=============================================================================
