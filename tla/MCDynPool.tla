----------------------------- MODULE MCDynPool -----------------------------
(***************************************************************************)
(* A pool of 0..4 with two usable addresses, static mappings before and    *)
(* between them, and more hosts than addresses.                            *)
(***************************************************************************)
EXTENDS DynPool

FourHosts == {"h1", "h2", "h3", "h4"}
NoOne == "none"

\* An override, the last address, the reserved one and a usable one.
Homes == [h1 |-> 3, h2 |-> 4, h3 |-> 0, h4 |-> 2]
Overrides == {[v4 |-> {1, 3}, v6 |-> {}]}
=============================================================================
