--------------------------- MODULE MCDynDatabase ---------------------------
(***************************************************************************)
(* A pool of two addresses for the database, with a restart.               *)
(***************************************************************************)
EXTENDS DynDatabase

TwoHosts == {"h1", "h2"}
NoOne == "none"
DbHomes == [h1 |-> 2, h2 |-> 2]

\* tayga.conf may be edited to cover an address, or a host.
Edited ==
  {[v4 |-> {}, v6 |-> {}], [v4 |-> {1}, v6 |-> {}], [v4 |-> {}, v6 |-> {"h2"}]}

\* tayga.conf stays as it is.
Unedited == {[v4 |-> {}, v6 |-> {}]}

\* Times at which the daemon may start; the bound of the clock is 4.
EarlyOrLate == {2, 3}
=============================================================================
