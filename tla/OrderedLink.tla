---------------------------- MODULE OrderedLink ----------------------------
(***************************************************************************)
(* What a flow sees of the daemon: a link that may lose packets, but       *)
(* neither duplicates them nor changes their order within the flow.        *)
(*                                                                         *)
(* Packets are numbered as they are offered.  A packet of no flow (a later *)
(* fragment) is ordered against nothing.                                   *)
(***************************************************************************)
EXTENDS Integers

CONSTANTS Flows, NoFlow

VARIABLES
  offered,      \* packets offered so far
  transit,      \* <<number, flow>> of the packets inside
  last          \* flow -> number of its last packet that came out

linkVars == <<offered, transit, last>>

LinkInit == offered = 0 /\ transit = {} /\ last = [f \in Flows |-> 0]

\* A packet is offered and taken in, or lost at once.
Offer ==
  /\ offered' = offered + 1
  /\ \/ \E f \in Flows \cup {NoFlow} : transit' = transit \cup {<<offered', f>>}
     \/ transit' = transit
  /\ UNCHANGED last

Deliver(packet) ==
  /\ packet \in transit
  /\ transit' = transit \ {packet}
  /\ \/ packet[2] = NoFlow /\ last' = last
     \/ /\ packet[2] # NoFlow /\ last[packet[2]] < packet[1]
        /\ last' = [last EXCEPT ![packet[2]] = packet[1]]
  /\ UNCHANGED offered

Lose ==
  /\ \E lost \in SUBSET transit : lost # {} /\ transit' = transit \ lost
  /\ UNCHANGED <<offered, last>>

LinkNext == Offer \/ Lose \/ \E packet \in transit : Deliver(packet)

LinkSpec == LinkInit /\ [][LinkNext]_linkVars
============================================================================
