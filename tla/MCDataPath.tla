----------------------------- MODULE MCDataPath -----------------------------
(***************************************************************************)
(* A small instance of DataPath: two workers, flows A and B with a bucket  *)
(* each, and datagrams whose fragments and first fragments come in any     *)
(* order, are repeated, or reuse an identification.                        *)
(***************************************************************************)
EXTENDS DataPath

CONSTANT None

Raw(proto, src, dst, datagram, first) ==
  [proto |-> proto, src |-> src, dst |-> dst, datagram |-> datagram, first |-> first,
   quote |-> None]

WholeA == Raw("udp", "a1", "b1", None, TRUE)
\* An ICMP error from elsewhere about a packet of the other direction of A.
ErrorA == [Raw("error", "r", "a", None, TRUE) EXCEPT
             !.quote = Raw("udp", "b1", "a1", None, TRUE)]
FirstA == Raw("udp", "a1", "b1", "d", TRUE)
FirstB == Raw("udp", "a2", "b2", "d", TRUE)
LaterD == Raw("udp", "a", "b", "d", FALSE)
Broken == Raw("malformed", "a", "b", None, TRUE)
\* A protocol without ports goes to the first worker.
Other == Raw("esp", "a", "b", None, TRUE)

FlowA == <<"udp", {"a1", "b1"}>>
FlowB == <<"udp", {"a2", "b2"}>>
MCBucketOf == FlowA :> "bA" @@ FlowB :> "bB"
MCCellOf == [d |-> 1]

MCPackets == {FirstA, ErrorA, FirstB, LaterD, Broken}
============================================================================
