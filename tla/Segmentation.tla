---------------------------- MODULE Segmentation ----------------------------
(***************************************************************************)
(* Aggregates (gso.c): with virtio headers the kernel hands over up to     *)
(* 64 KiB of TCP or UDP payload as one packet, to be cut into segments of  *)
(* gso bytes each, and takes such packets back.  tayga translates the      *)
(* header once, unless the segments need different IPv4 headers: then it   *)
(* writes the last one apart, or cuts the packet itself.                   *)
(*                                                                         *)
(* A packet with gso > 0 is an aggregate; the field what says which bytes  *)
(* [lo, lo + len) of a flow it carries and whether with FIN or PSH ("fin") *)
(* and CWR ("cwr").  Aggregates whose virtio header does not fit the       *)
(* packet are dropped, and left out.                                       *)
(***************************************************************************)
EXTENDS Translator

Transport(proto) == IF proto = "tcp" THEN 20 ELSE 8
Payload(p) == p.len - Transport(p.proto)
Segment(p) == Min({Payload(p), p.gso})
Count(p) == IF Payload(p) = 0 THEN 1 ELSE (Payload(p) + p.gso - 1) \div p.gso
\* The last segment, if it is shorter than the others.
TailLen(p) == Payload(p) % p.gso
Aggregate(p) == ~IsError(p) /\ p.gso > 0

\* Bytes [at, at + n) of what an aggregate carries.
Slice(p, at, n, flags) ==
  [p EXCEPT !.gso = 0, !.len = Transport(p.proto) + n, !.what.lo = @ + at, !.what.len = n,
            !.what.flags = @ \cap flags]
Reach(p, i) == Min({i * p.gso, Payload(p)})

\* The kernel's segments: CWR is for the first one, FIN and PSH for the last.
Segments(p) ==
  [i \in 1..Count(p) |->
     Slice(p, Reach(p, i - 1), Reach(p, i) - Reach(p, i - 1),
           (IF i = 1 THEN {"cwr"} ELSE {}) \cup (IF i = Count(p) THEN {"fin"} ELSE {}))]

\* What the kernel makes of a packet written: TCP aggregates of one segment are
\* refused; identifications go up by one unless DF is set.
KernelSegments(p) ==
  IF p.gso = 0 THEN <<p>>
  ELSE IF p.proto = "tcp" /\ Payload(p) <= p.gso THEN <<>>
  ELSE [i \in 1..Count(p) |->
          [Segments(p)[i] EXCEPT !.id = IF p.v = 4 /\ ~p.df THEN Id16(@ + i - 1) ELSE @]]

----------------------------------------------------------------------------
(* Cutting *)

Piece(p, at, n) ==
  Slice(p, at, n, (IF at = 0 THEN {"cwr"} ELSE {}) \cup
                  (IF at + n = Payload(p) THEN {"fin"} ELSE {}))
Cut(p) == [i \in 1..Count(p) |-> Piece(p, Reach(p, i - 1), Reach(p, i) - Reach(p, i - 1))]

\* gso_normalize_tcp_output
Normalized(p) ==
  [p EXCEPT !.gso = IF p.proto = "tcp" /\ Payload(p) <= @ THEN 0 ELSE @]

----------------------------------------------------------------------------
(* IPv6 to IPv4 *)

SegmentAtomic(p, payload) == Atomic(Transport(p.proto) + payload)

\* Mutant: the last segment is forgotten.
Df0Segments_Floor(p) ==
  IF ~SegmentAtomic(p, p.gso) THEN Payload(p) \div p.gso
  ELSE IF TailLen(p) > 0 /\ ~SegmentAtomic(p, TailLen(p)) THEN 1 ELSE 0
\* gso_df0_segments: how many segments need an identification.
Df0Segments(p) ==
  IF Payload(p) = 0 THEN 1
  ELSE IF ~SegmentAtomic(p, p.gso) THEN Count(p)
  ELSE IF TailLen(p) > 0 /\ ~SegmentAtomic(p, TailLen(p)) THEN 1 ELSE 0

\* gso_software_segment_and_send(_udp)_6to4: identifications are taken in turn.
Software64(p) ==
  LET pieces == Cut(p)
      Earlier(i) == Cardinality({j \in 1..i-1 : ~Atomic(pieces[j].len)})
      write == [i \in DOMAIN pieces |->
                  [To4(pieces[i]) EXCEPT !.id =
                     IF Atomic(pieces[i].len) THEN 0 ELSE Id16(ident + Earlier(i))]]
  IN FirstOf(Unmapped6(p), Effect(write, Df0Segments(p)))

\* Mutant: the last segment is not written apart.
Mixed_Never(p) == FALSE
\* All segments but the last one have DF.
Mixed(p) == /\ Payload(p) > p.gso /\ TailLen(p) > 0
            /\ SegmentAtomic(p, p.gso) /\ ~SegmentAtomic(p, TailLen(p))

\* The aggregate of the full segments, then the short one.
Split64(p) ==
  LET full == Payload(p) - TailLen(p)
      head == Normalized([Piece(p, 0, full) EXCEPT !.gso = p.gso])
      tail == Piece(p, full, TailLen(p))
  IN Effect(<<[To4(head) EXCEPT !.df = TRUE, !.id = 0], To4(tail)>>, 1)

Whole64(p) ==
  LET atomic == SegmentAtomic(p, Segment(p))
  IN Effect(<<Normalized([To4(p) EXCEPT !.df = atomic, !.id = IF atomic THEN 0 ELSE ident])>>,
            IF atomic THEN 0 ELSE Count(p))

SegmentTooBig6(p) == 40 + Transport(p.proto) + Segment(p) > gcfg.mtu

ToSelf6(p) == << <<p.to = Tayga, Answer(p, 4, 1, 6)>> >>

\* gso_translate_tcp_6to4
Tcp64(p) ==
  FirstOf(<< <<SegmentTooBig6(p), Answer(p, 2, 0, gcfg.mtu)>>,
             <<p.hops <= 1, Answer(p, 3, 0, 0)>>,
             <<20 + p.len > Length16, FirstOf(ToSelf6(p), Software64(p))>> >>
            \o ToSelf6(p) \o Unmapped6(p),
          IF Mixed(p) THEN Split64(p) ELSE Whole64(p))

\* At most 128 segments, and with its header a segment must fit a UDP length.
Unfit(p) == p.gso > Length16 - 8 \/ Count(p) > 128

\* gso_translate_udp_6to4
Udp64(p) ==
  FirstOf(<< <<p.hops <= 1, Answer(p, 3, 0, 0)>>,
             <<Unfit(p), Drop>>,
             <<SegmentTooBig6(p), Answer(p, 2, 0, gcfg.mtu)>>,
             <<28 + Segment(p) > Length16, Drop>>,
             <<~gcfg.uso \/ 20 + p.len > Length16 \/ Mixed(p),
               FirstOf(ToSelf6(p), Software64(p))>> >>
            \o ToSelf6(p) \o Unmapped6(p),
          Whole64(p))

----------------------------------------------------------------------------
(* IPv4 to IPv6 *)

SegmentTooBig4(p) ==
  p.df /\ 20 + Transport(p.proto) + Segment(p) > gcfg.mtu - MtuAdj

ToSelf4(p) == << <<p.to = Tayga, Answer(p, 3, 2, 0)>> >>
TooBig4(p) == << <<SegmentTooBig4(p), Answer(p, 3, 4, gcfg.mtu - MtuAdj)>> >>
Expired4(p) == << <<p.hops <= 1, Answer(p, 11, 0, 0)>> >>

Whole46(p) == Effect(<<Normalized([To6(p) EXCEPT !.id = 0])>>, 0)
\* gso_software_segment_and_send_udp_4to6
Software46(p) ==
  Effect([i \in 1..Count(p) |-> [To6(Cut(p)[i]) EXCEPT !.id = 0]], 0)

\* gso_translate_tcp_4to6
Tcp46(p) ==
  FirstOf(TooBig4(p) \o Expired4(p) \o ToSelf4(p) \o Unmapped4(p), Whole46(p))

\* gso_translate_udp_4to6
Udp46(p) ==
  FirstOf(Expired4(p) \o << <<Unfit(p), Drop>> >> \o TooBig4(p)
            \o ToSelf4(p) \o Unmapped4(p),
          IF gcfg.uso THEN Whole46(p) ELSE Software46(p))

----------------------------------------------------------------------------
\* handle_ip4 and handle_ip6
Translate(p) ==
  IF ~Aggregate(p) THEN Handle(p)
  ELSE IF p.v = 4 THEN IF p.proto = "tcp" THEN Tcp46(p) ELSE Udp46(p)
  ELSE IF p.proto = "tcp" THEN Tcp64(p) ELSE Udp64(p)
============================================================================
