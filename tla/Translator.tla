----------------------------- MODULE Translator -----------------------------
(***************************************************************************)
(* What becomes of one packet read from the TUN device (nat64.c): an IPv6  *)
(* packet is translated to IPv4 or the other way, is answered by tayga     *)
(* itself, or is dropped.                                                  *)
(*                                                                         *)
(* A packet is a record.  Its payload is a slice [off, off + len) of a     *)
(* transport packet "what"; lengths count bytes and leave out the IP and   *)
(* fragment headers.  An address is a node, whatever the IP version; what  *)
(* the address mapper says of it is Mapping.  Checksums, IPv4 options and  *)
(* IPv6 extension headers are left out, and packets that are too short to  *)
(* parse.                                                                  *)
(***************************************************************************)
EXTENDS Integers, Sequences, SequencesExt, FiniteSetsExt

CONSTANTS
  Tayga,          \* local_addr4 and local_addr6
  Mapping         \* [nodes -> {"ok", "reject", "drop"}]

VARIABLES
  gcfg,           \* [mtu, offlink: ipv6_offlink_mtu, uso: tun_has_uso]
  ident           \* global_ip4_ident

MtuMin == 1280
MtuAdj == 20
Header(v) == IF v = 6 THEN 40 ELSE 20
Length16 == 65535
Id16(n) == n % 65536

\* The outcome of the first condition that holds, or else.
FirstOf(checks, else) ==
  LET hit == {i \in DOMAIN checks : checks[i][1]}
  IN IF hit = {} THEN else
     ELSE checks[CHOOSE i \in hit : \A j \in hit : i <= j][2]

\* What a handler does: packets written, identifications reserved.
Effect(writes, used) == [writes |-> writes, used |-> used]
Drop == Effect(<<>>, 0)

IsError(p) == p.proto = "error"
IsFragment(p) == p.off > 0 \/ p.mf

----------------------------------------------------------------------------
(* What tayga says itself *)

\* Mutant: an error is answered like any packet.
Answer_Always(p, type, code, word) ==
  Effect(<<[v |-> p.v, from |-> Tayga, to |-> p.from, hops |-> 64, proto |-> "error",
            type |-> type, code |-> code, word |-> word, quote |-> p]>>, 0)
\* host_send_icmp4_error and host_send_icmp6_error: of ICMP messages, only an
\* echo request is answered by an error.
Answer(p, type, code, word) ==
  IF p.proto \in {"error", "reply"} THEN Drop
  ELSE Effect(<<[v |-> p.v, from |-> Tayga, to |-> p.from, hops |-> 64, proto |-> "error",
                 type |-> type, code |-> code, word |-> word, quote |-> p]>>, 0)

\* host_handle_icmp4 and host_handle_icmp6, and any other packet to tayga.
ToSelf(p) ==
  IF p.proto = "echo"
  THEN Effect(<<[p EXCEPT !.from = p.to, !.to = p.from, !.hops = 64, !.proto = "reply"]>>, 0)
  ELSE IF p.v = 4 THEN Answer(p, 3, 2, 0) ELSE Answer(p, 4, 1, 6)

Unmapped(p, unreachable, prohibited) ==
  << <<Mapping[p.to] = "reject", Answer(p, unreachable[1], unreachable[2], 0)>>,
     <<Mapping[p.to] = "drop", Drop>>,
     <<Mapping[p.from] = "reject", Answer(p, prohibited[1], prohibited[2], 0)>>,
     <<Mapping[p.from] = "drop", Drop>> >>
Unmapped4(p) == Unmapped(p, <<3, 1>>, <<3, 10>>)
Unmapped6(p) == Unmapped(p, <<1, 0>>, <<1, 5>>)

----------------------------------------------------------------------------
(* IPv4 to IPv6 *)

To6(p) == [p EXCEPT !.v = 6, !.hops = @ - 1, !.df = FALSE, !.frag = FALSE]

\* What fits in an IPv6 packet, and in one with a fragment header.
Room == Min({gcfg.offlink, gcfg.mtu}) - 40
FragmentSize == ((Room - 8) \div 8) * 8

\* Fragments of an IPv4 packet or of an IPv4 fragment.
Fragments6(p) ==
  LET count == (p.len + FragmentSize - 1) \div FragmentSize
  IN [i \in 1..count |->
        LET done == (i - 1) * FragmentSize
        IN [To6(p) EXCEPT !.frag = TRUE, !.off = p.off + done,
                          !.len = Min({FragmentSize, p.len - done}),
                          !.mf = i < count \/ p.mf]]

\* xlate_4to6_data.  DF is not respected for what is a fragment already.
Data46(p) ==
  FirstOf(Unmapped4(p) \o
          << <<~IsFragment(p) /\ p.df /\ 40 + p.len > gcfg.mtu,
               Answer(p, 3, 4, gcfg.mtu - MtuAdj)>>,
             <<~IsFragment(p) /\ (p.df \/ p.len <= Room),
               Effect(<<[To6(p) EXCEPT !.id = 0]>>, 0)>> >>,
          Effect(Fragments6(p), 0))

\* est_mtu: the plateaus of RFC 1191.
Plateaus == <<65535, 32000, 17914, 8166, 4352, 2002, 1492, 1006, 508, 296, 68>>
EstMtu(size) ==
  LET below == {i \in DOMAIN Plateaus : Plateaus[i] < size}
  IN IF below = {} THEN 68 ELSE Plateaus[CHOOSE i \in below : \A j \in below : i <= j]

\* Mutant: what a router without RFC 1191 says is taken at its word.
MtuTo6_Believes(word, size) == Max({Min({word + MtuAdj, gcfg.mtu}), MtuMin})
\* The MTU a Packet Too Big gets from a Fragmentation Needed.
MtuTo6(word, size) ==
  LET mtu == IF word < 68 THEN EstMtu(size) ELSE word
  IN Max({Min({mtu + MtuAdj, gcfg.mtu}), MtuMin})

Pointers46 == <<0, 1, 4, 4, -1, -1, -1, -1, 7, 6, -1, -1, 8, 8, 8, 8, 24, 24, 24, 24>>

NoMeaning == <<-1, -1, -1>>
\* <<type, code, word>> for IPv6.
Error46(e) ==
  CASE e.type = 3 /\ e.code \in {0, 1, 5, 6, 7, 8, 11, 12} -> <<1, 0, 0>>
    [] e.type = 3 /\ e.code = 2 -> <<4, 1, 6>>
    [] e.type = 3 /\ e.code = 3 -> <<1, 4, 0>>
    [] e.type = 3 /\ e.code = 4 -> <<2, 0, MtuTo6(e.word, 20 + e.quote.len)>>
    [] e.type = 3 /\ e.code \in {9, 10, 13, 15} -> <<1, 1, 0>>
    [] e.type = 11 -> <<3, e.code, 0>>
    [] e.type = 12 /\ e.code \in {0, 2} /\ e.word <= 19 ->
         IF Pointers46[e.word + 1] < 0 THEN NoMeaning ELSE <<4, 0, Pointers46[e.word + 1]>>
    [] OTHER -> NoMeaning

\* The quoted packet; its hop limit is not decremented.
Quote46(q) ==
  [q EXCEPT !.v = 6, !.df = FALSE, !.frag = IsFragment(q), !.id = IF IsFragment(q) THEN @ ELSE 0]

\* The quoted packet can be translated: it is no ICMP message but a request,
\* its nodes have a mapping, and the other version has such an error.
Quotable(e, meaning) ==
  /\ e.quote.proto \notin {"error", "reply"} /\ meaning # NoMeaning
  /\ Mapping[e.quote.from] = "ok" /\ Mapping[e.quote.to] = "ok"

\* A translated error, or none.
Errored(e, meaning, quote) ==
  IF ~Quotable(e, meaning) \/ Mapping[e.to] # "ok"
  THEN <<>>
  ELSE <<[e EXCEPT !.v = 10 - @, !.hops = @ - 1, !.quote = quote,
                   !.type = meaning[1], !.code = meaning[2], !.word = meaning[3],
                   !.from = IF Mapping[@] = "ok" THEN @ ELSE Tayga]>>

\* xlate_4to6_icmp_error
ErrorTo6(e) == Effect(Errored(e, Error46(e), Quote46(e.quote)), 0)

----------------------------------------------------------------------------
(* IPv6 to IPv4 *)

\* Mutant: small packets must not be fragmented either.
Atomic_Always(len) == TRUE
\* Packets of up to 1260 bytes may be fragmented on their way: IPv6 hosts need
\* not go below 1280.
Atomic(len) == 20 + len > MtuMin - MtuAdj

\* xlate_header_6to4.  Fragments keep the identification their source chose.
To4(p) ==
  [p EXCEPT !.v = 4, !.hops = @ - 1, !.frag = FALSE,
            !.df = ~p.frag /\ Atomic(p.len),
            !.id = IF p.frag THEN Id16(p.id) ELSE IF Atomic(p.len) THEN 0 ELSE ident]
Reserves(p) == IF p.frag \/ Atomic(p.len) THEN 0 ELSE 1

TooBig6(p) == 40 + p.len > gcfg.mtu

\* xlate_6to4_data
Data64(p) ==
  FirstOf(Unmapped6(p) \o << <<TooBig6(p), Answer(p, 2, 0, gcfg.mtu)>> >>,
          Effect(<<To4(p)>>, Reserves(p)))

Pointer64(word) ==
  IF word > 39 THEN -1 ELSE IF word > 23 THEN 16 ELSE IF word > 7 THEN 12
  ELSE <<0, 1, -1, -1, 2, 2, 9, 8>>[word + 1]

\* <<type, code, word>> for IPv4.
Error64(e) ==
  CASE e.type = 1 /\ e.code \in {0, 2, 3} -> <<3, 1, 0>>
    [] e.type = 1 /\ e.code \in {1, 5, 6} -> <<3, 10, 0>>
    [] e.type = 1 /\ e.code = 4 -> <<3, 3, 0>>
    [] e.type = 2 /\ e.word >= 68 + MtuAdj -> <<3, 4, Min({e.word, gcfg.mtu}) - MtuAdj>>
    [] e.type = 3 -> <<11, e.code, 0>>
    [] e.type = 4 /\ e.code = 0 ->
         IF Pointer64(e.word) < 0 THEN NoMeaning ELSE <<12, 0, Pointer64(e.word)>>
    [] e.type = 4 /\ e.code = 1 -> <<3, 2, 0>>
    [] OTHER -> NoMeaning

Quote64(q) == [To4(q) EXCEPT !.hops = q.hops]

\* xlate_6to4_icmp_error.  The quoted header may use an identification, even if
\* the error is dropped after that; the header of the error uses the next one.
ErrorTo4(e) ==
  LET out == Errored(e, Error64(e), IF IsError(e.quote) THEN e.quote ELSE Quote64(e.quote))
  IN Effect(out, (IF Quotable(e, Error64(e)) THEN Reserves(e.quote) ELSE 0) + Len(out))

----------------------------------------------------------------------------
(* handle_ip4 and handle_ip6, for a packet that is no aggregate *)

\* parse_ip4 and parse_ip6: ICMP in fragments, and fragments that leave gaps.
Malformed(p) ==
  /\ ~IsError(p)
  /\ \/ IsFragment(p) /\ p.proto \in {"echo", "reply"}
     \/ p.mf /\ p.len % 8 # 0
     \/ p.off + p.len > Length16

Handle(p) ==
  IF Malformed(p) \/ p.hops = 0 THEN Drop
  ELSE IF p.to = Tayga THEN ToSelf(p)
  ELSE IF p.hops = 1 THEN IF p.v = 4 THEN Answer(p, 11, 0, 0) ELSE Answer(p, 3, 0, 0)
  ELSE IF IsError(p) THEN IF p.v = 4 THEN ErrorTo6(p) ELSE ErrorTo4(p)
  ELSE IF p.v = 4 THEN Data46(p) ELSE Data64(p)
============================================================================
