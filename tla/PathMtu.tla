------------------------------ MODULE PathMtu -------------------------------
(***************************************************************************)
(* Hosts on both sides of a translator with several workers send data      *)
(* through it, learn the MTU of the path from the errors that come back,   *)
(* and send again what did not arrive.  On each side there is a link       *)
(* behind the translator's, whose router fragments IPv4 packets that may   *)
(* be fragmented and answers what is too big, some IPv4 routers without    *)
(* saying what would fit.  Hosts, links and routers are the environment    *)
(* that makes path MTU discovery and reassembly observable.                *)
(***************************************************************************)
EXTENDS Segmentation

CONSTANTS
  Workers,        \* threads that read, translate and write
  FlowNames,      \* the flows of all scenarios
  Scenarios,      \* [gcfg, ident, path, flow, probe]
  MaxLoss,        \* bound on writes to the TUN device that fail
  MaxRefusals     \* bound on packets the far side refuses

\* The fields of a packet and of an error.
PacketFields == {"v", "from", "to", "hops", "proto", "what", "off", "len", "mf", "id", "df",
                 "frag", "gso"}
ErrorFields == {"v", "from", "to", "hops", "proto", "type", "code", "word", "quote"}

Packet(p) ==
  /\ DOMAIN p = PacketFields /\ DOMAIN p.what = {"flow", "lo", "len", "flags"}
  /\ p.v \in {4, 6} /\ p.proto # "error"
  /\ p.v = 4 => p.frag = FALSE
  /\ {p.len, p.what.len} \subseteq Int /\ p.gso \in Nat

\* An error tells the source of a packet about it.
Error(e) ==
  /\ DOMAIN e = ErrorFields
  /\ e.v \in {4, 6} /\ e.proto = "error" /\ e.word \in Nat
  /\ e.to = e.quote.from /\ e.quote.v = e.v
  /\ ~IsError(e.quote) => Packet(e.quote)

TellsMtu(e) == IF e.v = 4 THEN e.type = 3 /\ e.code = 4 ELSE e.type = 2

\* Where a packet lies in the transport packet whose part it is: fragments count
\* in units of 8 bytes, and only the last one reaches the end.
InPlace(p) ==
  /\ p.off \in Nat /\ p.off % 8 = 0
  /\ IF p.mf THEN p.len % 8 = 0 /\ p.off + p.len < Transport(p.proto) + p.what.len
     ELSE p.off + p.len = Transport(p.proto) + p.what.len

\* The kernel hands over whole TCP and UDP packets, UDP in at most 128 segments
\* of a size that fits a packet.
MaxUdpSegments == 128
WellFormed(p) ==
  /\ p.proto \in {"tcp", "udp"} /\ p.hops \in Nat \ {0} /\ p.df \in BOOLEAN
  /\ p.off = 0 /\ p.mf = FALSE /\ p.frag = FALSE
  /\ Payload(p) >= 0 /\ p.what.lo \in Int /\ p.what.flags \subseteq {"cwr", "fin"}
  /\ p.what = [flow |-> p.what.flow, lo |-> p.what.lo, len |-> Payload(p), flags |-> p.what.flags]
  /\ Transport(p.proto) + Segment(p) <= Length16
  /\ p.proto = "udp" => Count(p) <= MaxUdpSegments /\ 8 + p.gso <= Length16

\* tun_setup and config_offlink_mtu accept no MTU below 1280, and IP runs over no
\* link below 1280 (IPv6) or 68 bytes (IPv4).  The far side does not lie about
\* the path; what is in the device's queue at first is no one's data.  No MTU
\* exceeds 65535, and no host sends a packet with a hop limit of zero.
ASSUME ScenarioAssumption ==
  \A s \in Scenarios :
    /\ {s.gcfg.mtu, s.gcfg.offlink} \subseteq Nat
    /\ s.gcfg.mtu >= MtuMin /\ s.gcfg.mtu <= Length16 /\ s.gcfg.offlink >= MtuMin
    /\ {s.path.link[4], s.path.link[6]} \subseteq Nat
    /\ s.path.link[4] >= 68 /\ s.path.link[6] >= MtuMin
    /\ \A r \in s.path.refusals[4] : r[3] \in Nat /\ ~(r[1] = 3 /\ r[2] = 4)
    /\ \A r \in s.path.refusals[6] : r[3] \in Nat /\ (r[1] = 2 => r[3] < 68 + MtuAdj)
    /\ \A f \in DOMAIN s.flow :
         LET d == s.flow[f] IN
         /\ d.v \in {4, 6} /\ d.proto \in {"tcp", "udp"}
         /\ d.hops \in Nat \ {0} /\ d.df \in BOOLEAN
         /\ {d.total, d.link} \subseteq Nat
         /\ d.link >= (IF d.v = 4 THEN 68 ELSE MtuMin) /\ d.link <= Length16
    /\ s.probe \in Seq(ToSet(s.probe))
    /\ \A p \in ToSet(s.probe) :
         IF IsError(p)
         THEN /\ Error(p) /\ ~TellsMtu(p)
              /\ ~IsError(p.quote) => p.quote.what.flow \notin DOMAIN s.flow
         ELSE /\ Packet(p) /\ InPlace(p) /\ p.what.flow \notin DOMAIN s.flow
              /\ p.gso > 0 => WellFormed(p)

VARIABLES
  path,           \* [link: [{4, 6} -> MTU], silent, refusals]
  flow,           \* what each host sends, got through, and knows
  tunq,           \* packets to be read from the TUN device
  out,            \* [Workers -> what a worker has still to write]
  net,            \* packets and fragments beyond the translator
  mail,           \* errors on their way to a host
  lost, refused

vars == <<gcfg, ident, path, flow, tunq, out, net, mail, lost, refused>>

Flows == DOMAIN flow

\* A host has sent nothing yet, and knows of no link but its own.
Starts(d) ==
  [v |-> d.v, from |-> d.from, to |-> d.to, hops |-> d.hops, proto |-> d.proto, how |-> d.how,
   total |-> d.total, df |-> d.df, link |-> d.link, id |-> d.id,
   next |-> 0, pmtu |-> d.link, told |-> FALSE, sends |-> 0]

Init ==
  /\ \E s \in Scenarios :
       /\ gcfg = s.gcfg /\ ident = s.ident /\ path = s.path
       /\ flow = [f \in DOMAIN s.flow |-> Starts(s.flow[f])]
       /\ tunq = s.probe
  /\ out = [w \in Workers |-> <<>>]
  /\ net = {} /\ mail = <<>> /\ lost = 0 /\ refused = 0

----------------------------------------------------------------------------
(* Hosts *)

Concerns(p, f) == IF IsError(p) THEN ~IsError(p.quote) /\ p.quote.what.flow = f
                  ELSE p.what.flow = f
Translated(f) ==
  /\ \A i \in DOMAIN tunq : ~Concerns(tunq[i], f)
  /\ \A w \in Workers : \A i \in DOMAIN out[w] : ~Concerns(out[w][i], f)
Idle(f) ==
  /\ Translated(f)
  /\ \A p \in net : ~Concerns(p, f)
  /\ \A i \in DOMAIN mail : ~Concerns(mail[i], f)

Done(f) == flow[f].next = flow[f].total

\* All that is left, in segments that fit the path as far as it is known.
Batch(f) ==
  LET s == flow[f]
      left == s.total - s.next
  IN [v |-> s.v, from |-> s.from, to |-> s.to, hops |-> s.hops, proto |-> s.proto,
      what |-> [flow |-> f, lo |-> s.next, len |-> left, flags |-> {"fin", "cwr"}],
      off |-> 0, len |-> Transport(s.proto) + left, mf |-> FALSE,
      id |-> IF s.v = 4 \/ s.how = "fragments" THEN s.id + s.sends ELSE 0,
      df |-> s.df, frag |-> s.v = 6 /\ s.how = "fragments",
      gso |-> s.pmtu - Header(s.v) - Transport(s.proto)]

\* A packet in fragments of at most size bytes.
Fragmented(p, size) ==
  LET unit == (size \div 8) * 8
  IN [i \in 1..((p.len + unit - 1) \div unit) |->
        LET done == (i - 1) * unit
        IN [p EXCEPT !.off = @ + done, !.len = Min({unit, p.len - done}),
                     !.mf = @ \/ done + unit < p.len]]

Sent(f) ==
  LET b == Batch(f)
      single == [b EXCEPT !.gso = 0]
  IN IF flow[f].how = "fragments"
     THEN Fragmented(single, flow[f].pmtu - Header(b.v) - (IF b.v = 6 THEN 8 ELSE 0))
     ELSE IF Payload(b) <= b.gso THEN <<single>>
     ELSE IF flow[f].how = "aggregate" /\ (b.proto = "udp" => Count(b) <= MaxUdpSegments)
          THEN <<b>> ELSE Segments(b)

\* Nothing of the flow is under way: a first try, or a timeout.
Send(f) ==
  /\ ~Done(f) /\ ~flow[f].told /\ Idle(f)
  /\ tunq' = tunq \o Sent(f)
  /\ flow' = [flow EXCEPT ![f].sends = (@ + 1) % 3]
  /\ UNCHANGED <<gcfg, ident, path, out, net, mail, lost, refused>>

\* An error changes what the host knows of the path, or ends the flow.
Learn ==
  /\ mail # <<>> /\ mail' = Tail(mail)
  /\ LET e == Head(mail)
         f == e.quote.what.flow
     IN flow' = IF TellsMtu(e)
                THEN [flow EXCEPT ![f].pmtu =
                        Min({@, IF e.v = 6 THEN Max({e.word, MtuMin}) ELSE e.word})]
                ELSE [flow EXCEPT ![f].told = TRUE]
  /\ UNCHANGED <<gcfg, ident, path, tunq, out, net, lost, refused>>

\* Fragments belong together by their identification.
Datagram(p) ==
  IF ~IsFragment(p) THEN {p}
  ELSE {q \in net : /\ IsFragment(q)
                    /\ <<q.v, q.proto, q.from, q.to, q.id>> = <<p.v, p.proto, p.from, p.to, p.id>>}
Complete(d) ==
  \E last \in d : ~last.mf /\ MapThenSumSet(LAMBDA q : q.len, d) = last.off + last.len

\* A receiver has all of a datagram; it wants the bytes in order.
Deliver ==
  /\ \E p \in net :
       /\ Complete(Datagram(p))
       /\ net' = net \ Datagram(p)
       /\ LET f == p.what.flow
          IN flow' = IF f \in Flows /\ p.what.lo = flow[f].next
                     THEN [flow EXCEPT ![f].next = @ + p.what.len] ELSE flow
  /\ UNCHANGED <<gcfg, ident, path, tunq, out, mail, lost, refused>>

\* A part of a datagram never came: the others are thrown away.
Expire ==
  /\ \E p \in net : /\ ~Complete(Datagram(p)) /\ Translated(p.what.flow)
                    /\ net' = net \ Datagram(p)
  /\ UNCHANGED <<gcfg, ident, path, flow, tunq, out, mail, lost, refused>>

----------------------------------------------------------------------------
(* The translator *)

\* A worker reads a packet; identifications are reserved at once.
Take(w) ==
  /\ out[w] = <<>> /\ tunq # <<>>
  /\ LET effect == Translate(Head(tunq))
     IN /\ out' = [out EXCEPT ![w] = effect.writes]
        /\ ident' = Id16(ident + effect.used)
  /\ tunq' = Tail(tunq)
  /\ UNCHANGED <<gcfg, path, flow, net, mail, lost, refused>>

\* A write fails: a loop gives up, after the head of a split the tail follows.
Lose(w) ==
  /\ out[w] # <<>> /\ lost < MaxLoss
  /\ lost' = lost + 1
  /\ \E rest \in {<<>>, Tail(out[w])} : out' = [out EXCEPT ![w] = rest]
  /\ UNCHANGED <<gcfg, ident, path, flow, tunq, net, mail, refused>>

----------------------------------------------------------------------------
(* Links and routers *)

Fits(p) == Header(p.v) + (IF p.frag THEN 8 ELSE 0) + p.len <= path.link[p.v]

ErrorAbout(p, type, code, word) ==
  [v |-> p.v, from |-> IF p.v = 4 THEN "r4" ELSE "r6", to |-> p.from, hops |-> 64,
   proto |-> "error", type |-> type, code |-> code, word |-> word, quote |-> p]

TooBigError(p) ==
  IF p.v = 6 THEN ErrorAbout(p, 2, 0, path.link[6])
  ELSE ErrorAbout(p, 3, 4, IF path.silent THEN 0 ELSE path.link[4])

\* Packets passed on, and errors that go back through the translator.
Passed(packets) ==
  UNION {IF Fits(p) THEN {p}
         ELSE IF p.v = 4 /\ ~p.df THEN ToSet(Fragmented(p, path.link[4] - 20)) ELSE {} :
           p \in ToSet(packets)}
Refused(packets) ==
  FlattenSeq([i \in DOMAIN packets |->
                LET p == packets[i]
                IN IF ~Fits(p) /\ (p.v = 6 \/ p.df) THEN <<TooBigError(p)>> ELSE <<>>])

\* A worker writes a packet.
Write(w) ==
  /\ out[w] # <<>>
  /\ out' = [out EXCEPT ![w] = Tail(@)]
  /\ LET p == Head(out[w])
     IN IF IsError(p)
        THEN /\ mail' = IF \E f \in Flows : Concerns(p, f) THEN Append(mail, p) ELSE mail
             /\ UNCHANGED <<net, tunq, refused>>
        ELSE /\ UNCHANGED mail
             /\ LET packets == KernelSegments(p)
                IN \/ /\ net' = net \cup Passed(packets)
                      /\ tunq' = tunq \o Refused(packets)
                      /\ UNCHANGED refused
                   \* The far side answers with another error.
                   \/ /\ packets # <<>> /\ refused < MaxRefusals /\ refused' = refused + 1
                      /\ \E r \in path.refusals[p.v] :
                           tunq' = Append(tunq, ErrorAbout(packets[1], r[1], r[2], r[3]))
                      /\ UNCHANGED net
  /\ UNCHANGED <<gcfg, ident, path, flow, lost>>

Settled == (\A f \in Flows : Done(f) \/ flow[f].told) /\ (\A f \in Flows : Idle(f)) /\ tunq = <<>>
           /\ UNCHANGED vars

Next ==
  \/ \E f \in Flows : Send(f)
  \/ Learn
  \/ Deliver \/ Expire
  \/ \E w \in Workers : Take(w) \/ Write(w) \/ Lose(w)
  \/ Settled

Fairness ==
  /\ \A f \in FlowNames : WF_vars(f \in Flows /\ Send(f))
  /\ WF_vars(Learn) /\ WF_vars(Deliver) /\ WF_vars(Expire)
  /\ \A w \in Workers : WF_vars(Take(w)) /\ WF_vars(Write(w))

Spec == Init /\ [][Next]_vars
LiveSpec == Spec /\ Fairness

----------------------------------------------------------------------------
(* Properties *)

\* A host never believes that less fits the path than does, down to the 1280
\* bytes every IPv6 path carries; behind a router that does not say what fits,
\* down to the next plateau.
Plateau(mtu) == Max({Plateaus[i] : i \in {j \in DOMAIN Plateaus : Plateaus[j] <= mtu}})
Carried(s) ==
  IF s.v = 4 THEN Min({s.link, gcfg.mtu - 20, path.link[6] - 20})
  ELSE LET far == IF path.silent THEN Plateau(path.link[4]) ELSE path.link[4]
       IN Min({s.link, gcfg.mtu, Max({far + 20, 1280})})
EstimateJustified == \A f \in Flows : flow[f].pmtu >= Carried(flow[f])

\* Everything a host sends arrives, or the host is told why not: no packet is
\* too big for ever without an error that lets its source do better.
DeliveredInTheEnd ==
  \A f \in FlowNames : <>(f \in Flows => Done(f) \/ flow[f].told)

\* Fragments in the network that will be taken for parts of one datagram are
\* parts of one datagram, do not overlap, and fill it up: also when segments
\* of two workers are fragmented on their way, and fragments once more.
AllInPlace == \A p \in net : InPlace(p)
ReassembledRight ==
  /\ AllInPlace
  /\ \A p \in net : IsFragment(p) =>
       \A q \in Datagram(p) :
         p.what = q.what /\ (p = q \/ p.off + p.len <= q.off \/ q.off + q.len <= p.off)

\* An aggregate leaves tayga, and is cut by the kernel, as its segments would if
\* they came one by one.  If they are answered by errors, it is by one; if they
\* are dropped, nothing of it passes either (it may be answered: sizes are looked
\* at before addresses).  (Segments of an IPv4 aggregate without DF are not
\* fragmented, as packets are.)
Comparable(p) == p.v = 4 /\ ~p.df => Transport(p.proto) + Segment(p) <= Room
Anonymous(p) == [p EXCEPT !.id = 0]
LikeSegments(p) ==
  LET apart == FlattenSeq([i \in 1..Count(p) |-> Translate(Segments(p)[i]).writes])
      written == Translate(p).writes
      together == FlattenSeq([i \in DOMAIN written |-> 
                    IF IsError(written[i]) THEN <<written[i]>> ELSE KernelSegments(written[i])])
  IN IF apart # <<>> /\ ~IsError(apart[1])
     THEN /\ Len(together) = Len(apart)
          /\ \A i \in DOMAIN apart : Anonymous(together[i]) = Anonymous(apart[i])
     ELSE /\ Len(together) <= 1 /\ (apart # <<>> => together # <<>>)
          /\ \A e \in ToSet(together) : IsError(e) /\ e.to = p.from
LikePackets ==
  LET p == Head(tunq)
  IN tunq # <<>> /\ Aggregate(p) /\ Comparable(p) => LikeSegments(p)

\* What an error says, whatever the version of IP.
Field4(ptr) == IF ptr \in {2, 3} THEN "length" ELSE IF ptr \in 12..15 THEN "src"
               ELSE IF ptr \in 16..19 THEN "dst" ELSE
               CASE ptr = 0 -> "version" [] ptr = 1 -> "class" [] ptr = 8 -> "hops"
                 [] ptr = 9 -> "protocol" [] OTHER -> "other"
Field6(ptr) == IF ptr \in {4, 5} THEN "length" ELSE IF ptr \in 8..23 THEN "src"
               ELSE IF ptr \in 24..39 THEN "dst" ELSE
               CASE ptr = 0 -> "version" [] ptr = 1 -> "class" [] ptr = 7 -> "hops"
                 [] ptr = 6 -> "protocol" [] OTHER -> "other"
Says4(e) ==
  CASE e.type = 3 /\ e.code \in {9, 10, 13, 15} -> "prohibited"
    [] e.type = 3 /\ e.code = 2 -> "protocol"
    [] e.type = 3 /\ e.code = 3 -> "port"
    [] e.type = 3 /\ e.code = 4 -> "too big"
    [] e.type = 11 -> "expired"
    [] e.type = 12 -> Field4(e.word)
    [] OTHER -> "unreachable"
Says6(e) ==
  CASE e.type = 1 /\ e.code \in {1, 5, 6} -> "prohibited"
    [] e.type = 1 /\ e.code = 4 -> "port"
    [] e.type = 2 -> "too big"
    [] e.type = 3 -> "expired"
    [] e.type = 4 /\ e.code = 1 -> "protocol"
    [] e.type = 4 /\ e.code = 0 -> Field6(e.word)
    [] OTHER -> "unreachable"
Says(e) == IF e.v = 4 THEN Says4(e) ELSE Says6(e)

\* No error is about an error or a reply, so two machines never answer each
\* other's errors; a translated one tells the source of the packet it quotes
\* what the original said of that packet.
ErrorsKeepMeaning ==
  tunq # <<>> =>
    LET p == Head(tunq) IN
    \A e \in ToSet(Translate(p).writes) :
      IsError(e) =>
        /\ e.quote.proto \notin {"error", "reply"}
        /\ e.to = e.quote.from /\ e.v = e.quote.v
        /\ IsError(p) => Says(e) = Says(p) /\ e.quote.what = p.quote.what
============================================================================
