----------------------------- MODULE MCPathMtu ------------------------------
(***************************************************************************)
(* Scenarios for PathMtu: one or two flows over a path, the configuration  *)
(* of the translator, and what is in the device's queue at first.  Link    *)
(* sizes are those of tunnels and slow links, and the least that each      *)
(* version of IP has; ident starts where it is about to wrap.              *)
(***************************************************************************)
EXTENDS PathMtu

\* The router on the IPv6 side has no IPv4 address.
MCMapping ==
  [n \in {"h4", "h6", "r4", "r6", "stranger", "tayga", "void"} |->
     IF n \in {"h4", "h6", "r4"} THEN "ok" ELSE IF n = "void" THEN "drop" ELSE "reject"]

To4Side(proto, how, total) ==
  [v |-> 6, from |-> "h6", to |-> "h4", hops |-> 64, proto |-> proto, how |-> how,
   total |-> total, df |-> FALSE, link |-> 1500, id |-> 65536 + 7]
To6Side(proto, how, total, df) ==
  [v |-> 4, from |-> "h4", to |-> "h6", hops |-> 64, proto |-> proto, how |-> how,
   total |-> total, df |-> df, link |-> 1500, id |-> 9]

Path(link4, link6, silent) ==
  [link |-> (4 :> link4 @@ 6 :> link6), silent |-> silent, refusals |-> (4 :> {} @@ 6 :> {})]
Config(mtu, offlink, uso) == [mtu |-> mtu, offlink |-> offlink, uso |-> uso]

Scenario(config, path0, flows) ==
  [gcfg |-> config, ident |-> 65534, path |-> path0, flow |-> flows, probe |-> <<>>]

\* Path MTU discovery, by packets and by aggregates, in both directions.
Discovery ==
  {Scenario(Config(mtu, 1280, uso), Path(link4, link6, silent), ("a" :> f)) :
     mtu \in {1280, 1500}, link4 \in {68, 576, 1259, 1400}, link6 \in {1280, 1380},
     silent \in BOOLEAN, uso \in {TRUE},
     f \in {To4Side("tcp", "packets", 1500), To4Side("tcp", "aggregate", 2500),
            To6Side("tcp", "packets", 1500, TRUE), To6Side("udp", "aggregate", 2000, TRUE)}}

  \cup {Scenario(Config(9000, 1280, TRUE), Path(4400, 9000, silent),
                ("a" :> [To4Side("tcp", "packets", 7000) EXCEPT !.link = 9000])) :
           silent \in BOOLEAN}

\* Small packets of two workers, fragmented by the router behind, with
\* identifications that wrap; fragments that are fragmented once more.
Linked(f, link) == [f EXCEPT !.link = link]
Pair(uso, a, b) ==
  Scenario(Config(1500, 1280, uso), Path(576, 1500, FALSE), ("a" :> a) @@ ("b" :> b))
Small(proto, how, total) == Linked(To4Side(proto, how, total), 1280)
Reassembly ==
  { Pair(TRUE, Small("tcp", "aggregate", 2000), Small("tcp", "packets", 600)),
    Pair(FALSE, Small("udp", "aggregate", 2000), Small("udp", "packets", 600)),
    Pair(TRUE, Small("udp", "aggregate", 2000), Small("udp", "packets", 600)),
    Pair(TRUE, To4Side("tcp", "aggregate", 1600), Small("tcp", "packets", 600)),
    Pair(TRUE, To4Side("udp", "aggregate", 1600), Small("udp", "packets", 600)),
    Pair(TRUE, Small("tcp", "packets", 600), To6Side("udp", "fragments", 1500, TRUE)) }
  \cup {Scenario(Config(1500, offlink, TRUE), Path(576, 1500, FALSE), ("a" :> f)) :
     offlink \in {1300, 1400},
     f \in {To4Side("udp", "fragments", 2000), To6Side("udp", "fragments", 2000, TRUE),
            To6Side("udp", "packets", 1480, FALSE), Linked(To6Side("tcp", "aggregate", 2000, FALSE), 1240)}}

\* Segments that do not add up to an IPv4 packet.
Large ==
  {Scenario(Config(65535, 1280, TRUE), Path(65535, 65535, FALSE), ("a" :> f)) :
     f \in {Linked(To4Side(proto, "aggregate", 65515), 40000) : proto \in {"tcp", "udp"}}}

\* A node without a mapping, and a hop limit that runs out.
Refusals ==
  {Scenario(Config(1500, 1280, TRUE), Path(1500, 1500, FALSE), ("a" :> f)) :
     f \in {[g EXCEPT !.to = to, !.hops = hops] :
              g \in {To4Side("tcp", "packets", 100), To6Side("udp", "packets", 100, TRUE),
                     To4Side("udp", "aggregate", 2000), To6Side("tcp", "aggregate", 2000, TRUE)},
              to \in {"stranger", "tayga"}, hops \in {1, 64}}}

\* Every error the far side can send.
Errors4 == {<<3, c, 0>> : c \in (0..15) \ {4}} \cup {<<11, c, 0>> : c \in 0..1}
             \cup {<<12, 0, ptr>> : ptr \in 0..20} \cup {<<12, 1, 0>>, <<5, 0, 0>>}
Errors6 == {<<1, c, 0>> : c \in 0..7} \cup {<<2, 0, 80>>} \cup {<<3, c, 0>> : c \in 0..1}
             \cup {<<4, 0, ptr>> : ptr \in 0..40} \cup {<<4, 1, 6>>, <<4, 2, 0>>}
Answers ==
  {Scenario(Config(1500, 1280, TRUE),
            [Path(1500, 1500, FALSE) EXCEPT !.refusals = (4 :> Errors4 @@ 6 :> Errors6)],
            ("a" :> f)) :
     f \in {To4Side("tcp", "packets", 100), To6Side("udp", "packets", 100, TRUE)}}

\* Messages to tayga or about messages, from hosts.
Message(v, proto, to, hops) ==
  [v |-> v, from |-> IF v = 4 THEN "h4" ELSE "h6", to |-> to, hops |-> hops, proto |-> proto,
   what |-> [flow |-> "none", lo |-> 0, len |-> 56, flags |-> {}],
   off |-> 0, len |-> 64, mf |-> FALSE, id |-> 0, df |-> FALSE, frag |-> FALSE, gso |-> 0]
ErrorOf(q) ==
  [v |-> q.v, from |-> IF q.v = 4 THEN "h4" ELSE "r6", to |-> q.from, hops |-> 64,
   proto |-> "error", type |-> IF q.v = 4 THEN 3 ELSE 1, code |-> 3, word |-> 0, quote |-> q]
Odd ==
  LET messages == {Message(v, proto, to, hops) : v \in {4, 6}, proto \in {"echo", "reply"},
                     to \in {"tayga", "stranger", "h4", "h6"}, hops \in {0, 1, 64}}
  IN messages \cup {ErrorOf(m) : m \in messages} \cup {ErrorOf(ErrorOf(m)) : m \in messages}
Messages ==
  {[Scenario(Config(1500, 1280, TRUE), Path(1500, 1500, FALSE),
             ("a" :> [To4Side("udp", "packets", 100) EXCEPT !.hops = 1]))
      EXCEPT !.probe = <<m>>] : m \in Odd}

\* Aggregates to every kind of node, of which segments are too big, or only the
\* last one is small.
Aggregated(v, proto, to, hops, df, gso, len) ==
  [Message(v, proto, to, hops) EXCEPT
     !.what = [flow |-> "none", lo |-> 0, len |-> len, flags |-> {"fin", "cwr"}],
     !.len = Transport(proto) + len, !.df = df, !.gso = gso]
Aggregates ==
  {[Scenario(Config(1500, 1280, uso), Path(1500, 1500, FALSE),
             ("a" :> [To4Side("udp", "packets", 100) EXCEPT !.hops = 1]))
      EXCEPT !.probe = <<Aggregated(v, proto, to, hops, v = 4 /\ df, size[1], size[2])>>] :
     v \in {4, 6}, proto \in {"tcp", "udp"}, to \in {"stranger", "tayga", "void", "h4", "h6"},
     hops \in {1, 2}, df \in BOOLEAN, uso \in BOOLEAN,
     size \in {<<1500, 2000>>, <<1232, 2464>>, <<1232, 2000>>, <<900, 1900>>}}

MCScenarios == Aggregates \cup Discovery \cup Reassembly \cup Large \cup Refusals \cup Answers \cup Messages
============================================================================
