--------------------------- MODULE PathMtuProofs ----------------------------
(***************************************************************************)
(* What is proved of the errors that tayga writes and passes on, of what   *)
(* hosts learn from them, of where fragments lie, and of aggregates: that  *)
(* they are translated as the segments they stand for.                     *)
(***************************************************************************)
EXTENDS PathMtu, SequenceLemmas

----------------------------------------------------------------------------
(* Sequences of anything *)

Plain(q) == q \in Seq(ToSet(q))

LEMMA PlainIs ==
  ASSUME NEW q, Plain(q)
  PROVE  /\ Len(q) \in Nat /\ DOMAIN q = 1..Len(q) /\ ToSet(q) = {q[i] : i \in 1..Len(q)}
         /\ \A i \in DOMAIN q : q[i] \in ToSet(q)
<1>1. Len(q) \in Nat /\ DOMAIN q = 1..Len(q) BY DEF Plain
<1>2. ToSet(q) = {q[i] : i \in DOMAIN q} BY DEF ToSet
<1> QED BY <1>1, <1>2

LEMMA PlainOf == ASSUME NEW S, NEW q \in Seq(S) PROVE Plain(q)
<1>1. Len(q) \in Nat /\ DOMAIN q = 1..Len(q) /\ q \in [1..Len(q) -> S] OBVIOUS
<1>2. \A i \in 1..Len(q) : q[i] \in ToSet(q) BY <1>1 DEF ToSet
<1>3. q \in [1..Len(q) -> ToSet(q)] BY <1>1, <1>2
<1> QED BY <1>1, <1>3 DEF Plain

LEMMA PlainNone == Plain(<<>>) /\ ToSet(<<>>) = {}
BY EmptySeq, PlainOf, DistinctEmpty

LEMMA PlainOne == ASSUME NEW e PROVE Plain(<<e>>) /\ ToSet(<<e>>) = {e}
<1>1. <<e>> \in Seq({e}) /\ DOMAIN <<e>> = {1} /\ <<e>>[1] = e OBVIOUS
<1>2. ToSet(<<e>>) = {e} BY <1>1 DEF ToSet
<1> QED BY <1>1, <1>2 DEF Plain

LEMMA PlainTwo == ASSUME NEW d, NEW e PROVE Plain(<<d, e>>) /\ ToSet(<<d, e>>) = {d, e}
<1>1. <<d, e>> \in Seq({d, e}) /\ DOMAIN <<d, e>> = {1, 2} /\ <<d, e>>[1] = d /\ <<d, e>>[2] = e
  OBVIOUS
<1>2. ToSet(<<d, e>>) = {d, e} BY <1>1 DEF ToSet
<1> QED BY <1>1, <1>2 DEF Plain

LEMMA PlainJoin ==
  ASSUME NEW s, NEW t, Plain(s), Plain(t)
  PROVE  Plain(s \o t) /\ ToSet(s \o t) = ToSet(s) \cup ToSet(t)
<1> DEFINE S == ToSet(s) \cup ToSet(t)
<1>1. s \in Seq(S) /\ t \in Seq(S) BY DEF Plain
<1>2. s \o t \in Seq(S) BY <1>1
<1>3. Plain(s \o t) BY <1>2, PlainOf
<1>4. ToSet(s \o t) = ToSet(s) \cup ToSet(t) BY <1>1, ConcatSet
<1> QED BY <1>3, <1>4

LEMMA PlainTail ==
  ASSUME NEW q, Plain(q), q # <<>>
  PROVE  Plain(Tail(q)) /\ ToSet(Tail(q)) \subseteq ToSet(q) /\ Head(q) \in ToSet(q)
<1>1. q \in Seq(ToSet(q)) BY DEF Plain
<1>2. Tail(q) \in Seq(ToSet(q)) /\ Head(q) \in ToSet(q) BY <1>1
<1> QED BY <1>2, PlainOf, ElementsOf

\* A sequence given by its elements.
LEMMA PlainMap ==
  ASSUME NEW n \in Int, NEW g, g = [i \in 1..n |-> g[i]]
  PROVE  Plain(g) /\ ToSet(g) = {g[i] : i \in 1..n}
<1>1. DOMAIN g = 1..n OBVIOUS
<1>2. ToSet(g) = {g[i] : i \in 1..n} BY <1>1 DEF ToSet
<1>3. g \in [1..n -> ToSet(g)] BY <1>2
<1>4. CASE n \in Nat BY <1>2, <1>3, <1>4 DEF Plain
<1>5. CASE n \notin Nat
  <2>1. 1..n = 1..0 BY <1>5
  <2>2. g \in [1..0 -> ToSet(g)] BY <1>3, <2>1
  <2> QED BY <1>2, <2>2 DEF Plain
<1> QED BY <1>4, <1>5

LEMMA PlainFlatten ==
  ASSUME NEW S, NEW m \in Nat, NEW s \in [1..m -> Seq(S)]
  PROVE  Plain(FlattenSeq(s)) /\ ToSet(FlattenSeq(s)) \subseteq S
<1>1. s \in Seq(Seq(S)) /\ Len(s) = m OBVIOUS
<1>2. FlattenSeq(s) \in Seq(S)
  <2>1. CASE m = 0
    <3>1. s = <<>> BY <1>1, <2>1, EmptySeq
    <3> QED BY <3>1, EmptySeq DEF FlattenSeq
  <2>2. CASE m # 0
    <3>1. PICK f : Flattening(s, m, f) /\ FlattenSeq(s) = f[m] BY <1>1, <2>2, FlattenSteps
    <3>2. \A i \in 1..m : f[i] = IF i = 1 THEN s[i] ELSE f[i - 1] \o s[i]
      BY <3>1 DEF Flattening
    <3> DEFINE T == {i \in 0..m : i # 0 => f[i] \in Seq(S)}
    <3>3. 0 \in T OBVIOUS
    <3>4. ASSUME NEW i \in 1..m, i - 1 \in T PROVE i \in T
      <4>1. s[i] \in Seq(S) OBVIOUS
      <4>2. CASE i = 1 BY <3>2, <4>1, <4>2
      <4>3. CASE i # 1
        <5>1. f[i - 1] \in Seq(S) BY <3>4, <4>3
        <5>2. f[i - 1] \o s[i] \in Seq(S) BY <4>1, <5>1
        <5>3. f[i] = f[i - 1] \o s[i]
          <6>1. f[i] = IF i = 1 THEN s[i] ELSE f[i - 1] \o s[i] BY <3>2
          <6> QED BY <4>3, <6>1
        <5>4. i \in 0..m OBVIOUS
        <5> QED BY <5>2, <5>3, <5>4
      <4> QED BY <4>2, <4>3
    <3>5. \A i \in 0..m : i \in T
      <4> HIDE DEF T
      <4> QED BY <3>3, <3>4, UpTo
    <3> QED BY <2>2, <3>1, <3>5
  <2> QED BY <2>1, <2>2
<1> QED BY <1>2, PlainOf, ElementsOf

LEMMA FirstOfIs ==
  ASSUME NEW checks, Plain(checks), NEW else
  PROVE  \/ FirstOf(checks, else) = else
         \/ \E c \in ToSet(checks) : FirstOf(checks, else) = c[2]
<1> DEFINE hit == {i \in DOMAIN checks : checks[i][1]}
<1>1. CASE hit = {} BY <1>1 DEF FirstOf
<1>2. CASE hit # {}
  <2>1. hit \subseteq 1..Len(checks) /\ Len(checks) \in Int /\ 1 \in Int
    <3>1. Len(checks) \in Nat /\ DOMAIN checks = 1..Len(checks) BY PlainIs
    <3> QED BY <3>1
  <2>2. \E i \in hit : \A j \in hit : i <= j
    <3> HIDE DEF hit
    <3> QED BY <1>2, <2>1, LeastOf
  <2> DEFINE k == CHOOSE i \in hit : \A j \in hit : i <= j
  <2>3. k \in hit BY <2>2
  <2>4. FirstOf(checks, else) = checks[k][2] BY <1>2 DEF FirstOf
  <2>5. checks[k] \in ToSet(checks)
    <3>1. k \in DOMAIN checks BY <2>3
    <3> HIDE DEF k
    <3> QED BY <3>1, PlainIs
  <2> QED BY <2>4, <2>5
<1> QED BY <1>1, <1>2

\* Conditions looked at one by one.
LEMMA FirstOfOne ==
  ASSUME NEW b \in BOOLEAN, NEW x, NEW else
  PROVE  FirstOf(<< <<b, x>> >>, else) = IF b THEN x ELSE else
<1> DEFINE cs == << <<b, x>> >>
           hit == {i \in DOMAIN cs : cs[i][1]}
<1>1. DOMAIN cs = {1} /\ cs[1] = <<b, x>> OBVIOUS
<1>2. <<b, x>>[1] = b /\ <<b, x>>[2] = x OBVIOUS
<1> HIDE DEF cs
<1>3. CASE b
  <2>1. hit = {1} BY <1>1, <1>2, <1>3
  <2>2. (CHOOSE i \in hit : \A j \in hit : i <= j) = 1 BY <2>1
  <2> QED BY <1>1, <1>2, <1>3, <2>1, <2>2 DEF FirstOf, cs
<1>4. CASE ~b
  <2>1. hit = {} BY <1>1, <1>2, <1>4
  <2> QED BY <1>4, <2>1 DEF FirstOf, cs
<1> QED BY <1>3, <1>4

LEMMA FirstOfJoin ==
  ASSUME NEW s, NEW t, Plain(s), Plain(t), NEW else
  PROVE  FirstOf(s \o t, else) = FirstOf(s, FirstOf(t, else))
<1> DEFINE q == s \o t
           m == Len(s)
           n == Len(t)
           Hit(r) == {i \in DOMAIN r : r[i][1]}
           Least(H) == CHOOSE i \in H : \A j \in H : i <= j
<1>1. m \in Nat /\ n \in Nat /\ DOMAIN s = 1..m /\ DOMAIN t = 1..n BY PlainIs
<1>2. /\ DOMAIN q = 1..(m + n)
      /\ \A i \in 1..m : q[i] = s[i]
      /\ \A i \in 1..n : q[m + i] = t[i]
  <2> DEFINE S == ToSet(s) \cup ToSet(t)
  <2>1. s \in Seq(S) /\ t \in Seq(S) BY DEF Plain
  <2> HIDE DEF S
  <2> QED BY <2>1, <1>1
<1> HIDE DEF q, m, n
<1>3. \A r, e : FirstOf(r, e) = IF Hit(r) = {} THEN e ELSE r[Least(Hit(r))][2]
  BY DEF FirstOf
<1>4. Hit(s) \subseteq 1..m /\ Hit(t) \subseteq 1..n BY <1>1
<1>5. Hit(q) = Hit(s) \cup {m + i : i \in Hit(t)}
  <2>1. ASSUME NEW k \in Hit(q) PROVE k \in Hit(s) \cup {m + i : i \in Hit(t)}
    <3>1. k \in 1..(m + n) /\ q[k][1] BY <1>2
    <3>2. CASE k <= m BY <1>1, <1>2, <3>1, <3>2
    <3>3. CASE ~(k <= m)
      <4>1. k - m \in 1..n /\ m + (k - m) = k BY <1>1, <3>1, <3>3
      <4>2. q[k] = t[k - m] BY <1>2, <4>1
      <4> QED BY <1>1, <3>1, <4>1, <4>2
    <3> QED BY <3>2, <3>3
  <2>2. ASSUME NEW k \in Hit(s) PROVE k \in Hit(q)
    <3>1. k \in 1..m /\ s[k][1] BY <1>1
    <3>2. k \in 1..(m + n) BY <1>1, <3>1
    <3> QED BY <1>2, <3>1, <3>2
  <2>3. ASSUME NEW i \in Hit(t) PROVE m + i \in Hit(q)
    <3>1. i \in 1..n /\ t[i][1] BY <1>1
    <3>2. m + i \in 1..(m + n) BY <1>1, <3>1
    <3> QED BY <1>2, <3>1, <3>2
  <2> QED BY <2>1, <2>2, <2>3
<1> HIDE DEF Hit
<1>6. CASE Hit(s) # {}
  <2>1. PICK i \in Hit(s) : \A j \in Hit(s) : i <= j
    <3>1. Hit(s) \subseteq 1..m /\ m \in Int /\ 1 \in Int BY <1>1, <1>4
    <3> QED BY <1>6, <3>1, LeastOf
  <2>2. Least(Hit(s)) = i BY <1>1, <1>4, <2>1
  <2>3. Least(Hit(q)) = i
    <3>1. i \in Hit(q) BY <1>5
    <3>2. \A j \in Hit(q) : i <= j
      <4>1. i \in 1..m BY <1>4
      <4> QED BY <1>1, <1>4, <1>5, <2>1, <4>1
    <3>3. Hit(q) \subseteq Int BY <1>1, <1>4, <1>5
    <3> QED BY <3>1, <3>2, <3>3
  <2>4. q[i] = s[i] BY <1>2, <1>4
  <2> HIDE DEF Least
  <2> QED BY <1>3, <1>5, <1>6, <2>2, <2>3, <2>4 DEF q
<1>7. CASE Hit(s) = {} /\ Hit(t) = {}
  <2>1. Hit(q) = {} BY <1>5, <1>7
  <2> HIDE DEF Least
  <2> QED BY <1>3, <1>7, <2>1 DEF q
<1>8. CASE Hit(s) = {} /\ Hit(t) # {}
  <2>1. PICK i \in Hit(t) : \A j \in Hit(t) : i <= j
    <3>1. Hit(t) \subseteq 1..n /\ n \in Int /\ 1 \in Int BY <1>1, <1>4
    <3> QED BY <1>8, <3>1, LeastOf
  <2>2. Least(Hit(t)) = i BY <1>1, <1>4, <2>1
  <2>3. Least(Hit(q)) = m + i
    <3>1. m + i \in Hit(q) BY <1>5
    <3>2. \A j \in Hit(q) : m + i <= j
      <4>1. i \in 1..n BY <1>4
      <4> QED BY <1>1, <1>4, <1>5, <1>8, <2>1, <4>1
    <3>3. Hit(q) \subseteq Int BY <1>1, <1>4, <1>5
    <3> QED BY <3>1, <3>2, <3>3
  <2>4. q[m + i] = t[i] BY <1>2, <1>4
  <2>5. Hit(q) # {} BY <1>5, <1>8
  <2> HIDE DEF Least
  <2> QED BY <1>3, <1>8, <2>2, <2>3, <2>4, <2>5 DEF q
<1> QED BY <1>6, <1>7, <1>8

LEMMA MinTwo ==
  ASSUME NEW a \in Int, NEW b \in Int
  PROVE  Min({a, b}) = IF a <= b THEN a ELSE b
BY DEF Min

LEMMA MaxTwo ==
  ASSUME NEW a \in Int, NEW b \in Int
  PROVE  Max({a, b}) = IF a <= b THEN b ELSE a
BY DEF Max

LEMMA TransportIs == \A proto : Transport(proto) \in {8, 20}
BY DEF Transport

LEMMA MinThree ==
  ASSUME NEW a \in Int, NEW b \in Int, NEW c \in Int
  PROVE  LET m == Min({a, b, c}) IN m \in {a, b, c} /\ m <= a /\ m <= b /\ m <= c
<1>1. \E m \in {a, b, c} : \A y \in {a, b, c} : m <= y
  <2>1. CASE a <= b /\ a <= c BY <2>1
  <2>2. CASE b <= a /\ b <= c BY <2>2
  <2>3. CASE c <= a /\ c <= b BY <2>3
  <2> QED BY <2>1, <2>2, <2>3
<1> QED BY <1>1 DEF Min

----------------------------------------------------------------------------
(* The invariant *)

\* Bytes of a flow travel in packets of its host's version, and beyond tayga in the other.
Sided(p, v) == p.what.flow \in Flows => flow[p.what.flow].v = v

\* The least that fits the IPv4 path, as an error may say.
Far4 == IF path.silent THEN Plateau(path.link[4]) ELSE path.link[4]

Honest(e) ==
  /\ e.v = 4 /\ e.type = 3 /\ e.code = 4 =>
       IF path.silent THEN e.word < 68 /\ 20 + e.quote.len > path.link[4]
       ELSE e.word >= path.link[4]
  /\ e.v = 6 /\ e.type = 2 => e.word < 68 + MtuAdj \/ e.word >= path.link[6]

Asked(p) ==
  IF IsError(p)
  THEN /\ Error(p) /\ Honest(p)
       /\ p.quote.proto \notin {"error", "reply"} => Sided(p.quote, 10 - p.v)
  ELSE Packet(p) /\ InPlace(p) /\ Sided(p, p.v) /\ (p.gso > 0 => WellFormed(p))

\* No part of a packet; an aggregate never is one.
Whole(p) == p.off = 0 /\ p.mf = FALSE
Placed(p) == InPlace(p) /\ (p.gso > 0 => Whole(p))

Told(e) ==
  TellsMtu(e) => IF e.v = 4 THEN e.word >= gcfg.mtu - 20 \/ e.word >= path.link[6] - 20
                 ELSE e.word >= gcfg.mtu \/ e.word >= Far4 + 20

About(e) == Error(e) /\ Told(e) /\ ~IsError(e.quote) /\ Sided(e.quote, e.v)
Made(p) ==
  IF IsError(p) THEN About(p) /\ p.quote.proto # "reply"
  ELSE /\ Packet(p) /\ Placed(p)
       /\ p.proto # "reply" => Sided(p, 10 - p.v)

FlowFields == {"v", "from", "to", "hops", "proto", "how", "total", "df", "link", "id",
               "next", "pmtu", "told", "sends"}
Flowing(s) ==
  /\ DOMAIN s = FlowFields
  /\ s.v \in {4, 6} /\ s.proto \in {"tcp", "udp"}
  /\ {s.total, s.link} \subseteq Nat /\ {s.next, s.pmtu} \subseteq Int
  /\ s.hops \in Nat \ {0} /\ s.df \in BOOLEAN
  /\ s.link >= (IF s.v = 4 THEN 68 ELSE MtuMin) /\ s.link <= Length16
  /\ s.pmtu >= Carried(s) /\ s.pmtu <= s.link

Given ==
  /\ {gcfg.mtu, gcfg.offlink} \subseteq Nat /\ gcfg.mtu >= MtuMin /\ gcfg.offlink >= MtuMin
  /\ gcfg.mtu <= Length16
  /\ {path.link[4], path.link[6]} \subseteq Nat /\ path.link[4] >= 68 /\ path.link[6] >= MtuMin
  /\ \A r \in path.refusals[4] : r[3] \in Nat /\ ~(r[1] = 3 /\ r[2] = 4)
  /\ \A r \in path.refusals[6] : r[3] \in Nat /\ (r[1] = 2 => r[3] < 68 + MtuAdj)

PathInv ==
  /\ Given
  /\ \A f \in Flows : Flowing(flow[f])
  /\ Plain(tunq) /\ \A p \in ToSet(tunq) : Asked(p)
  /\ DOMAIN out = Workers /\ \A w \in Workers : Plain(out[w]) /\ \A p \in ToSet(out[w]) : Made(p)
  /\ \A p \in net : p.what.len \in Int /\ InPlace(p)
  /\ Plain(mail) /\ \A e \in ToSet(mail) : IsError(e) /\ About(e) /\ e.quote.what.flow \in Flows

\* What an error that tayga writes says is what the packet before it said.
Keeps(p, e) ==
  IsError(e) =>
    /\ e.quote.proto \notin {"error", "reply"}
    /\ e.to = e.quote.from /\ e.v = e.quote.v
    /\ IsError(p) => Says(e) = Says(p) /\ e.quote.what = p.quote.what

Good(p, x) == Plain(x.writes) /\ \A e \in ToSet(x.writes) : Made(e) /\ Keeps(p, e)

All(p, cs) == Plain(cs) /\ \A c \in ToSet(cs) : Good(p, c[2])

----------------------------------------------------------------------------
(* Fragments *)

LEMMA EightLess ==
  ASSUME NEW a \in Int, NEW b \in Int, a % 8 = 0, b % 8 = 0
  PROVE  (a - b) % 8 = 0
<1>1. a = 8 * (a \div 8) /\ b = 8 * (b \div 8) /\ a \div 8 \in Int /\ b \div 8 \in Int OBVIOUS
<1>2. PICK k \in Int : a - b = 8 * k
  <2>1. a - b = 8 * (a \div 8 - b \div 8) /\ a \div 8 - b \div 8 \in Int BY <1>1
  <2> QED BY <2>1
<1> QED BY <1>2

LEMMA LastPiece ==
  \A a, d, u \in Int : ~(d + u < a) => (IF u <= a - d THEN u ELSE a - d) = a - d
OBVIOUS

\* Where the i-th of the pieces of u bytes of a packet starts.
LEMMA PieceStarts ==
  ASSUME NEW len \in Int, NEW u \in Nat, u > 0, NEW i \in Int, i >= 1,
         i <= (len + u - 1) \div u
  PROVE  (i - 1) * u \in Nat /\ (i - 1) * u < len
<1> DEFINE n == len + u - 1
           k == n \div u
<1>1. n \in Int /\ k \in Int /\ n = u * k + (n % u) /\ n % u >= 0 OBVIOUS
<1>2. i <= k OBVIOUS
<1> HIDE DEF k
<1>3. i * u <= k * u BY <1>1, <1>2
<1>4. k * u <= n
  <2>1. u * k = k * u /\ n % u \in Int BY <1>1
  <2> QED BY <1>1, <2>1
<1>5. i * u <= len + u - 1 BY <1>1, <1>3, <1>4
<1>6. (i - 1) * u = i * u - u OBVIOUS
<1>7. (i - 1) * u >= 0 OBVIOUS
<1> QED BY <1>5, <1>6, <1>7

\* All but the last of the pieces are full.
LEMMA CountReached ==
  ASSUME NEW len \in Int, NEW u \in Nat, u > 0, NEW i \in Int
  PROVE  i < (len + u - 1) \div u <=> (i - 1) * u + u < len
<1> DEFINE n == len + u - 1
           k == n \div u
<1>1. n \in Int /\ k \in Int /\ n = u * k + (n % u) /\ n % u >= 0 /\ n % u < u /\ n % u \in Int
  OBVIOUS
<1>2. (i - 1) * u + u = i * u /\ i * u \in Int OBVIOUS
<1>3. k * u \in Int /\ k * u <= n /\ n < k * u + u
  <2>1. u * k = k * u /\ k * u \in Int BY <1>1
  <2> HIDE DEF k
  <2> QED BY <1>1, <2>1
<1> HIDE DEF k
<1>4. ASSUME i < k PROVE i * u < len
  <2>1. (i + 1) * u <= k * u BY <1>1, <1>4
  <2>2. (i + 1) * u = i * u + u OBVIOUS
  <2> QED BY <1>1, <1>2, <1>3, <2>1, <2>2
<1>5. ASSUME ~(i < k) PROVE ~(i * u < len)
  <2>1. k * u <= i * u BY <1>1, <1>5
  <2> QED BY <1>1, <1>2, <1>3, <2>1
<1> QED BY <1>2, <1>4, <1>5 DEF k

\* A piece that starts at a multiple of 8 bytes of a packet in place, and is a
\* multiple of 8 bytes or the last one, is in place.
LEMMA PartInPlace ==
  ASSUME NEW p, Packet(p), InPlace(p), NEW u \in Nat, u % 8 = 0,
         NEW done \in Nat, done < p.len, done % 8 = 0,
         NEW q, q.off = p.off + done, q.len = Min({u, p.len - done}),
         q.mf <=> p.mf \/ done + u < p.len,
         q.what = p.what, q.proto = p.proto
  PROVE  InPlace(q) /\ q.len \in Int
<1> DEFINE total == Transport(p.proto) + p.what.len
           start == p.off
           len == p.len
           at == q.off
           size == q.len
<1>1. len \in Int /\ start \in Nat /\ start % 8 = 0 /\ total \in Int
  BY TransportIs DEF Packet, InPlace
<1>2. done \in Nat /\ u \in Nat /\ done < len /\ done % 8 = 0 /\ u % 8 = 0 OBVIOUS
<1>3. at = start + done /\ (q.mf <=> p.mf \/ done + u < len) OBVIOUS
<1>4. size = IF u <= len - done THEN u ELSE len - done
  <2>1. u \in Int /\ p.len - done \in Int BY <1>1
  <2> QED BY <2>1, MinTwo
<1>5. IF p.mf THEN len % 8 = 0 /\ start + len < total ELSE start + len = total
  BY DEF InPlace
<1>6. Transport(q.proto) + q.what.len = total OBVIOUS
<1> SUFFICES /\ at \in Nat /\ at % 8 = 0 /\ size \in Int
             /\ IF q.mf THEN size % 8 = 0 /\ at + size < total ELSE at + size = total
  BY <1>6 DEF InPlace
<1> HIDE DEF total, start, len, at, size
<1>7. at \in Nat /\ at % 8 = 0 BY <1>1, <1>2, <1>3
<1>8. size \in Int BY <1>1, <1>2, <1>4
<1>9. start + len <= total BY <1>1, <1>5
<1>10. CASE done + u < len
  <2>1. q.mf /\ size = u BY <1>1, <1>2, <1>3, <1>4, <1>10
  <2>2. at + size < start + len BY <1>1, <1>2, <1>3, <1>10, <2>1
  <2>3. at + size < total BY <1>1, <1>7, <1>8, <1>9, <2>2
  <2> QED BY <1>2, <1>7, <1>8, <2>1, <2>3
<1>11. CASE ~(done + u < len)
  <2>1. size = len - done
    <3>1. len \in Int /\ done \in Int /\ u \in Int BY <1>1, <1>2
    <3> QED BY <1>4, <1>11, <3>1, LastPiece, Zenon
  <2>2. q.mf <=> p.mf BY <1>3, <1>11
  <2>3. at + size = start + len
    <3>1. start \in Int /\ done \in Int /\ len \in Int BY <1>1, <1>2
    <3>2. at = start + done BY <1>3
    <3>3. (start + done) + (len - done) = start + len BY <3>1
    <3> QED BY <2>1, <3>2, <3>3, Zenon
  <2>4. CASE p.mf
    <3>1. len % 8 = 0 /\ start + len < total BY <1>5, <2>4
    <3>2. (len - done) % 8 = 0
      <4>1. len \in Int /\ done \in Int /\ done % 8 = 0 BY <1>1, <1>2
      <4> QED BY <3>1, <4>1, EightLess, Zenon
    <3>3. size % 8 = 0 BY <2>1, <3>2, Zenon
    <3>4. at + size < total BY <2>3, <3>1, Zenon
    <3> QED BY <1>7, <1>8, <2>2, <2>4, <3>3, <3>4, Zenon
  <2>5. CASE ~p.mf
    <3>1. at + size = total BY <1>5, <2>3, <2>5, Zenon
    <3> QED BY <1>7, <1>8, <2>2, <2>5, <3>1, Zenon
  <2> QED BY <2>4, <2>5, Zenon
<1> QED BY <1>10, <1>11, Zenon

\* Pieces of a multiple of 8 bytes of a packet are in place if it was.
LEMMA PieceInPlace ==
  ASSUME NEW p, Packet(p), InPlace(p), NEW u \in Nat, u > 0, u % 8 = 0,
         NEW i \in Int, i >= 1, i <= (p.len + u - 1) \div u,
         NEW q, q.off = p.off + (i - 1) * u, q.len = Min({u, p.len - (i - 1) * u}),
         q.mf <=> p.mf \/ (i - 1) * u + u < p.len,
         q.what = p.what, q.proto = p.proto
  PROVE  InPlace(q) /\ q.len \in Int
<1> DEFINE done == (i - 1) * u
<1>1. p.len \in Int BY DEF Packet
<1>2. done \in Nat /\ done < p.len BY <1>1, PieceStarts
<1>3. done % 8 = 0
  <2>1. PICK k \in Nat : u = 8 * k
    <3>1. u \div 8 \in Nat /\ u = 8 * (u \div 8) OBVIOUS
    <3> QED BY <3>1
  <2>2. (i - 1) * k \in Nat OBVIOUS
  <2>3. done = 8 * ((i - 1) * k) BY <2>1
  <2> QED BY <2>2, <2>3
<1>4. /\ q.off = p.off + done /\ q.len = Min({u, p.len - done})
      /\ q.mf <=> p.mf \/ done + u < p.len
  OBVIOUS
<1> HIDE DEF done
<1> QED BY <1>2, <1>3, <1>4, PartInPlace

----------------------------------------------------------------------------
(* The translator *)

LEMMA GoodFirst ==
  ASSUME NEW p, NEW cs, All(p, cs), NEW else, Good(p, else)
  PROVE  Good(p, FirstOf(cs, else))
BY FirstOfIs DEF All

LEMMA AllJoin ==
  ASSUME NEW p, NEW s, NEW t, All(p, s), All(p, t)
  PROVE  All(p, s \o t)
BY PlainJoin DEF All

LEMMA AllOne ==
  ASSUME NEW p, NEW b, NEW x, Good(p, x)
  PROVE  All(p, << <<b, x>> >>)
<1>1. <<b, x>>[2] = x OBVIOUS
<1> QED BY <1>1, PlainOne DEF All

LEMMA AllTwo ==
  ASSUME NEW p, NEW b, NEW x, Good(p, x), NEW c, NEW y, Good(p, y)
  PROVE  All(p, << <<b, x>>, <<c, y>> >>)
<1>1. <<b, x>>[2] = x /\ <<c, y>>[2] = y OBVIOUS
<1> QED BY <1>1, PlainTwo DEF All

LEMMA GoodDrop == \A p : Good(p, Drop)
BY PlainNone DEF Good, Drop, Effect

LEMMA GoodAnswer ==
  ASSUME NEW p, Asked(p), NEW type, NEW code, NEW word \in Nat,
         p.v = 4 /\ type = 3 /\ code = 4 => word >= gcfg.mtu - 20,
         p.v = 6 /\ type = 2 => word >= gcfg.mtu
  PROVE  Good(p, Answer(p, type, code, word))
<1>1. CASE p.proto \in {"error", "reply"} BY <1>1, GoodDrop DEF Answer
<1>2. CASE p.proto \notin {"error", "reply"}
  <2> DEFINE e == [v |-> p.v, from |-> Tayga, to |-> p.from, hops |-> 64, proto |-> "error",
                   type |-> type, code |-> code, word |-> word, quote |-> p]
  <2>1. Answer(p, type, code, word).writes = <<e>> BY <1>2 DEF Answer, Effect
  <2>2. ~IsError(p) /\ Packet(p) /\ Sided(p, p.v) /\ p.v \in {4, 6}
    BY <1>2 DEF IsError, Asked, Packet
  <2>3. /\ e.v = p.v /\ e.to = p.from /\ e.proto = "error" /\ e.type = type /\ e.code = code
        /\ e.word = word /\ e.quote = p /\ DOMAIN e = ErrorFields
    BY DEF ErrorFields
  <2> HIDE DEF e
  <2>4. Error(e) BY <2>2, <2>3 DEF Error
  <2>5. Told(e) BY <2>2, <2>3 DEF Told, TellsMtu
  <2>6. Made(e) BY <1>2, <2>2, <2>3, <2>4, <2>5 DEF Made, About, IsError
  <2>7. Keeps(p, e) BY <1>2, <2>2, <2>3 DEF Keeps, IsError
  <2> QED BY <2>1, <2>6, <2>7, PlainOne DEF Good
<1> QED BY <1>1, <1>2

\* Bytes that go on in packets of the other version.
Onward(p, q) == Packet(q) /\ Placed(q) /\ q.v = 10 - p.v /\ q.what.flow = p.what.flow

\* The same bytes of the same packet, under another header.
Kept(p, q) ==
  /\ q.what = p.what /\ Transport(q.proto) = Transport(p.proto)
  /\ q.off = p.off /\ q.len = p.len /\ q.mf = p.mf /\ q.gso \in {p.gso, 0}

LEMMA KeptPlaced ==
  ASSUME NEW p, Placed(p), NEW q, Kept(p, q)
  PROVE  Placed(q)
BY DEF Placed, Whole, InPlace, Kept

LEMMA AskedPlaced ==
  ASSUME NEW p, Asked(p), ~IsError(p)
  PROVE  /\ Packet(p) /\ Placed(p) /\ (p.gso > 0 => WellFormed(p))
         /\ p.gso \in Nat /\ (p.gso > 0 => Whole(p))
BY DEF Asked, Placed, WellFormed, Whole, Packet

LEMMA GoodPackets ==
  ASSUME NEW p, Asked(p), ~IsError(p), NEW s, Plain(s), \A q \in ToSet(s) : Onward(p, q), NEW n
  PROVE  Good(p, Effect(s, n))
<1>1. Effect(s, n).writes = s BY DEF Effect
<1>2. ASSUME NEW q \in ToSet(s) PROVE Made(q) /\ Keeps(p, q)
  <2>1. Packet(q) /\ Placed(q) /\ q.v = 10 - p.v /\ q.what.flow = p.what.flow BY DEF Onward
  <2>2. ~IsError(q) BY <2>1 DEF Packet, IsError
  <2>3. 10 - q.v = p.v BY <2>1 DEF Asked, Packet
  <2>4. Sided(q, 10 - q.v) BY <2>1, <2>3 DEF Asked, Sided
  <2> QED BY <2>1, <2>2, <2>4 DEF Made, Keeps
<1> QED BY <1>1, <1>2 DEF Good

LEMMA GoodOne ==
  ASSUME NEW p, Asked(p), ~IsError(p), NEW q, Onward(p, q), NEW n
  PROVE  Good(p, Effect(<<q>>, n))
BY GoodPackets, PlainOne

\* A packet that keeps its place, and one that is normalized.
LEMMA OnwardKept ==
  ASSUME NEW p, Asked(p), ~IsError(p), NEW q, Packet(q), q.v = 10 - p.v, Kept(p, q)
  PROVE  Onward(p, q)
BY AskedPlaced, KeptPlaced DEF Onward, Kept

LEMMA To6Is ==
  ASSUME NEW p, Packet(p), p.v = 4
  PROVE  LET q == To6(p) IN
         /\ Packet(q) /\ q.v = 6 /\ q.what = p.what /\ q.proto = p.proto
         /\ q.len = p.len /\ q.gso = p.gso /\ q.off = p.off /\ q.mf = p.mf /\ Kept(p, q)
BY DEF To6, Packet, PacketFields, Kept

LEMMA To4Is ==
  ASSUME NEW p, Packet(p), p.v = 6
  PROVE  LET q == To4(p) IN
         /\ Packet(q) /\ q.v = 4 /\ q.what = p.what /\ q.proto = p.proto
         /\ q.len = p.len /\ q.gso = p.gso /\ q.off = p.off /\ q.mf = p.mf /\ Kept(p, q)
BY DEF To4, Packet, PacketFields, Kept

LEMMA AllFour ==
  ASSUME NEW p, NEW a, NEW w, Good(p, w), NEW b, NEW x, Good(p, x),
         NEW c, NEW y, Good(p, y), NEW d, NEW z, Good(p, z)
  PROVE  All(p, << <<a, w>>, <<b, x>>, <<c, y>>, <<d, z>> >>)
<1>1. << <<a, w>>, <<b, x>>, <<c, y>>, <<d, z>> >> = << <<a, w>>, <<b, x>> >> \o << <<c, y>>, <<d, z>> >>
  OBVIOUS
<1>2. All(p, << <<a, w>>, <<b, x>> >>) /\ All(p, << <<c, y>>, <<d, z>> >>) BY AllTwo
<1> QED BY <1>1, <1>2, AllJoin

LEMMA GoodUnmapped ==
  ASSUME NEW p, Asked(p)
  PROVE  /\ p.v = 4 => All(p, Unmapped4(p))
         /\ p.v = 6 => All(p, Unmapped6(p))
<1>1. ASSUME p.v = 4 PROVE All(p, Unmapped4(p))
  <2>1. Good(p, Answer(p, 3, 1, 0)) /\ Good(p, Answer(p, 3, 10, 0)) BY <1>1, GoodAnswer
  <2>2. /\ <<3, 1>>[1] = 3 /\ <<3, 1>>[2] = 1 /\ <<3, 10>>[1] = 3 /\ <<3, 10>>[2] = 10 OBVIOUS
  <2> QED BY <2>1, <2>2, GoodDrop, AllFour DEF Unmapped4, Unmapped
<1>2. ASSUME p.v = 6 PROVE All(p, Unmapped6(p))
  <2>1. Good(p, Answer(p, 1, 0, 0)) /\ Good(p, Answer(p, 1, 5, 0)) BY <1>2, GoodAnswer
  <2>2. /\ <<1, 0>>[1] = 1 /\ <<1, 0>>[2] = 0 /\ <<1, 5>>[1] = 1 /\ <<1, 5>>[2] = 5 OBVIOUS
  <2> QED BY <2>1, <2>2, GoodDrop, AllFour DEF Unmapped6, Unmapped
<1> QED BY <1>1, <1>2

LEMMA GoodToSelf ==
  ASSUME NEW p, Asked(p)
  PROVE  Good(p, ToSelf(p))
<1>0. p.v \in {4, 6} BY DEF Asked, Error, Packet
<1>1. CASE p.proto = "echo"
  <2> DEFINE q == [p EXCEPT !.from = p.to, !.to = p.from, !.hops = 64, !.proto = "reply"]
  <2>1. ToSelf(p).writes = <<q>> BY <1>1 DEF ToSelf, Effect
  <2>2. Packet(p) /\ Placed(p) BY <1>1, AskedPlaced DEF IsError
  <2>3. Packet(q) /\ q.proto = "reply" BY <2>2 DEF Packet, PacketFields
  <2>4. Kept(p, q) BY <1>1, <2>2 DEF Packet, PacketFields, Kept, Transport
  <2> HIDE DEF q
  <2>5. Placed(q) BY <2>2, <2>4, KeptPlaced
  <2>6. Made(q) /\ Keeps(p, q) BY <2>3, <2>5 DEF Made, Keeps, IsError
  <2> QED BY <2>1, <2>6, PlainOne DEF Good
<1>2. CASE p.proto # "echo"
  <2>1. p.v = 4 => Good(p, Answer(p, 3, 2, 0)) BY GoodAnswer
  <2>2. p.v = 6 => Good(p, Answer(p, 4, 1, 6)) BY GoodAnswer
  <2> QED BY <1>0, <1>2, <2>1, <2>2 DEF ToSelf
<1> QED BY <1>1, <1>2

LEMMA RoomIs ==
  ASSUME Given
  PROVE  /\ Room \in Nat /\ Room >= 1240 /\ FragmentSize \in Nat /\ FragmentSize > 0
         /\ FragmentSize % 8 = 0
         /\ gcfg.mtu \in Nat /\ gcfg.mtu >= 1280 /\ gcfg.mtu - MtuAdj \in Nat /\ MtuAdj = 20
<1>1. gcfg.mtu \in Nat /\ gcfg.offlink \in Nat /\ gcfg.mtu >= 1280 /\ gcfg.offlink >= 1280
  BY DEF Given, MtuMin
<1>2. Min({gcfg.offlink, gcfg.mtu}) \in Nat /\ Min({gcfg.offlink, gcfg.mtu}) >= 1280
  BY <1>1, MinTwo
<1>3. Room \in Nat /\ Room >= 1240 BY <1>2 DEF Room
<1>4. (Room - 8) \div 8 \in Nat /\ (Room - 8) \div 8 > 0 BY <1>3
<1>5. FragmentSize \in Nat /\ FragmentSize > 0 /\ FragmentSize % 8 = 0
  BY <1>4 DEF FragmentSize
<1> QED BY <1>1, <1>3, <1>5 DEF MtuAdj

LEMMA GoodData46 ==
  ASSUME Given, NEW p, Asked(p), ~IsError(p), p.v = 4, p.gso = 0
  PROVE  Good(p, Data46(p))
<1>1. Packet(p) /\ p.len \in Int /\ InPlace(p) BY DEF Asked, Packet
<1>2. Good(p, Answer(p, 3, 4, gcfg.mtu - MtuAdj))
  <2>1. gcfg.mtu - MtuAdj \in Nat /\ gcfg.mtu - MtuAdj >= gcfg.mtu - 20 BY RoomIs
  <2> QED BY <2>1, GoodAnswer
<1>3. Good(p, Effect(<<[To6(p) EXCEPT !.id = 0]>>, 0))
  <2> DEFINE t == To6(p)
             q == [t EXCEPT !.id = 0]
  <2>1. Packet(t) /\ t.v = 6 /\ Kept(p, t) BY <1>1, To6Is
  <2> HIDE DEF t
  <2>2. Packet(q) /\ q.v = 6 /\ Kept(p, q) BY <2>1 DEF Packet, PacketFields, Kept
  <2> HIDE DEF q
  <2>3. Onward(p, q) BY <2>2, OnwardKept
  <2> QED BY <2>3, GoodOne DEF q, t
<1>4. Good(p, Effect(Fragments6(p), 0))
  <2> DEFINE count == (p.len + FragmentSize - 1) \div FragmentSize
             t == To6(p)
             Part(i) == [t EXCEPT !.frag = TRUE, !.off = p.off + (i - 1) * FragmentSize,
                                  !.len = Min({FragmentSize, p.len - (i - 1) * FragmentSize}),
                                  !.mf = i < count \/ p.mf]
             g == [i \in 1..count |-> Part(i)]
  <2>1. Fragments6(p) = g BY DEF Fragments6
  <2>2. count \in Int BY <1>1, RoomIs
  <2>3. Packet(t) /\ t.v = 6 /\ t.what = p.what /\ t.proto = p.proto /\ t.gso = 0
    BY <1>1, To6Is
  <2> HIDE DEF t
  <2>4. ASSUME NEW i \in 1..count PROVE Onward(p, g[i])
    <3> DEFINE done == (i - 1) * FragmentSize
               l == Min({FragmentSize, p.len - done})
               more == i < count \/ p.mf
    <3>1. i \in Int BY <2>2
    <3>2. done \in Int BY <3>1, RoomIs
    <3>3. l \in Int
      <4>1. FragmentSize \in Int /\ p.len - done \in Int BY <1>1, <3>2, RoomIs
      <4> HIDE DEF done
      <4> QED BY <4>1, MinTwo
    <3>4. g[i] = [t EXCEPT !.frag = TRUE, !.off = p.off + done, !.len = l, !.mf = more]
      OBVIOUS
    <3>5. i < count <=> done + FragmentSize < p.len
      <4>1. p.len \in Int /\ FragmentSize \in Nat /\ FragmentSize > 0 /\ i \in Int
        BY <1>1, <3>1, RoomIs
      <4> HIDE DEF count, done, t, g, l
      <4> QED BY <4>1, CountReached DEF count, done
    <3> HIDE DEF l, done, g, more
    <3>6. /\ Packet(g[i]) /\ g[i].v = 6 /\ g[i].what = p.what /\ g[i].proto = p.proto
          /\ g[i].gso = 0 /\ g[i].off = p.off + done /\ g[i].len = l
          /\ g[i].mf = more
      BY <2>3, <3>3, <3>4 DEF Packet, PacketFields
    <3>7. g[i].mf <=> p.mf \/ done + FragmentSize < p.len BY <3>5, <3>6 DEF more
    <3> DEFINE q == g[i]
    <3>8. q.off = p.off + done /\ q.len = l /\ (q.mf <=> p.mf \/ done + FragmentSize < p.len)
          /\ q.what = p.what /\ q.proto = p.proto
      BY <3>6, <3>7
    <3> HIDE DEF q
    <3>9. InPlace(q)
      <4>1. i >= 1 /\ i <= (p.len + FragmentSize - 1) \div FragmentSize BY <2>2 DEF count
      <4>2. FragmentSize \in Nat /\ FragmentSize > 0 /\ FragmentSize % 8 = 0 BY RoomIs
      <4> QED BY <1>1, <3>1, <3>8, <4>1, <4>2, PieceInPlace DEF done, l
    <3> QED BY <3>6, <3>9 DEF Onward, Placed, q
  <2>5. g = [i \in 1..count |-> g[i]] OBVIOUS
  <2> HIDE DEF g, count
  <2>6. Plain(g) /\ ToSet(g) = {g[i] : i \in 1..count} BY <2>2, <2>5, PlainMap
  <2>7. \A q \in ToSet(g) : Onward(p, q) BY <2>4, <2>6
  <2>8. Good(p, Effect(g, 0)) BY <2>6, <2>7, GoodPackets
  <2> QED BY <2>1, <2>8
<1>5. All(p, Unmapped4(p) \o
        << <<~IsFragment(p) /\ p.df /\ 40 + p.len > gcfg.mtu,
             Answer(p, 3, 4, gcfg.mtu - MtuAdj)>>,
           <<~IsFragment(p) /\ (p.df \/ p.len <= Room),
             Effect(<<[To6(p) EXCEPT !.id = 0]>>, 0)>> >>)
  BY <1>2, <1>3, GoodUnmapped, AllTwo, AllJoin
<1> QED BY <1>4, <1>5, GoodFirst DEF Data46

LEMMA GoodData64 ==
  ASSUME Given, NEW p, Asked(p), ~IsError(p), p.v = 6
  PROVE  Good(p, Data64(p))
<1>1. Packet(p) BY DEF Asked
<1>2. Good(p, Answer(p, 2, 0, gcfg.mtu))
  <2>1. gcfg.mtu \in Nat BY RoomIs
  <2> QED BY <2>1, GoodAnswer
<1>3. Good(p, Effect(<<To4(p)>>, Reserves(p)))
  <2>1. Onward(p, To4(p)) BY <1>1, To4Is, OnwardKept
  <2> QED BY <2>1, GoodOne
<1>4. All(p, Unmapped6(p) \o << <<TooBig6(p), Answer(p, 2, 0, gcfg.mtu)>> >>)
  BY <1>2, GoodUnmapped, AllOne, AllJoin
<1> QED BY <1>3, <1>4, GoodFirst DEF Data64

----------------------------------------------------------------------------
(* Errors passed on *)

LEMMA PlateausAre ==
  /\ DOMAIN Plateaus = 1..11
  /\ \A i \in 1..11 : Plateaus[i] \in Nat /\ Plateaus[i] >= 68 /\ Plateaus[i] <= 65535
  /\ \A i, j \in 1..11 : i <= j => Plateaus[j] <= Plateaus[i]
  /\ Plateaus[11] = 68
<1>1. /\ Plateaus[1] = 65535 /\ Plateaus[2] = 32000 /\ Plateaus[3] = 17914 /\ Plateaus[4] = 8166
      /\ Plateaus[5] = 4352 /\ Plateaus[6] = 2002 /\ Plateaus[7] = 1492 /\ Plateaus[8] = 1006
      /\ Plateaus[9] = 508 /\ Plateaus[10] = 296 /\ Plateaus[11] = 68 /\ DOMAIN Plateaus = 1..11
  BY DEF Plateaus
<1>3. ASSUME NEW i \in 1..11 PROVE Plateaus[i] \in Nat /\ Plateaus[i] >= 68 /\ Plateaus[i] <= 65535
  BY <1>1
<1>4. \A i \in 1..10 : Plateaus[i + 1] <= Plateaus[i]
  <2>1. /\ 1 + 1 = 2 /\ 2 + 1 = 3 /\ 3 + 1 = 4 /\ 4 + 1 = 5 /\ 5 + 1 = 6
        /\ 6 + 1 = 7 /\ 7 + 1 = 8 /\ 8 + 1 = 9 /\ 9 + 1 = 10 /\ 10 + 1 = 11
    OBVIOUS
  <2>2. ASSUME NEW i \in 1..10 PROVE Plateaus[i + 1] <= Plateaus[i] BY <1>1, <2>1
  <2> QED BY <2>2
<1>5. ASSUME NEW i \in 1..11, NEW j \in 1..11, i <= j PROVE Plateaus[j] <= Plateaus[i]
  <2> DEFINE T == {k \in Nat : i + k <= 11 => Plateaus[i + k] <= Plateaus[i]}
  <2>1. 0 \in T BY <1>3
  <2>2. ASSUME NEW k \in T PROVE k + 1 \in T
    <3>1. CASE i + (k + 1) <= 11
      <4>1. i + k \in 1..10 /\ (i + k) + 1 = i + (k + 1) BY <3>1
      <4>2. Plateaus[i + (k + 1)] <= Plateaus[i + k] BY <1>4, <4>1
      <4>3. Plateaus[i + k] <= Plateaus[i] BY <4>1
      <4>4. /\ Plateaus[i + (k + 1)] \in Int /\ Plateaus[i + k] \in Int /\ Plateaus[i] \in Int
        <5>1. i + (k + 1) \in 1..11 /\ i + k \in 1..11 BY <4>1
        <5> QED BY <1>3, <5>1
      <4> QED BY <4>2, <4>3, <4>4
    <3>2. CASE ~(i + (k + 1) <= 11) BY <3>2
    <3> QED BY <3>1, <3>2
  <2>3. T = Nat
    <3>1. T \subseteq Nat OBVIOUS
    <3> HIDE DEF T
    <3> QED BY <2>1, <2>2, <3>1, NatSet
  <2>4. j - i \in T /\ i + (j - i) = j
    <3>1. j - i \in Nat /\ i + (j - i) = j BY <1>5
    <3> HIDE DEF T
    <3> QED BY <2>3, <3>1
  <2> QED BY <2>4
<1> QED BY <1>1, <1>3, <1>5

LEMMA PlateauIs ==
  ASSUME NEW link \in Nat, link >= 68
  PROVE  \E i \in 1..11 : Plateau(link) = Plateaus[i] /\ Plateaus[i] <= link /\ Plateau(link) \in Nat
<1> DEFINE within == {i \in DOMAIN Plateaus : Plateaus[i] <= link}
           S == {Plateaus[i] : i \in within}
<1>1. \A i \in 1..11 : Plateaus[i] \in Nat /\ Plateaus[i] >= 68 /\ Plateaus[i] <= 65535
  BY PlateausAre
<1>2. within \subseteq 1..11 /\ 11 \in within BY PlateausAre
<1>3. Plateau(link) = Max(S) BY DEF Plateau
<1>4. Max(S) \in S
  <2>1. S # {} /\ \A x \in S : x \in Nat /\ x <= link BY <1>1, <1>2
  <2> HIDE DEF S
  <2>2. S \subseteq 0..link BY <2>1
  <2>3. 0 \in Int /\ link \in Int OBVIOUS
  <2> QED BY <2>1, <2>2, <2>3, MaxIs
<1>5. PICK i \in within : Max(S) = Plateaus[i] BY <1>4
<1>6. i \in 1..11 /\ Plateaus[i] <= link /\ Plateaus[i] \in Nat BY <1>1, <1>2
<1> HIDE DEF within, S
<1> QED BY <1>3, <1>5, <1>6

LEMMA EstMtuIs ==
  ASSUME NEW size \in Int, NEW link \in Nat, link >= 68, size > link
  PROVE  EstMtu(size) \in Nat /\ EstMtu(size) >= Plateau(link)
<1> DEFINE below == {i \in DOMAIN Plateaus : Plateaus[i] < size}
           k == CHOOSE i \in below : \A j \in below : i <= j
<1>0. \A i \in 1..11 : Plateaus[i] \in Nat /\ Plateaus[i] >= 68 /\ Plateaus[i] <= 65535
  BY PlateausAre
<1>1. below \subseteq 1..11 BY PlateausAre
<1>2. PICK i \in 1..11 : Plateau(link) = Plateaus[i] /\ Plateaus[i] <= link BY PlateauIs
<1>3. i \in below BY <1>0, <1>2, PlateausAre
<1>4. k \in below /\ \A j \in below : k <= j
  <2> HIDE DEF below
  <2>1. \E m \in below : \A j \in below : m <= j
    <3>1. below # {} /\ 1 \in Int /\ 11 \in Int BY <1>3
    <3> QED BY <1>1, <3>1, LeastOf
  <2> QED BY <2>1
<1>5. EstMtu(size) = Plateaus[k]
  <2>1. below # {} BY <1>3
  <2> QED BY <2>1 DEF EstMtu
<1> HIDE DEF below, k
<1>6. k \in 1..11 /\ k <= i BY <1>1, <1>3, <1>4
<1>7. Plateaus[i] <= Plateaus[k] BY <1>6, PlateausAre
<1>8. Plateaus[k] \in Nat BY <1>0, <1>6
<1> QED BY <1>2, <1>5, <1>7, <1>8

\* What an error of the other version with this type, code and word says.
Carries(e, m) ==
  \A x : x.v = 10 - e.v /\ x.type = m[1] /\ x.code = m[2] /\ x.word = m[3] =>
           x.word \in Nat /\ Told(x) /\ Says(x) = Says(e)

LEMMA GoodErrored ==
  ASSUME NEW e, Asked(e), IsError(e), NEW m, Quotable(e, m) => Carries(e, m), NEW q, NEW n,
         e.quote.proto \notin {"error", "reply"} =>
           /\ Packet(q) /\ q.v = 10 - e.v /\ q.what = e.quote.what
           /\ q.from = e.quote.from /\ q.proto = e.quote.proto
  PROVE  Good(e, Effect(Errored(e, m, q), n))
<1>0. Effect(Errored(e, m, q), n).writes = Errored(e, m, q) BY DEF Effect
<1>1. CASE ~Quotable(e, m) \/ Mapping[e.to] # "ok"
  <2>1. Errored(e, m, q) = <<>> BY <1>1 DEF Errored
  <2> QED BY <1>0, <2>1, PlainNone DEF Good
<1>2. CASE Quotable(e, m) /\ Mapping[e.to] = "ok"
  <2> DEFINE x == [e EXCEPT !.v = 10 - @, !.hops = @ - 1, !.quote = q,
                   !.type = m[1], !.code = m[2], !.word = m[3],
                   !.from = IF Mapping[@] = "ok" THEN @ ELSE Tayga]
  <2>1. Errored(e, m, q) = <<x>> BY <1>2 DEF Errored
  <2>2. Error(e) /\ Sided(e.quote, 10 - e.v) /\ e.quote.proto \notin {"error", "reply"}
    BY <1>2 DEF Asked, Quotable
  <2>3. DOMAIN e = ErrorFields /\ e.v \in {4, 6} /\ e.proto = "error" BY <2>2 DEF Error
  <2>4. /\ DOMAIN x = ErrorFields /\ x.v = 10 - e.v /\ x.proto = "error" /\ x.quote = q
        /\ x.type = m[1] /\ x.code = m[2] /\ x.word = m[3] /\ x.to = e.to
    BY <2>3 DEF ErrorFields
  <2> HIDE DEF x
  <2>5. x.word \in Nat /\ Told(x) /\ Says(x) = Says(e)
    <3>1. Carries(e, m) BY <1>2
    <3> QED BY <2>4, <3>1 DEF Carries
  <2>6. /\ Packet(q) /\ q.v = 10 - e.v /\ q.what = e.quote.what
        /\ q.from = e.quote.from /\ q.proto = e.quote.proto
    BY <2>2
  <2>7. x.v \in {4, 6} /\ 10 - e.v \in {4, 6} BY <2>3, <2>4
  <2>8. Error(x)
    <3>1. x.to = x.quote.from /\ x.quote.v = x.v BY <2>2, <2>4, <2>6 DEF Error
    <3> QED BY <2>4, <2>5, <2>6, <2>7, <3>1 DEF Error
  <2>9. Sided(x.quote, x.v) BY <2>2, <2>4, <2>6 DEF Sided
  <2>10. Made(x) BY <2>2, <2>4, <2>5, <2>6, <2>8, <2>9 DEF Made, About, IsError
  <2>11. Keeps(e, x) BY <2>2, <2>4, <2>5, <2>6, <2>8 DEF Keeps, IsError, Error
  <2> QED BY <1>0, <2>1, <2>10, <2>11, PlainOne DEF Good
<1> QED BY <1>1, <1>2

LEMMA MtuTo6Is ==
  ASSUME Given, NEW e, Error(e), Honest(e), e.v = 4, e.type = 3, e.code = 4, e.quote.len \in Int
  PROVE  /\ MtuTo6(e.word, 20 + e.quote.len) \in Nat
         /\ \/ MtuTo6(e.word, 20 + e.quote.len) >= gcfg.mtu
            \/ MtuTo6(e.word, 20 + e.quote.len) >= Far4 + 20
<1> DEFINE mtu == IF e.word < 68 THEN EstMtu(20 + e.quote.len) ELSE e.word
<1>0. e.word \in Nat /\ path.link[4] \in Nat /\ path.link[4] >= 68 BY DEF Error, Given
<1>1. mtu \in Nat /\ mtu >= Far4 /\ Far4 \in Int
  <2>1. CASE path.silent
    <3>1. e.word < 68 /\ 20 + e.quote.len > path.link[4] BY <2>1 DEF Honest
    <3>2. 20 + e.quote.len \in Int OBVIOUS
    <3>3. EstMtu(20 + e.quote.len) \in Nat /\ EstMtu(20 + e.quote.len) >= Plateau(path.link[4])
      BY <1>0, <3>1, <3>2, EstMtuIs
    <3>4. Plateau(path.link[4]) \in Int BY <1>0, PlateauIs
    <3> QED BY <2>1, <3>1, <3>3, <3>4 DEF Far4
  <2>2. CASE ~path.silent
    <3>1. e.word >= path.link[4] BY <2>2 DEF Honest
    <3> QED BY <1>0, <2>2, <3>1 DEF Far4
  <2> QED BY <2>1, <2>2
<1> DEFINE low == Min({mtu + MtuAdj, gcfg.mtu})
<1>2. MtuTo6(e.word, 20 + e.quote.len) = Max({low, MtuMin}) BY DEF MtuTo6
<1> HIDE DEF mtu
<1>3. gcfg.mtu \in Nat /\ MtuAdj = 20 /\ mtu + MtuAdj \in Nat BY <1>1, RoomIs
<1>4. low = IF mtu + MtuAdj <= gcfg.mtu THEN mtu + MtuAdj ELSE gcfg.mtu BY <1>3, MinTwo
<1> HIDE DEF low
<1>5. low \in Nat /\ MtuMin = 1280 BY <1>3, <1>4 DEF MtuMin
<1>6. Max({low, MtuMin}) = IF low <= MtuMin THEN MtuMin ELSE low BY <1>5, MaxTwo
<1> QED BY <1>1, <1>2, <1>3, <1>4, <1>5, <1>6

\* A pointer into a header is one to the same field of the other version's.
LEMMA FieldTo6 ==
  ASSUME NEW w \in Nat, w <= 19, ~(Pointers46[w + 1] < 0)
  PROVE  Pointers46[w + 1] \in Nat /\ Field6(Pointers46[w + 1]) = Field4(w)
<1>1. CASE w = 0
  <2>1. Pointers46[w + 1] = 0 BY <1>1 DEF Pointers46
  <2>2. Field6(0) = "version" BY DEF Field6
  <2>3. Field4(0) = "version" BY DEF Field4
  <2> QED BY <1>1, <2>1, <2>2, <2>3
<1>2. CASE w = 1
  <2>1. Pointers46[w + 1] = 1 BY <1>2 DEF Pointers46
  <2>2. Field6(1) = "class" BY DEF Field6
  <2>3. Field4(1) = "class" BY DEF Field4
  <2> QED BY <1>2, <2>1, <2>2, <2>3
<1>3. CASE w = 2
  <2>1. Pointers46[w + 1] = 4 BY <1>3 DEF Pointers46
  <2>2. Field6(4) = "length" BY DEF Field6
  <2>3. Field4(2) = "length" BY DEF Field4
  <2> QED BY <1>3, <2>1, <2>2, <2>3
<1>4. CASE w = 3
  <2>1. Pointers46[w + 1] = 4 BY <1>4 DEF Pointers46
  <2>2. Field6(4) = "length" BY DEF Field6
  <2>3. Field4(3) = "length" BY DEF Field4
  <2> QED BY <1>4, <2>1, <2>2, <2>3
<1>5. w # 4 BY DEF Pointers46
<1>6. w # 5 BY DEF Pointers46
<1>7. w # 6 BY DEF Pointers46
<1>8. w # 7 BY DEF Pointers46
<1>9. CASE w = 8
  <2>1. Pointers46[w + 1] = 7 BY <1>9 DEF Pointers46
  <2>2. Field6(7) = "hops" BY DEF Field6
  <2>3. Field4(8) = "hops" BY DEF Field4
  <2> QED BY <1>9, <2>1, <2>2, <2>3
<1>10. CASE w = 9
  <2>1. Pointers46[w + 1] = 6 BY <1>10 DEF Pointers46
  <2>2. Field6(6) = "protocol" BY DEF Field6
  <2>3. Field4(9) = "protocol" BY DEF Field4
  <2> QED BY <1>10, <2>1, <2>2, <2>3
<1>11. w # 10 BY DEF Pointers46
<1>12. w # 11 BY DEF Pointers46
<1>13. CASE w = 12
  <2>1. Pointers46[w + 1] = 8 BY <1>13 DEF Pointers46
  <2>2. Field6(8) = "src" BY DEF Field6
  <2>3. Field4(12) = "src" BY DEF Field4
  <2> QED BY <1>13, <2>1, <2>2, <2>3
<1>14. CASE w = 13
  <2>1. Pointers46[w + 1] = 8 BY <1>14 DEF Pointers46
  <2>2. Field6(8) = "src" BY DEF Field6
  <2>3. Field4(13) = "src" BY DEF Field4
  <2> QED BY <1>14, <2>1, <2>2, <2>3
<1>15. CASE w = 14
  <2>1. Pointers46[w + 1] = 8 BY <1>15 DEF Pointers46
  <2>2. Field6(8) = "src" BY DEF Field6
  <2>3. Field4(14) = "src" BY DEF Field4
  <2> QED BY <1>15, <2>1, <2>2, <2>3
<1>16. CASE w = 15
  <2>1. Pointers46[w + 1] = 8 BY <1>16 DEF Pointers46
  <2>2. Field6(8) = "src" BY DEF Field6
  <2>3. Field4(15) = "src" BY DEF Field4
  <2> QED BY <1>16, <2>1, <2>2, <2>3
<1>17. CASE w = 16
  <2>1. Pointers46[w + 1] = 24 BY <1>17 DEF Pointers46
  <2>2. Field6(24) = "dst" BY DEF Field6
  <2>3. Field4(16) = "dst" BY DEF Field4
  <2> QED BY <1>17, <2>1, <2>2, <2>3
<1>18. CASE w = 17
  <2>1. Pointers46[w + 1] = 24 BY <1>18 DEF Pointers46
  <2>2. Field6(24) = "dst" BY DEF Field6
  <2>3. Field4(17) = "dst" BY DEF Field4
  <2> QED BY <1>18, <2>1, <2>2, <2>3
<1>19. CASE w = 18
  <2>1. Pointers46[w + 1] = 24 BY <1>19 DEF Pointers46
  <2>2. Field6(24) = "dst" BY DEF Field6
  <2>3. Field4(18) = "dst" BY DEF Field4
  <2> QED BY <1>19, <2>1, <2>2, <2>3
<1>20. CASE w = 19
  <2>1. Pointers46[w + 1] = 24 BY <1>20 DEF Pointers46
  <2>2. Field6(24) = "dst" BY DEF Field6
  <2>3. Field4(19) = "dst" BY DEF Field4
  <2> QED BY <1>20, <2>1, <2>2, <2>3
<1>21. w = 0 \/ w = 1 \/ w = 2 \/ w = 3 \/ w = 4 \/ w = 5 \/ w = 6 \/ w = 7 \/ w = 8 \/ w = 9
       \/ w = 10 \/ w = 11 \/ w = 12 \/ w = 13 \/ w = 14 \/ w = 15 \/ w = 16 \/ w = 17 \/ w = 18 \/ w = 19
  OBVIOUS
<1> QED BY <1>1, <1>2, <1>3, <1>4, <1>5, <1>6, <1>7, <1>8, <1>9, <1>10, <1>11, <1>12,
          <1>13, <1>14, <1>15, <1>16, <1>17, <1>18, <1>19, <1>20, <1>21

LEMMA Meaning46 ==
  ASSUME Given, NEW e, Error(e), Honest(e), e.v = 4, e.quote.len \in Int,
         Error46(e) # NoMeaning
  PROVE  Carries(e, Error46(e))
<1> DEFINE m == Error46(e)
<1> SUFFICES ASSUME NEW x, x.v = 6, x.type = m[1], x.code = m[2], x.word = m[3]
             PROVE  x.word \in Nat /\ Told(x) /\ Says(x) = Says(e)
  BY DEF Carries
<1>0. e.word \in Nat BY DEF Error
<1>1. Says(x) = Says6(x) /\ Says(e) = Says4(e) BY DEF Says
<1>2. CASE e.type = 3 /\ e.code \in {0, 1, 5, 6, 7, 8, 11, 12}
  <2>1. m = <<1, 0, 0>> BY <1>2 DEF Error46
  <2>2. x.type = 1 /\ x.code = 0 /\ x.word = 0 BY <2>1
  <2>3. Says6(x) = "unreachable" BY <2>2 DEF Says6
  <2>4. Says4(e) = "unreachable" BY <1>2 DEF Says4
  <2> QED BY <1>1, <2>2, <2>3, <2>4 DEF Told, TellsMtu
<1>3. CASE e.type = 3 /\ e.code = 2
  <2>1. m = <<4, 1, 6>> BY <1>3 DEF Error46
  <2>2. x.type = 4 /\ x.code = 1 /\ x.word = 6 BY <2>1
  <2>3. Says6(x) = "protocol" BY <2>2 DEF Says6
  <2>4. Says4(e) = "protocol" BY <1>3 DEF Says4
  <2> QED BY <1>1, <2>2, <2>3, <2>4 DEF Told, TellsMtu
<1>4. CASE e.type = 3 /\ e.code = 3
  <2>1. m = <<1, 4, 0>> BY <1>4 DEF Error46
  <2>2. x.type = 1 /\ x.code = 4 /\ x.word = 0 BY <2>1
  <2>3. Says6(x) = "port" BY <2>2 DEF Says6
  <2>4. Says4(e) = "port" BY <1>4 DEF Says4
  <2> QED BY <1>1, <2>2, <2>3, <2>4 DEF Told, TellsMtu
<1>5. CASE e.type = 3 /\ e.code = 4
  <2> DEFINE fit == MtuTo6(e.word, 20 + e.quote.len)
  <2>1. m = <<2, 0, fit>> BY <1>5 DEF Error46
  <2>2. fit \in Nat /\ (fit >= gcfg.mtu \/ fit >= Far4 + 20) BY <1>5, MtuTo6Is
  <2> HIDE DEF fit
  <2>3. x.type = 2 /\ x.code = 0 /\ x.word = fit BY <2>1
  <2>4. Says6(x) = "too big" BY <2>3 DEF Says6
  <2>5. Says4(e) = "too big" BY <1>5 DEF Says4
  <2>6. Told(x) BY <2>2, <2>3 DEF Told, TellsMtu
  <2> QED BY <1>1, <2>2, <2>3, <2>4, <2>5, <2>6
<1>6. CASE e.type = 3 /\ e.code \in {9, 10, 13, 15}
  <2>1. m = <<1, 1, 0>> BY <1>6 DEF Error46
  <2>2. x.type = 1 /\ x.code = 1 /\ x.word = 0 BY <2>1
  <2>3. Says6(x) = "prohibited" BY <2>2 DEF Says6
  <2>4. Says4(e) = "prohibited" BY <1>6 DEF Says4
  <2> QED BY <1>1, <2>2, <2>3, <2>4 DEF Told, TellsMtu
<1>7. CASE e.type = 11
  <2>1. m = <<3, e.code, 0>> BY <1>7 DEF Error46
  <2>2. x.type = 3 /\ x.word = 0 BY <2>1
  <2>3. Says6(x) = "expired" BY <2>2 DEF Says6
  <2>4. Says4(e) = "expired" BY <1>7 DEF Says4
  <2> QED BY <1>1, <2>2, <2>3, <2>4 DEF Told, TellsMtu
<1>8. CASE e.type = 12 /\ e.code \in {0, 2} /\ e.word <= 19
  <2>1. m = IF Pointers46[e.word + 1] < 0 THEN NoMeaning ELSE <<4, 0, Pointers46[e.word + 1]>>
    BY <1>8 DEF Error46
  <2> DEFINE at == Pointers46[e.word + 1]
  <2>2. ~(at < 0) BY <2>1
  <2>3. x.type = 4 /\ x.code = 0 /\ x.word = at BY <2>1, <2>2
  <2>4. Says6(x) = Field6(at) BY <2>3 DEF Says6
  <2>5. Says4(e) = Field4(e.word) BY <1>8 DEF Says4
  <2>6. at \in Nat /\ Field6(at) = Field4(e.word) BY <1>0, <1>8, <2>2, FieldTo6
  <2>7. Told(x) BY <2>3 DEF Told, TellsMtu
  <2> QED BY <1>1, <2>3, <2>4, <2>5, <2>6, <2>7
<1>9. \/ e.type = 3 /\ e.code \in {0, 1, 5, 6, 7, 8, 11, 12}
      \/ e.type = 3 /\ e.code = 2
      \/ e.type = 3 /\ e.code = 3
      \/ e.type = 3 /\ e.code = 4
      \/ e.type = 3 /\ e.code \in {9, 10, 13, 15}
      \/ e.type = 11
      \/ e.type = 12 /\ e.code \in {0, 2} /\ e.word <= 19
  BY DEF Error46
<1> QED BY <1>2, <1>3, <1>4, <1>5, <1>6, <1>7, <1>8, <1>9

LEMMA FieldTo4 ==
  ASSUME NEW w \in Nat, ~(Pointer64(w) < 0)
  PROVE  Pointer64(w) \in Nat /\ Field4(Pointer64(w)) = Field6(w)
<1>1. CASE w > 39 BY <1>1 DEF Pointer64
<1>2. CASE w > 23 /\ w <= 39
  <2>1. Pointer64(w) = 16 BY <1>2 DEF Pointer64
  <2>2. w \notin {4, 5} /\ w \notin 8..23 /\ w \in 24..39 BY <1>2
  <2>3. Field6(w) = "dst" BY <2>2 DEF Field6
  <2>4. Field4(16) = "dst" BY DEF Field4
  <2> QED BY <2>1, <2>3, <2>4
<1>3. CASE w > 7 /\ w <= 23
  <2>1. Pointer64(w) = 12 BY <1>3 DEF Pointer64
  <2>2. w \notin {4, 5} /\ w \in 8..23 BY <1>3
  <2>3. Field6(w) = "src" BY <2>2 DEF Field6
  <2>4. Field4(12) = "src" BY DEF Field4
  <2> QED BY <2>1, <2>3, <2>4
<1>4. CASE w <= 7
  <2>0. Pointer64(w) = <<0, 1, -1, -1, 2, 2, 9, 8>>[w + 1] BY <1>4 DEF Pointer64
  <2>1. CASE w = 0
    <3>1. Pointer64(w) = 0 BY <2>0, <2>1
    <3>2. Field6(0) = "version" /\ Field4(0) = "version" BY DEF Field4, Field6
    <3> QED BY <2>1, <3>1, <3>2
  <2>2. CASE w = 1
    <3>1. Pointer64(w) = 1 BY <2>0, <2>2
    <3>2. Field6(1) = "class" /\ Field4(1) = "class" BY DEF Field4, Field6
    <3> QED BY <2>2, <3>1, <3>2
  <2>3. w # 2 BY <2>0
  <2>4. w # 3 BY <2>0
  <2>5. CASE w = 4
    <3>1. Pointer64(w) = 2 BY <2>0, <2>5
    <3>2. Field6(4) = "length" /\ Field4(2) = "length" BY DEF Field4, Field6
    <3> QED BY <2>5, <3>1, <3>2
  <2>6. CASE w = 5
    <3>1. Pointer64(w) = 2 BY <2>0, <2>6
    <3>2. Field6(5) = "length" /\ Field4(2) = "length" BY DEF Field4, Field6
    <3> QED BY <2>6, <3>1, <3>2
  <2>7. CASE w = 6
    <3>1. Pointer64(w) = 9 BY <2>0, <2>7
    <3>2. Field6(6) = "protocol" /\ Field4(9) = "protocol" BY DEF Field4, Field6
    <3> QED BY <2>7, <3>1, <3>2
  <2>8. CASE w = 7
    <3>1. Pointer64(w) = 8 BY <2>0, <2>8
    <3>2. Field6(7) = "hops" /\ Field4(8) = "hops" BY DEF Field4, Field6
    <3> QED BY <2>8, <3>1, <3>2
  <2>9. w = 0 \/ w = 1 \/ w = 2 \/ w = 3 \/ w = 4 \/ w = 5 \/ w = 6 \/ w = 7 BY <1>4
  <2> QED BY <2>1, <2>2, <2>3, <2>4, <2>5, <2>6, <2>7, <2>8, <2>9
<1> QED BY <1>1, <1>2, <1>3, <1>4

LEMMA Meaning64 ==
  ASSUME Given, NEW e, Error(e), Honest(e), e.v = 6, Error64(e) # NoMeaning
  PROVE  Carries(e, Error64(e))
<1> DEFINE m == Error64(e)
<1> SUFFICES ASSUME NEW x, x.v = 4, x.type = m[1], x.code = m[2], x.word = m[3]
             PROVE  x.word \in Nat /\ Told(x) /\ Says(x) = Says(e)
  BY DEF Carries
<1>0. e.word \in Nat BY DEF Error
<1>1. Says(x) = Says4(x) /\ Says(e) = Says6(e) BY DEF Says
<1>2. CASE e.type = 1 /\ e.code \in {0, 2, 3}
  <2>1. m = <<3, 1, 0>> BY <1>2 DEF Error64
  <2>2. x.type = 3 /\ x.code = 1 /\ x.word = 0 BY <2>1
  <2>3. Says4(x) = "unreachable" BY <2>2 DEF Says4
  <2>4. Says6(e) = "unreachable" BY <1>2 DEF Says6
  <2> QED BY <1>1, <2>2, <2>3, <2>4 DEF Told, TellsMtu
<1>3. CASE e.type = 1 /\ e.code \in {1, 5, 6}
  <2>1. m = <<3, 10, 0>> BY <1>3 DEF Error64
  <2>2. x.type = 3 /\ x.code = 10 /\ x.word = 0 BY <2>1
  <2>3. Says4(x) = "prohibited" BY <2>2 DEF Says4
  <2>4. Says6(e) = "prohibited" BY <1>3 DEF Says6
  <2> QED BY <1>1, <2>2, <2>3, <2>4 DEF Told, TellsMtu
<1>4. CASE e.type = 1 /\ e.code = 4
  <2>1. m = <<3, 3, 0>> BY <1>4 DEF Error64
  <2>2. x.type = 3 /\ x.code = 3 /\ x.word = 0 BY <2>1
  <2>3. Says4(x) = "port" BY <2>2 DEF Says4
  <2>4. Says6(e) = "port" BY <1>4 DEF Says6
  <2> QED BY <1>1, <2>2, <2>3, <2>4 DEF Told, TellsMtu
<1>5. CASE e.type = 2 /\ e.word >= 68 + MtuAdj
  <2> DEFINE fit == Min({e.word, gcfg.mtu})
  <2>1. m = <<3, 4, fit - MtuAdj>> BY <1>5 DEF Error64
  <2>2. fit = IF e.word <= gcfg.mtu THEN e.word ELSE gcfg.mtu
    <3>1. gcfg.mtu \in Int BY RoomIs
    <3> QED BY <1>0, <3>1, MinTwo
  <2> HIDE DEF fit
  <2>3. x.type = 3 /\ x.code = 4 /\ x.word = fit - MtuAdj BY <2>1
  <2>4. e.word >= 88 /\ e.word >= path.link[6] /\ path.link[6] \in Nat
    <3>1. MtuAdj = 20 BY DEF MtuAdj
    <3> QED BY <1>0, <1>5, <3>1 DEF Honest, Given
  <2>5. fit - MtuAdj \in Nat /\ (fit - MtuAdj >= gcfg.mtu - 20 \/ fit - MtuAdj >= path.link[6] - 20)
    BY <1>0, <2>2, <2>4, RoomIs
  <2>6. Says4(x) = "too big" BY <2>3 DEF Says4
  <2>7. Says6(e) = "too big" BY <1>5 DEF Says6
  <2>8. Told(x) BY <2>3, <2>5 DEF Told, TellsMtu
  <2> QED BY <1>1, <2>3, <2>5, <2>6, <2>7, <2>8
<1>6. CASE e.type = 3
  <2>1. m = <<11, e.code, 0>> BY <1>6 DEF Error64
  <2>2. x.type = 11 /\ x.word = 0 BY <2>1
  <2>3. Says4(x) = "expired" BY <2>2 DEF Says4
  <2>4. Says6(e) = "expired" BY <1>6 DEF Says6
  <2> QED BY <1>1, <2>2, <2>3, <2>4 DEF Told, TellsMtu
<1>7. CASE e.type = 4 /\ e.code = 0
  <2> DEFINE at == Pointer64(e.word)
  <2>1. m = IF at < 0 THEN NoMeaning ELSE <<12, 0, at>> BY <1>7 DEF Error64
  <2>2. ~(at < 0) BY <2>1
  <2>3. at \in Nat /\ Field4(at) = Field6(e.word) BY <1>0, <2>2, FieldTo4
  <2> HIDE DEF at
  <2>4. x.type = 12 /\ x.code = 0 /\ x.word = at BY <2>1, <2>2
  <2>5. Says4(x) = Field4(at) BY <2>4 DEF Says4
  <2>6. Says6(e) = Field6(e.word) BY <1>7 DEF Says6
  <2>7. Told(x) BY <2>4 DEF Told, TellsMtu
  <2> QED BY <1>1, <2>3, <2>4, <2>5, <2>6, <2>7
<1>8. CASE e.type = 4 /\ e.code = 1
  <2>1. m = <<3, 2, 0>> BY <1>8 DEF Error64
  <2>2. x.type = 3 /\ x.code = 2 /\ x.word = 0 BY <2>1
  <2>3. Says4(x) = "protocol" BY <2>2 DEF Says4
  <2>4. Says6(e) = "protocol" BY <1>8 DEF Says6
  <2> QED BY <1>1, <2>2, <2>3, <2>4 DEF Told, TellsMtu
<1>9. \/ e.type = 1 /\ e.code \in {0, 2, 3}
      \/ e.type = 1 /\ e.code \in {1, 5, 6}
      \/ e.type = 1 /\ e.code = 4
      \/ e.type = 2 /\ e.word >= 68 + MtuAdj
      \/ e.type = 3
      \/ e.type = 4 /\ e.code = 0
      \/ e.type = 4 /\ e.code = 1
  BY DEF Error64
<1> QED BY <1>2, <1>3, <1>4, <1>5, <1>6, <1>7, <1>8, <1>9

LEMMA GoodErrorTo6 ==
  ASSUME Given, NEW e, Asked(e), IsError(e), e.v = 4
  PROVE  Good(e, ErrorTo6(e))
<1> DEFINE q == Quote46(e.quote)
<1>1. Error(e) /\ Honest(e) BY DEF Asked
<1>2. ASSUME e.quote.proto \notin {"error", "reply"}
      PROVE  Packet(e.quote) /\ e.quote.v = 4
  BY <1>1, <1>2 DEF Error, IsError
<1>3. Quotable(e, Error46(e)) => Carries(e, Error46(e))
  <2> SUFFICES ASSUME Quotable(e, Error46(e)) PROVE Carries(e, Error46(e)) OBVIOUS
  <2>1. Error46(e) # NoMeaning /\ e.quote.proto \notin {"error", "reply"} BY DEF Quotable
  <2>2. e.quote.len \in Int BY <1>2, <2>1 DEF Packet
  <2> QED BY <1>1, <2>1, <2>2, Meaning46
<1>4. e.quote.proto \notin {"error", "reply"} =>
        /\ Packet(q) /\ q.v = 10 - e.v /\ q.what = e.quote.what
        /\ q.from = e.quote.from /\ q.proto = e.quote.proto
  <2> SUFFICES ASSUME e.quote.proto \notin {"error", "reply"}
               PROVE  /\ Packet(q) /\ q.v = 10 - e.v /\ q.what = e.quote.what
                      /\ q.from = e.quote.from /\ q.proto = e.quote.proto
    OBVIOUS
  <2> DEFINE p == e.quote
  <2>1. Packet(p) /\ p.v = 4 BY <1>2
  <2> HIDE DEF p
  <2>2. q = Quote46(p) BY DEF p
  <2> HIDE DEF q
  <2>3. /\ Packet(q) /\ q.v = 6 /\ q.what = p.what /\ q.from = p.from /\ q.proto = p.proto
    BY <2>1, <2>2 DEF Quote46, Packet, PacketFields
  <2> QED BY <2>3 DEF p
<1> HIDE DEF q
<1>5. Good(e, Effect(Errored(e, Error46(e), q), 0)) BY <1>3, <1>4, GoodErrored
<1> QED BY <1>5 DEF ErrorTo6, q

LEMMA GoodErrorTo4 ==
  ASSUME Given, NEW e, Asked(e), IsError(e), e.v = 6
  PROVE  Good(e, ErrorTo4(e))
<1> DEFINE q == IF IsError(e.quote) THEN e.quote ELSE Quote64(e.quote)
           n == (IF Quotable(e, Error64(e)) THEN Reserves(e.quote) ELSE 0)
                  + Len(Errored(e, Error64(e), q))
<1>1. Error(e) /\ Honest(e) BY DEF Asked
<1>2. ASSUME e.quote.proto \notin {"error", "reply"}
      PROVE  Packet(e.quote) /\ e.quote.v = 6 /\ ~IsError(e.quote)
  BY <1>1, <1>2 DEF Error, IsError
<1>3. Quotable(e, Error64(e)) => Carries(e, Error64(e))
  BY <1>1, Meaning64 DEF Quotable
<1>4. e.quote.proto \notin {"error", "reply"} =>
        /\ Packet(q) /\ q.v = 10 - e.v /\ q.what = e.quote.what
        /\ q.from = e.quote.from /\ q.proto = e.quote.proto
  <2> SUFFICES ASSUME e.quote.proto \notin {"error", "reply"}
               PROVE  /\ Packet(q) /\ q.v = 10 - e.v /\ q.what = e.quote.what
                      /\ q.from = e.quote.from /\ q.proto = e.quote.proto
    OBVIOUS
  <2> DEFINE p == e.quote
  <2>1. Packet(p) /\ p.v = 6 /\ q = Quote64(p) BY <1>2
  <2> HIDE DEF p, q
  <2>2. /\ Packet(q) /\ q.v = 4 /\ q.what = p.what /\ q.from = p.from /\ q.proto = p.proto
    BY <2>1 DEF Quote64, To4, Packet, PacketFields
  <2> QED BY <2>2 DEF p
<1> HIDE DEF q
<1>5. Good(e, Effect(Errored(e, Error64(e), q), n)) BY <1>3, <1>4, GoodErrored
<1> QED BY <1>5 DEF ErrorTo4, q

LEMMA GoodHandle ==
  ASSUME Given, NEW p, Asked(p), ~Aggregate(p)
  PROVE  Good(p, Handle(p))
<1>0. p.v \in {4, 6} BY DEF Asked, Error, Packet
<1>1. p.v = 4 => Good(p, Answer(p, 11, 0, 0)) BY GoodAnswer
<1>2. p.v = 6 => Good(p, Answer(p, 3, 0, 0)) BY GoodAnswer
<1>3. IsError(p) => (p.v = 4 => Good(p, ErrorTo6(p))) /\ (p.v = 6 => Good(p, ErrorTo4(p)))
  BY GoodErrorTo6, GoodErrorTo4
<1>4. ~IsError(p) => (p.v = 4 => Good(p, Data46(p))) /\ (p.v = 6 => Good(p, Data64(p)))
  <2>1. ~IsError(p) => p.gso = 0 BY AskedPlaced DEF Aggregate
  <2> QED BY <2>1, GoodData46, GoodData64
<1> QED BY <1>0, <1>1, <1>2, <1>3, <1>4, GoodDrop, GoodToSelf DEF Handle

----------------------------------------------------------------------------
(* Aggregates *)

\* Bytes that go on as they are.
Alike(p, q) ==
  Packet(q) /\ Placed(q) /\ q.v = p.v /\ q.proto = p.proto /\ q.what.flow = p.what.flow

LEMMA SliceIs ==
  ASSUME NEW p, Packet(p), Whole(p), NEW at \in Int, NEW n \in Int, NEW flags
  PROVE  LET q == Slice(p, at, n, flags)
         IN /\ Alike(p, q) /\ Whole(q) /\ q.gso = 0
            /\ q.what.len = n /\ q.len = Transport(p.proto) + n
<1> DEFINE q == Slice(p, at, n, flags)
           w == [p.what EXCEPT !.lo = @ + at, !.len = n, !.flags = @ \cap flags]
<1>1. DOMAIN p = PacketFields /\ DOMAIN p.what = {"flow", "lo", "len", "flags"} BY DEF Packet
<1>2. DOMAIN w = {"flow", "lo", "len", "flags"} /\ w.flow = p.what.flow /\ w.len = n BY <1>1
<1>3. q = [p EXCEPT !.gso = 0, !.len = Transport(p.proto) + n, !.what = w]
  BY <1>1 DEF Slice, PacketFields
<1>4. Transport(p.proto) + n \in Int BY TransportIs
<1> HIDE DEF q, w
<1>5. Packet(q) /\ q.v = p.v /\ q.proto = p.proto /\ q.what = w /\ q.gso = 0
      /\ q.len = Transport(p.proto) + n /\ q.off = p.off /\ q.mf = p.mf
  BY <1>1, <1>2, <1>3, <1>4 DEF Packet, PacketFields
<1>6. Whole(q) BY <1>5 DEF Whole
<1>7. InPlace(q) BY <1>2, <1>4, <1>5, <1>6 DEF InPlace, Whole
<1> QED BY <1>2, <1>5, <1>6, <1>7 DEF Alike, Placed, q

LEMMA CountIs ==
  ASSUME NEW p, Packet(p), p.gso > 0
  PROVE  /\ p.gso \in Nat /\ Payload(p) \in Int /\ Count(p) \in Int /\ TailLen(p) \in Int
         /\ \A i \in Int : Reach(p, i) \in Int
<1>1. p.gso \in Int /\ p.gso > 0 /\ p.len \in Int BY DEF Packet
<1>2. Payload(p) \in Int BY <1>1, TransportIs DEF Payload
<1>3. Count(p) \in Int
  <2>1. Payload(p) + p.gso - 1 \in Int BY <1>1, <1>2
  <2>2. (Payload(p) + p.gso - 1) \div p.gso \in Int BY <1>1, <2>1
  <2> QED BY <2>2 DEF Count
<1>4. TailLen(p) \in Int BY <1>1, <1>2 DEF TailLen
<1>5. ASSUME NEW i \in Int PROVE Reach(p, i) \in Int
  <2>1. i * p.gso \in Int BY <1>1
  <2> QED BY <1>2, <2>1, MinTwo DEF Reach
<1> QED BY <1>1, <1>2, <1>3, <1>4, <1>5

LEMMA CutIs ==
  ASSUME NEW p, Packet(p), Whole(p), p.gso > 0
  PROVE  /\ Cut(p) = [i \in 1..Count(p) |-> Cut(p)[i]]
         /\ \A i \in 1..Count(p) : Alike(p, Cut(p)[i])
<1>1. ASSUME NEW i \in 1..Count(p) PROVE Alike(p, Cut(p)[i])
  <2>1. Reach(p, i - 1) \in Int /\ Reach(p, i) - Reach(p, i - 1) \in Int
    <3>1. Count(p) \in Int /\ \A j \in Int : Reach(p, j) \in Int BY CountIs
    <3>2. i \in Int /\ i - 1 \in Int BY <3>1
    <3>3. Reach(p, i) \in Int /\ Reach(p, i - 1) \in Int BY <3>1, <3>2
    <3> QED BY <3>3
  <2>2. Cut(p)[i] = Piece(p, Reach(p, i - 1), Reach(p, i) - Reach(p, i - 1)) BY DEF Cut
  <2> QED BY <2>1, <2>2, SliceIs DEF Piece
<1>2. Cut(p) = [i \in 1..Count(p) |-> Cut(p)[i]] BY DEF Cut
<1> QED BY <1>1, <1>2

LEMMA SegmentsAre ==
  ASSUME NEW p, Packet(p), Whole(p), p.gso > 0
  PROVE  /\ Segments(p) = [i \in 1..Count(p) |-> Segments(p)[i]]
         /\ \A i \in 1..Count(p) : Alike(p, Segments(p)[i]) /\ Segments(p)[i].gso = 0
<1>1. ASSUME NEW i \in 1..Count(p) PROVE Alike(p, Segments(p)[i]) /\ Segments(p)[i].gso = 0
  <2> DEFINE at == Reach(p, i - 1)
             n == Reach(p, i) - Reach(p, i - 1)
             flags == (IF i = 1 THEN {"cwr"} ELSE {}) \cup (IF i = Count(p) THEN {"fin"} ELSE {})
  <2>1. at \in Int /\ n \in Int
    <3>1. Count(p) \in Int /\ \A j \in Int : Reach(p, j) \in Int BY CountIs
    <3>2. i \in Int /\ i - 1 \in Int BY <3>1
    <3>3. Reach(p, i) \in Int /\ Reach(p, i - 1) \in Int BY <3>1, <3>2
    <3> QED BY <3>3
  <2>2. Segments(p)[i] = Slice(p, at, n, flags) BY DEF Segments
  <2> HIDE DEF at, n, flags
  <2> QED BY <2>1, <2>2, SliceIs
<1>2. Segments(p) = [i \in 1..Count(p) |-> Segments(p)[i]] BY DEF Segments
<1> QED BY <1>1, <1>2

LEMMA NormalizedIs ==
  ASSUME NEW p, Packet(p), Placed(p)
  PROVE  Alike(p, Normalized(p))
<1>1. p.gso \in Int BY DEF Packet
<1>2. Packet(Normalized(p)) BY <1>1 DEF Normalized, Packet, PacketFields
<1>3. Normalized(p).v = p.v /\ Normalized(p).proto = p.proto /\ Normalized(p).what = p.what
  BY DEF Normalized, Packet, PacketFields
<1>4. Kept(p, Normalized(p)) BY DEF Normalized, Packet, PacketFields, Kept
<1>5. Placed(Normalized(p)) BY <1>4, KeptPlaced
<1> QED BY <1>2, <1>3, <1>5 DEF Alike

LEMMA AnswersGood ==
  ASSUME Given, NEW p, Asked(p)
  PROVE  /\ p.v = 6 => /\ Good(p, Answer(p, 2, 0, gcfg.mtu)) /\ Good(p, Answer(p, 3, 0, 0))
                       /\ Good(p, Answer(p, 4, 1, 6)) /\ All(p, ToSelf6(p))
         /\ p.v = 4 => /\ All(p, ToSelf4(p)) /\ All(p, TooBig4(p)) /\ All(p, Expired4(p))
<1>1. ASSUME p.v = 6
      PROVE  /\ Good(p, Answer(p, 2, 0, gcfg.mtu)) /\ Good(p, Answer(p, 3, 0, 0))
             /\ Good(p, Answer(p, 4, 1, 6))
  <2>1. gcfg.mtu \in Nat BY RoomIs
  <2>2. Good(p, Answer(p, 2, 0, gcfg.mtu)) BY <1>1, <2>1, GoodAnswer
  <2>3. Good(p, Answer(p, 3, 0, 0)) BY <1>1, GoodAnswer
  <2>4. Good(p, Answer(p, 4, 1, 6)) BY <1>1, GoodAnswer
  <2> QED BY <2>2, <2>3, <2>4
<1>2. ASSUME p.v = 4 PROVE All(p, ToSelf4(p)) /\ All(p, TooBig4(p)) /\ All(p, Expired4(p))
  <2>1. gcfg.mtu - MtuAdj \in Nat /\ gcfg.mtu - MtuAdj >= gcfg.mtu - 20 BY RoomIs
  <2>2. Good(p, Answer(p, 3, 4, gcfg.mtu - MtuAdj)) BY <1>2, <2>1, GoodAnswer
  <2>3. Good(p, Answer(p, 3, 2, 0)) BY <1>2, GoodAnswer
  <2>4. Good(p, Answer(p, 11, 0, 0)) BY <1>2, GoodAnswer
  <2> QED BY <2>2, <2>3, <2>4, AllOne DEF ToSelf4, TooBig4, Expired4
<1> QED BY <1>1, <1>2, AllOne DEF ToSelf6

LEMMA GoodWhole46 ==
  ASSUME NEW p, Asked(p), ~IsError(p), p.v = 4
  PROVE  Good(p, Whole46(p))
<1> DEFINE t == To6(p)
           s == [t EXCEPT !.id = 0]
<1>1. Packet(t) /\ t.v = 6 /\ Kept(p, t) BY To6Is DEF Asked
<1> HIDE DEF t
<1>2. Packet(s) /\ s.v = 6 /\ Kept(p, s) BY <1>1 DEF Packet, PacketFields, Kept
<1> HIDE DEF s
<1>3. Placed(s) BY <1>2, AskedPlaced, KeptPlaced
<1>4. Onward(p, Normalized(s)) BY <1>2, <1>3, NormalizedIs DEF Alike, Onward, Kept
<1> QED BY <1>4, GoodOne DEF Whole46, s, t

LEMMA GoodSoftware46 ==
  ASSUME NEW p, Asked(p), ~IsError(p), p.v = 4, p.gso > 0
  PROVE  Good(p, Software46(p))
<1> DEFINE g == [i \in 1..Count(p) |-> [To6(Cut(p)[i]) EXCEPT !.id = 0]]
<1>0. Packet(p) /\ Whole(p) BY AskedPlaced
<1>1. ASSUME NEW i \in 1..Count(p) PROVE Onward(p, g[i])
  <2> DEFINE c == Cut(p)[i]
             t == To6(c)
  <2>1. Alike(p, c) BY <1>0, CutIs
  <2>2. g[i] = [t EXCEPT !.id = 0] OBVIOUS
  <2> HIDE DEF g, c
  <2>3. Packet(t) /\ t.v = 6 /\ Kept(c, t) BY <2>1, To6Is DEF Alike
  <2> HIDE DEF t
  <2>4. Packet(g[i]) /\ g[i].v = 6 /\ Kept(c, g[i])
    BY <2>2, <2>3 DEF Packet, PacketFields, Kept
  <2>5. Placed(g[i]) BY <2>1, <2>4, KeptPlaced DEF Alike
  <2> QED BY <2>1, <2>4, <2>5 DEF Onward, Alike, Kept
<1>2. g = [i \in 1..Count(p) |-> g[i]] OBVIOUS
<1>3. Software46(p) = Effect(g, 0) BY DEF Software46
<1>4. Count(p) \in Int BY <1>0, CountIs
<1> HIDE DEF g
<1>5. Plain(g) /\ ToSet(g) = {g[i] : i \in 1..Count(p)} BY <1>2, <1>4, PlainMap
<1>6. \A q \in ToSet(g) : Onward(p, q) BY <1>1, <1>5
<1> QED BY <1>3, <1>5, <1>6, GoodPackets

LEMMA GoodSoftware64 ==
  ASSUME Given, NEW p, Asked(p), ~IsError(p), p.v = 6, p.gso > 0
  PROVE  Good(p, Software64(p))
<1> DEFINE pieces == Cut(p)
           Earlier(i) == Cardinality({j \in 1..i-1 : ~Atomic(pieces[j].len)})
           Next4(i) == IF Atomic(pieces[i].len) THEN 0 ELSE Id16(ident + Earlier(i))
           g == [i \in DOMAIN pieces |-> [To4(pieces[i]) EXCEPT !.id = Next4(i)]]
<1>0. Packet(p) /\ Whole(p) BY AskedPlaced
<1>1. /\ DOMAIN pieces = 1..Count(p) /\ Count(p) \in Int
      /\ \A i \in 1..Count(p) : Alike(p, pieces[i])
  BY <1>0, CutIs, CountIs
<1>2. Software64(p) = FirstOf(Unmapped6(p), Effect(g, Df0Segments(p))) BY DEF Software64
<1> HIDE DEF pieces, Earlier, Next4
<1>3. ASSUME NEW i \in 1..Count(p) PROVE Onward(p, g[i])
  <2> DEFINE c == pieces[i]
             t == To4(c)
             n == Next4(i)
  <2>1. g[i] = [t EXCEPT !.id = n] BY <1>1
  <2> HIDE DEF g, n
  <2>2. Alike(p, c) BY <1>1
  <2> HIDE DEF c
  <2>3. Packet(t) /\ t.v = 4 /\ Kept(c, t) BY <2>2, To4Is DEF Alike
  <2> HIDE DEF t
  <2>4. Packet(g[i]) /\ g[i].v = 4 /\ Kept(c, g[i])
    BY <2>1, <2>3 DEF Packet, PacketFields, Kept
  <2>5. Placed(g[i]) BY <2>2, <2>4, KeptPlaced DEF Alike
  <2> QED BY <2>2, <2>4, <2>5 DEF Onward, Alike, Kept
<1>4. g = [i \in 1..Count(p) |-> g[i]] BY <1>1
<1> HIDE DEF g
<1>5. Plain(g) /\ ToSet(g) = {g[i] : i \in 1..Count(p)} BY <1>1, <1>4, PlainMap
<1>6. \A q \in ToSet(g) : Onward(p, q) BY <1>3, <1>5
<1>7. Good(p, Effect(g, Df0Segments(p))) BY <1>5, <1>6, GoodPackets
<1> QED BY <1>2, <1>7, GoodUnmapped, GoodFirst

LEMMA GoodSplit64 ==
  ASSUME NEW p, Asked(p), ~IsError(p), p.v = 6, p.gso > 0
  PROVE  Good(p, Split64(p))
<1> DEFINE full == Payload(p) - TailLen(p)
           piece == Piece(p, 0, full)
           part == [piece EXCEPT !.gso = p.gso]
           head == Normalized(part)
           tail == Piece(p, full, TailLen(p))
           t == To4(head)
           first == [t EXCEPT !.df = TRUE, !.id = 0]
           last == To4(tail)
<1>0. Packet(p) /\ Whole(p) /\ p.gso \in Nat BY AskedPlaced
<1>1. Split64(p) = Effect(<<first, last>>, 1) BY DEF Split64
<1>2. full \in Int /\ TailLen(p) \in Int /\ 0 \in Int BY <1>0, CountIs
<1> HIDE DEF full
<1>3. Alike(p, piece) /\ Whole(piece) /\ Alike(p, tail) BY <1>0, <1>2, SliceIs DEF Piece
<1> HIDE DEF piece, tail
<1>4. /\ Packet(part) /\ part.v = 6 /\ part.what = piece.what /\ part.proto = piece.proto
      /\ part.off = piece.off /\ part.len = piece.len /\ part.mf = piece.mf
  BY <1>0, <1>3 DEF Alike, Packet, PacketFields
<1> HIDE DEF part
<1>5. Placed(part) BY <1>3, <1>4 DEF Placed, InPlace, Whole, Alike
<1>6. Packet(head) /\ Placed(head) /\ head.v = 6 /\ head.what.flow = piece.what.flow
  BY <1>4, <1>5, NormalizedIs DEF Alike
<1> HIDE DEF head
<1>7. Packet(t) /\ t.v = 4 /\ Kept(head, t) BY <1>6, To4Is
<1>8. Packet(last) /\ last.v = 4 /\ Kept(tail, last) BY <1>3, To4Is DEF Alike
<1> HIDE DEF t, last
<1>9. Packet(first) /\ first.v = 4 /\ Kept(head, first)
  BY <1>7 DEF Packet, PacketFields, Kept
<1> HIDE DEF first
<1>12. Placed(first) /\ Placed(last) BY <1>3, <1>6, <1>8, <1>9, KeptPlaced DEF Alike
<1>13. Onward(p, first) /\ Onward(p, last)
  BY <1>3, <1>6, <1>8, <1>9, <1>12 DEF Alike, Onward, Kept
<1>10. Plain(<<first, last>>) /\ ToSet(<<first, last>>) = {first, last} BY PlainTwo
<1>11. \A q \in ToSet(<<first, last>>) : Onward(p, q) BY <1>10, <1>13
<1> QED BY <1>1, <1>10, <1>11, GoodPackets

LEMMA GoodWhole64 ==
  ASSUME NEW p, Asked(p), ~IsError(p), p.v = 6
  PROVE  Good(p, Whole64(p))
<1> DEFINE atomic == SegmentAtomic(p, Segment(p))
           t == To4(p)
           s == [t EXCEPT !.df = atomic, !.id = IF atomic THEN 0 ELSE ident]
           n == IF atomic THEN 0 ELSE Count(p)
<1>0. Whole64(p) = Effect(<<Normalized(s)>>, n) BY DEF Whole64
<1>1. Packet(t) /\ t.v = 4 /\ Kept(p, t) BY To4Is DEF Asked
<1> HIDE DEF t, atomic
<1>2. Packet(s) /\ s.v = 4 /\ Kept(p, s) BY <1>1 DEF Packet, PacketFields, Kept
<1> HIDE DEF s, n
<1>3. Placed(s) BY <1>2, AskedPlaced, KeptPlaced
<1>4. Onward(p, Normalized(s)) BY <1>2, <1>3, NormalizedIs DEF Alike, Onward, Kept
<1> QED BY <1>0, <1>4, GoodOne

LEMMA GoodTcp64 ==
  ASSUME Given, NEW p, Asked(p), ~IsError(p), p.v = 6, p.gso > 0
  PROVE  Good(p, Tcp64(p))
<1> DEFINE soft == FirstOf(ToSelf6(p), Software64(p))
           rest == IF Mixed(p) THEN Split64(p) ELSE Whole64(p)
           a == <<SegmentTooBig6(p), Answer(p, 2, 0, gcfg.mtu)>>
           b == <<p.hops <= 1, Answer(p, 3, 0, 0)>>
           c == <<20 + p.len > Length16, soft>>
           s == <<a, b, c>>
<1>1. Tcp64(p) = FirstOf(s \o ToSelf6(p) \o Unmapped6(p), rest) BY DEF Tcp64
<1>2. Good(p, soft) BY AnswersGood, GoodSoftware64, GoodFirst
<1>3. Good(p, rest) BY GoodSplit64, GoodWhole64
<1> HIDE DEF soft, rest
<1>4. All(p, <<a, b>>) BY AnswersGood, AllTwo
<1>5. All(p, <<c>>) BY <1>2, AllOne
<1>6. s = <<a, b>> \o <<c>> OBVIOUS
<1> HIDE DEF a, b, c, s
<1>7. All(p, s) BY <1>4, <1>5, <1>6, AllJoin
<1>8. All(p, s \o ToSelf6(p)) BY <1>7, AnswersGood, AllJoin
<1>9. All(p, (s \o ToSelf6(p)) \o Unmapped6(p)) BY <1>8, GoodUnmapped, AllJoin
<1> QED BY <1>1, <1>3, <1>9, GoodFirst

LEMMA GoodUdp64 ==
  ASSUME Given, NEW p, Asked(p), ~IsError(p), p.v = 6, p.gso > 0
  PROVE  Good(p, Udp64(p))
<1> DEFINE soft == FirstOf(ToSelf6(p), Software64(p))
           a == <<p.hops <= 1, Answer(p, 3, 0, 0)>>
           b == <<Unfit(p), Drop>>
           c == <<SegmentTooBig6(p), Answer(p, 2, 0, gcfg.mtu)>>
           d == <<28 + Segment(p) > Length16, Drop>>
           e == <<~gcfg.uso \/ 20 + p.len > Length16 \/ Mixed(p), soft>>
           s == <<a, b, c, d, e>>
<1>1. Udp64(p) = FirstOf(s \o ToSelf6(p) \o Unmapped6(p), Whole64(p)) BY DEF Udp64
<1>2. Good(p, soft) BY AnswersGood, GoodSoftware64, GoodFirst
<1>3. Good(p, Whole64(p)) BY GoodWhole64
<1> HIDE DEF soft
<1>4. All(p, <<a, b, c, d>>) BY AnswersGood, GoodDrop, AllFour
<1>5. All(p, <<e>>) BY <1>2, AllOne
<1>6. s = <<a, b, c, d>> \o <<e>> OBVIOUS
<1> HIDE DEF a, b, c, d, e, s
<1>7. All(p, s) BY <1>4, <1>5, <1>6, AllJoin
<1>8. All(p, s \o ToSelf6(p)) BY <1>7, AnswersGood, AllJoin
<1>9. All(p, (s \o ToSelf6(p)) \o Unmapped6(p)) BY <1>8, GoodUnmapped, AllJoin
<1> QED BY <1>1, <1>3, <1>9, GoodFirst

LEMMA GoodTcp46 ==
  ASSUME Given, NEW p, Asked(p), ~IsError(p), p.v = 4
  PROVE  Good(p, Tcp46(p))
<1>1. All(p, TooBig4(p) \o Expired4(p)) BY AnswersGood, AllJoin
<1>2. All(p, (TooBig4(p) \o Expired4(p)) \o ToSelf4(p)) BY <1>1, AnswersGood, AllJoin
<1>3. All(p, ((TooBig4(p) \o Expired4(p)) \o ToSelf4(p)) \o Unmapped4(p))
  BY <1>2, GoodUnmapped, AllJoin
<1> QED BY <1>3, GoodWhole46, GoodFirst DEF Tcp46

LEMMA GoodUdp46 ==
  ASSUME Given, NEW p, Asked(p), ~IsError(p), p.v = 4, p.gso > 0
  PROVE  Good(p, Udp46(p))
<1> DEFINE many == << <<Unfit(p), Drop>> >>
           rest == IF gcfg.uso THEN Whole46(p) ELSE Software46(p)
<1>0. Udp46(p) = FirstOf(Expired4(p) \o many \o TooBig4(p) \o ToSelf4(p) \o Unmapped4(p), rest)
  BY DEF Udp46
<1>1. All(p, many) BY GoodDrop, AllOne
<1>2. Good(p, rest) BY GoodWhole46, GoodSoftware46
<1> HIDE DEF many, rest
<1>3. All(p, Expired4(p) \o many) BY <1>1, AnswersGood, AllJoin
<1>4. All(p, (Expired4(p) \o many) \o TooBig4(p)) BY <1>3, AnswersGood, AllJoin
<1>5. All(p, ((Expired4(p) \o many) \o TooBig4(p)) \o ToSelf4(p)) BY <1>4, AnswersGood, AllJoin
<1>6. All(p, (((Expired4(p) \o many) \o TooBig4(p)) \o ToSelf4(p)) \o Unmapped4(p))
  BY <1>5, GoodUnmapped, AllJoin
<1> QED BY <1>0, <1>2, <1>6, GoodFirst

LEMMA GoodTranslate ==
  ASSUME Given, NEW p, Asked(p)
  PROVE  Good(p, Translate(p))
<1>1. CASE ~Aggregate(p) BY <1>1, GoodHandle DEF Translate
<1>2. CASE Aggregate(p)
  <2>1. ~IsError(p) /\ p.gso > 0 BY <1>2 DEF Aggregate
  <2>2. p.v \in {4, 6} BY <2>1 DEF Asked, Packet
  <2>3. CASE p.v = 4 BY <1>2, <2>1, <2>3, GoodTcp46, GoodUdp46 DEF Translate
  <2>4. CASE p.v = 6 BY <1>2, <2>1, <2>4, GoodTcp64, GoodUdp64 DEF Translate
  <2> QED BY <2>2, <2>3, <2>4
<1> QED BY <1>1, <1>2

\* What tayga makes of a packet that can be in its queue keeps the meaning of errors.
LEMMA KeepsMeaning == PathInv => ErrorsKeepMeaning
<1> SUFFICES ASSUME PathInv, tunq # <<>>,
                    NEW e \in ToSet(Translate(Head(tunq)).writes), IsError(e)
             PROVE  LET p == Head(tunq) IN
                    /\ e.quote.proto \notin {"error", "reply"}
                    /\ e.to = e.quote.from /\ e.v = e.quote.v
                    /\ IsError(p) => Says(e) = Says(p) /\ e.quote.what = p.quote.what
  BY DEF ErrorsKeepMeaning
<1>1. Given /\ Asked(Head(tunq)) BY PlainTail DEF PathInv
<1>2. Keeps(Head(tunq), e) BY <1>1, GoodTranslate DEF Good
<1> QED BY <1>2 DEF Keeps

----------------------------------------------------------------------------
(* Hosts *)

LEMMA CarriedIs ==
  ASSUME Given, NEW s, s.v \in {4, 6}, s.link \in Nat, s.link >= (IF s.v = 4 THEN 68 ELSE MtuMin)
  PROVE  /\ Carried(s) \in Int /\ Carried(s) <= s.link
         /\ s.v = 4 => /\ Carried(s) >= 68
                       /\ Carried(s) <= gcfg.mtu - 20 /\ Carried(s) <= path.link[6] - 20
         /\ s.v = 6 => /\ Carried(s) >= 1280 /\ Carried(s) <= gcfg.mtu
                       /\ Far4 \in Int /\ (Carried(s) <= 1280 \/ Carried(s) <= Far4 + 20)
<1>0. /\ gcfg.mtu \in Nat /\ gcfg.mtu >= 1280
      /\ path.link[4] \in Nat /\ path.link[4] >= 68 /\ path.link[6] \in Nat /\ path.link[6] >= 1280
      /\ MtuMin = 1280
  BY DEF Given, MtuMin
<1>1. CASE s.v = 4
  <2> DEFINE a == s.link
             b == gcfg.mtu - 20
             c == path.link[6] - 20
  <2>1. Carried(s) = Min({a, b, c}) BY <1>1 DEF Carried
  <2>2. a \in Int /\ b \in Int /\ c \in Int /\ a >= 68 /\ b >= 68 /\ c >= 68 BY <1>0, <1>1
  <2> DEFINE m == Min({a, b, c})
  <2>3. m = Min({a, b, c}) OBVIOUS
  <2> HIDE DEF a, b, c, m
  <2>4. m \in {a, b, c} /\ m <= a /\ m <= b /\ m <= c BY <2>2, <2>3, MinThree
  <2>5. m \in Int /\ m >= 68 BY <2>2, <2>4
  <2> QED BY <1>1, <2>1, <2>3, <2>4, <2>5 DEF a, b, c
<1>2. CASE s.v = 6
  <2>0. Far4 \in Int
    <3>1. Plateau(path.link[4]) \in Int BY <1>0, PlateauIs
    <3> QED BY <1>0, <3>1 DEF Far4
  <2> DEFINE a == s.link
             b == gcfg.mtu
             c == Max({Far4 + 20, 1280})
  <2>1. Carried(s) = Min({a, b, c}) BY <1>2 DEF Carried, Far4
  <2>2. c = IF Far4 + 20 <= 1280 THEN 1280 ELSE Far4 + 20 BY <2>0, MaxTwo
  <2>3. a \in Int /\ b \in Int /\ c \in Int /\ a >= 1280 /\ b >= 1280 /\ c >= 1280
    BY <1>0, <1>2, <2>0, <2>2
  <2> DEFINE m == Min({a, b, c})
  <2>4. m = Min({a, b, c}) OBVIOUS
  <2> HIDE DEF a, b, c, m
  <2>5. m \in {a, b, c} /\ m <= a /\ m <= b /\ m <= c
    <3>1. a \in Int /\ b \in Int /\ c \in Int BY <2>3
    <3> QED BY <2>4, <3>1, MinThree
  <2>6. m \in Int /\ m >= 1280 BY <2>3, <2>5
  <2>7. m <= 1280 \/ m <= Far4 + 20 BY <2>0, <2>2, <2>3, <2>5, <2>6
  <2> QED BY <1>2, <2>0, <2>1, <2>4, <2>5, <2>6, <2>7 DEF a, b
<1> QED BY <1>1, <1>2

\* A host whose version and link stay the same.
LEMMA FlowingIs ==
  ASSUME NEW s, Flowing(s), NEW t, DOMAIN t = FlowFields,
         t.v = s.v, t.proto = s.proto, t.total = s.total, t.link = s.link,
         t.hops = s.hops, t.df = s.df,
         t.next \in Int, t.pmtu \in Int, t.pmtu >= Carried(s), t.pmtu <= s.link
  PROVE  Flowing(t)
<1>1. Carried(t) = Carried(s) BY DEF Carried
<1> QED BY <1>1 DEF Flowing

\* What holds of packets and hosts before a step holds after it.
LEMMA PathStays ==
  ASSUME PathInv, UNCHANGED <<gcfg, path>>, DOMAIN flow' = Flows,
         \A f \in Flows : flow'[f].v = flow[f].v /\ Flowing(flow'[f]),
         Plain(tunq'), \A p \in ToSet(tunq') : Asked(p),
         DOMAIN out' = Workers, \A w \in Workers : Plain(out'[w]) /\ \A p \in ToSet(out'[w]) : Made(p),
         \A p \in net' : p.what.len \in Int /\ InPlace(p),
         Plain(mail'), \A e \in ToSet(mail') : IsError(e) /\ About(e) /\ e.quote.what.flow \in Flows
  PROVE  PathInv'
<1>1. Given' BY DEF PathInv, Given
<1>2. \A f \in Flows : Flowing(flow'[f]) <=> Flowing(flow[f])'
  BY DEF Flowing, Carried
<1>3. ASSUME NEW p, NEW v PROVE Sided(p, v) <=> Sided(p, v)' BY DEF Sided, Flows
<1>4. ASSUME NEW e PROVE (Honest(e) <=> Honest(e)') /\ (Told(e) <=> Told(e)')
  BY DEF Honest, Told, Far4
<1>5. \A p : Asked(p) <=> Asked(p)' BY <1>3, <1>4 DEF Asked
<1>6. \A e : About(e) <=> About(e)' BY <1>3, <1>4 DEF About
<1>7. \A p : Made(p) <=> Made(p)' BY <1>3, <1>6 DEF Made
<1>8. Flows' = Flows BY DEF Flows
<1> QED BY <1>1, <1>2, <1>5, <1>6, <1>7, <1>8 DEF PathInv

LEMMA PathStart == Init => PathInv
<1> SUFFICES ASSUME Init PROVE PathInv OBVIOUS
<1>1. PICK s \in Scenarios :
        /\ gcfg = s.gcfg /\ path = s.path /\ tunq = s.probe
        /\ flow = [f \in DOMAIN s.flow |-> Starts(s.flow[f])]
  BY DEF Init
<1>2. Given BY <1>1, ScenarioAssumption DEF Given
<1>3. Flows = DOMAIN s.flow BY <1>1 DEF Flows
<1>4. ASSUME NEW f \in Flows PROVE Flowing(flow[f])
  <2> DEFINE d == s.flow[f]
             t == flow[f]
  <2>1. /\ d.v \in {4, 6} /\ d.proto \in {"tcp", "udp"}
        /\ d.hops \in Nat \ {0} /\ d.df \in BOOLEAN /\ d.link <= Length16
        /\ {d.total, d.link} \subseteq Nat /\ d.link >= (IF d.v = 4 THEN 68 ELSE MtuMin)
    BY <1>3, ScenarioAssumption
  <2>2. t = Starts(d) BY <1>1, <1>3
  <2> HIDE DEF t, d
  <2>3. /\ DOMAIN t = FlowFields /\ t.v = d.v /\ t.proto = d.proto /\ t.total = d.total
        /\ t.link = d.link /\ t.next = 0 /\ t.pmtu = d.link /\ t.hops = d.hops /\ t.df = d.df
    BY <2>2 DEF Starts, FlowFields
  <2>4. Carried(t) <= t.link BY <1>2, <2>1, <2>3, CarriedIs
  <2>5. Flowing(t) BY <2>1, <2>3, <2>4 DEF Flowing
  <2> QED BY <2>5 DEF t
<1>5. ASSUME NEW p \in ToSet(tunq) PROVE Asked(p)
  <2>1. p \in ToSet(s.probe) BY <1>1
  <2>2. CASE IsError(p)
    <3>1. Error(p) /\ ~TellsMtu(p) /\ (~IsError(p.quote) => p.quote.what.flow \notin Flows)
      BY <1>3, <2>1, <2>2, ScenarioAssumption
    <3>2. Honest(p) BY <3>1 DEF Honest, TellsMtu
    <3>3. p.quote.proto \notin {"error", "reply"} => Sided(p.quote, 10 - p.v)
      BY <3>1 DEF IsError, Sided
    <3> QED BY <2>2, <3>1, <3>2, <3>3 DEF Asked
  <2>3. CASE ~IsError(p)
    <3>1. /\ Packet(p) /\ p.what.flow \notin Flows /\ InPlace(p)
          /\ p.gso > 0 => WellFormed(p)
      BY <1>3, <2>1, <2>3, ScenarioAssumption
    <3> QED BY <2>3, <3>1 DEF Asked, Sided
  <2> QED BY <2>2, <2>3
<1>6. Plain(tunq)
  <2>1. s.probe \in Seq(ToSet(s.probe)) BY ScenarioAssumption
  <2> QED BY <1>1, <2>1 DEF Plain
<1>7. out = [w \in Workers |-> <<>>] /\ net = {} /\ mail = <<>> BY DEF Init
<1>8. DOMAIN out = Workers /\ \A w \in Workers : Plain(out[w]) /\ \A p \in ToSet(out[w]) : Made(p)
  BY <1>7, PlainNone
<1>9. Plain(mail) /\ ToSet(mail) = {} BY <1>7, PlainNone
<1> QED BY <1>2, <1>4, <1>5, <1>6, <1>7, <1>8, <1>9 DEF PathInv

LEMMA LearnKeeps == ASSUME PathInv, Learn PROVE PathInv'
<1> DEFINE e == Head(mail)
           f == e.quote.what.flow
<1>1. /\ mail # <<>> /\ mail' = Tail(mail) /\ UNCHANGED <<gcfg, path, tunq, out, net>>
      /\ flow' = IF TellsMtu(e)
                 THEN [flow EXCEPT ![f].pmtu =
                         Min({@, IF e.v = 6 THEN Max({e.word, MtuMin}) ELSE e.word})]
                 ELSE [flow EXCEPT ![f].told = TRUE]
  BY DEF Learn
<1>2. e \in ToSet(mail) /\ Plain(Tail(mail)) /\ ToSet(Tail(mail)) \subseteq ToSet(mail)
  BY <1>1, PlainTail DEF PathInv
<1>3. Given /\ About(e) /\ f \in Flows BY <1>2 DEF PathInv
<1>4. Flowing(flow[f]) BY <1>3 DEF PathInv
<1>5. e.v = flow[f].v /\ e.v \in {4, 6} /\ e.word \in Nat /\ Told(e)
  BY <1>3 DEF About, Error, Sided
<1> DEFINE s == flow[f]
           word == IF e.v = 6 THEN Max({e.word, MtuMin}) ELSE e.word
<1>6. /\ s.pmtu \in Int /\ s.pmtu >= Carried(s) /\ s.pmtu <= s.link
      /\ s.link \in Nat /\ s.v \in {4, 6}
      /\ s.link >= (IF s.v = 4 THEN 68 ELSE MtuMin) /\ DOMAIN s = FlowFields
  BY <1>4 DEF Flowing
<1>7. Carried(s) \in Int BY <1>3, <1>6, CarriedIs
<1>8. ASSUME TellsMtu(e)
      PROVE  LET m == Min({s.pmtu, word})
             IN m \in Int /\ m >= Carried(s) /\ m <= s.link
  <2>1. CASE e.v = 4
    <3>1. e.word >= gcfg.mtu - 20 \/ e.word >= path.link[6] - 20 BY <1>5, <1>8, <2>1 DEF Told
    <3>2. Carried(s) <= gcfg.mtu - 20 /\ Carried(s) <= path.link[6] - 20
      BY <1>3, <1>5, <1>6, <2>1, CarriedIs
    <3>3. gcfg.mtu \in Int /\ path.link[6] \in Int BY <1>3 DEF Given
    <3>4. word = e.word BY <2>1
    <3>5. word \in Int /\ word >= Carried(s) BY <1>5, <1>7, <3>1, <3>2, <3>3, <3>4
    <3> HIDE DEF word, s
    <3> QED BY <1>6, <1>7, <3>5, MinTwo
  <2>2. CASE e.v = 6
    <3>1. e.word >= gcfg.mtu \/ e.word >= Far4 + 20 BY <1>5, <1>8, <2>2 DEF Told
    <3>2. /\ Carried(s) <= gcfg.mtu /\ Far4 \in Int
          /\ (Carried(s) <= 1280 \/ Carried(s) <= Far4 + 20)
      BY <1>3, <1>5, <1>6, <2>2, CarriedIs
    <3>3. gcfg.mtu \in Int /\ MtuMin = 1280 BY <1>3 DEF Given, MtuMin
    <3>4. word = IF e.word <= 1280 THEN 1280 ELSE e.word BY <1>5, <2>2, <3>3, MaxTwo
    <3>5. word \in Int /\ word >= Carried(s) BY <1>5, <1>7, <3>1, <3>2, <3>3, <3>4
    <3> HIDE DEF word, s
    <3> QED BY <1>6, <1>7, <3>5, MinTwo
  <2> QED BY <1>5, <2>1, <2>2
<1>9. DOMAIN flow' = Flows /\ \A g \in Flows : g # f => flow'[g] = flow[g] BY <1>1 DEF Flows
<1>10. flow'[f].v = s.v /\ Flowing(flow'[f])
  <2>1. CASE TellsMtu(e)
    <3>1. flow'[f] = [s EXCEPT !.pmtu = Min({s.pmtu, word})] BY <1>1, <1>3, <2>1 DEF Flows
    <3> HIDE DEF s, word
    <3>2. /\ DOMAIN flow'[f] = FlowFields /\ flow'[f].v = s.v /\ flow'[f].proto = s.proto
          /\ flow'[f].total = s.total /\ flow'[f].link = s.link /\ flow'[f].next = s.next
          /\ flow'[f].hops = s.hops /\ flow'[f].df = s.df
          /\ flow'[f].pmtu = Min({s.pmtu, word})
      BY <1>6, <3>1 DEF FlowFields
    <3>3. Flowing(s) /\ s.next \in Int BY <1>4 DEF s, Flowing
    <3> QED BY <1>8, <2>1, <3>2, <3>3, FlowingIs
  <2>2. CASE ~TellsMtu(e)
    <3>1. flow'[f] = [s EXCEPT !.told = TRUE] BY <1>1, <1>3, <2>2 DEF Flows
    <3> HIDE DEF s
    <3>2. /\ DOMAIN flow'[f] = FlowFields /\ flow'[f].v = s.v /\ flow'[f].proto = s.proto
          /\ flow'[f].total = s.total /\ flow'[f].link = s.link /\ flow'[f].next = s.next
          /\ flow'[f].hops = s.hops /\ flow'[f].df = s.df
          /\ flow'[f].pmtu = s.pmtu
      BY <1>6, <3>1 DEF FlowFields
    <3>3. Flowing(s) /\ s.next \in Int BY <1>4 DEF s, Flowing
    <3> QED BY <1>6, <3>2, <3>3, FlowingIs
  <2> QED BY <2>1, <2>2
<1>11. \A g \in Flows : flow'[g].v = flow[g].v /\ Flowing(flow'[g])
  BY <1>9, <1>10 DEF PathInv
<1> HIDE DEF e, f, s, word
<1>12. /\ Plain(tunq') /\ \A p \in ToSet(tunq') : Asked(p)
       /\ DOMAIN out' = Workers
       /\ \A w \in Workers : Plain(out'[w]) /\ \A p \in ToSet(out'[w]) : Made(p)
       /\ \A p \in net' : p.what.len \in Int /\ InPlace(p)
       /\ Plain(mail') /\ \A d \in ToSet(mail') : IsError(d) /\ About(d) /\ d.quote.what.flow \in Flows
  BY <1>1, <1>2 DEF PathInv
<1>13. UNCHANGED <<gcfg, path>> /\ DOMAIN flow' = Flows BY <1>1, <1>9
<1> QED BY <1>11, <1>12, <1>13, PathStays

\* Most steps leave the hosts alone.
LEMMA HostsStay ==
  ASSUME PathInv, flow' = flow
  PROVE  DOMAIN flow' = Flows /\ \A f \in Flows : flow'[f].v = flow[f].v /\ Flowing(flow'[f])
BY DEF PathInv, Flows

LEMMA DeliverKeeps == ASSUME PathInv, Deliver PROVE PathInv'
<1>1. PICK p \in net :
        /\ net' = net \ Datagram(p)
        /\ flow' = IF p.what.flow \in Flows /\ p.what.lo = flow[p.what.flow].next
                   THEN [flow EXCEPT ![p.what.flow].next = @ + p.what.len] ELSE flow
  BY DEF Deliver
<1> DEFINE f == p.what.flow
<1>2. p.what.len \in Int BY DEF PathInv
<1>3. DOMAIN flow' = Flows /\ \A g \in Flows : flow'[g].v = flow[g].v /\ Flowing(flow'[g])
  <2>1. CASE f \in Flows /\ p.what.lo = flow[f].next
    <3>1. flow' = [flow EXCEPT ![f].next = @ + p.what.len] BY <1>1, <2>1
    <3>2. Flowing(flow[f]) BY <2>1 DEF PathInv
    <3> HIDE DEF f
    <3> DEFINE s == flow[f]
               n == s.next + p.what.len
    <3>3. DOMAIN flow' = Flows /\ flow'[f] = [s EXCEPT !.next = n]
          /\ \A g \in Flows : g # f => flow'[g] = flow[g]
      BY <2>1, <3>1 DEF Flows
    <3>4. /\ n \in Int /\ DOMAIN s = FlowFields
          /\ s.pmtu \in Int /\ s.pmtu >= Carried(s) /\ s.pmtu <= s.link
      BY <1>2, <3>2 DEF Flowing
    <3>5. Flowing(s) BY <3>2
    <3> HIDE DEF n, s
    <3>6. /\ DOMAIN flow'[f] = FlowFields /\ flow'[f].v = s.v /\ flow'[f].proto = s.proto
          /\ flow'[f].total = s.total /\ flow'[f].link = s.link /\ flow'[f].next = n
          /\ flow'[f].hops = s.hops /\ flow'[f].df = s.df
          /\ flow'[f].pmtu = s.pmtu
      BY <3>3, <3>4 DEF FlowFields
    <3>7. Flowing(flow'[f]) /\ flow'[f].v = flow[f].v BY <3>4, <3>5, <3>6, FlowingIs DEF s
    <3> QED BY <3>3, <3>7 DEF PathInv
  <2>2. CASE ~(f \in Flows /\ p.what.lo = flow[f].next)
    <3>1. flow' = flow BY <1>1, <2>2
    <3> QED BY <3>1, HostsStay
  <2> QED BY <2>1, <2>2
<1>4. UNCHANGED <<gcfg, path, tunq, out, mail>> /\ net' \subseteq net BY <1>1 DEF Deliver
<1>5. /\ Plain(tunq') /\ \A q \in ToSet(tunq') : Asked(q)
      /\ DOMAIN out' = Workers
      /\ \A w \in Workers : Plain(out'[w]) /\ \A q \in ToSet(out'[w]) : Made(q)
      /\ \A q \in net' : q.what.len \in Int /\ InPlace(q)
      /\ Plain(mail') /\ \A d \in ToSet(mail') : IsError(d) /\ About(d) /\ d.quote.what.flow \in Flows
  BY <1>4 DEF PathInv
<1> HIDE DEF f
<1> QED BY <1>3, <1>4, <1>5, PathStays

LEMMA ExpireKeeps == ASSUME PathInv, Expire PROVE PathInv'
<1>1. UNCHANGED <<gcfg, path, flow, tunq, out, mail>> /\ net' \subseteq net BY DEF Expire
<1>2. /\ Plain(tunq') /\ \A q \in ToSet(tunq') : Asked(q)
      /\ DOMAIN out' = Workers
      /\ \A w \in Workers : Plain(out'[w]) /\ \A q \in ToSet(out'[w]) : Made(q)
      /\ \A q \in net' : q.what.len \in Int /\ InPlace(q)
      /\ Plain(mail') /\ \A d \in ToSet(mail') : IsError(d) /\ About(d) /\ d.quote.what.flow \in Flows
  BY <1>1 DEF PathInv
<1> QED BY <1>1, <1>2, HostsStay, PathStays

LEMMA TakeKeeps == ASSUME PathInv, NEW w \in Workers, Take(w) PROVE PathInv'
<1> DEFINE x == Translate(Head(tunq)).writes
<1>1. /\ tunq # <<>> /\ tunq' = Tail(tunq) /\ out' = [out EXCEPT ![w] = x]
      /\ UNCHANGED <<gcfg, path, flow, net, mail>>
  BY DEF Take
<1>2. Asked(Head(tunq)) /\ Given /\ Plain(tunq') /\ ToSet(tunq') \subseteq ToSet(tunq)
  BY <1>1, PlainTail DEF PathInv
<1>3. Plain(x) /\ \A p \in ToSet(x) : Made(p) BY <1>2, GoodTranslate DEF Good
<1> HIDE DEF x
<1>4. DOMAIN out = Workers BY DEF PathInv
<1>5. DOMAIN out' = Workers /\ out'[w] = x /\ \A v \in Workers : v # w => out'[v] = out[v]
  BY <1>1, <1>4
<1>6. \A v \in Workers : Plain(out'[v]) /\ \A p \in ToSet(out'[v]) : Made(p)
  BY <1>3, <1>5 DEF PathInv
<1>7. /\ \A p \in ToSet(tunq') : Asked(p)
      /\ \A q \in net' : q.what.len \in Int /\ InPlace(q)
      /\ Plain(mail') /\ \A d \in ToSet(mail') : IsError(d) /\ About(d) /\ d.quote.what.flow \in Flows
  BY <1>1, <1>2 DEF PathInv
<1>8. UNCHANGED <<gcfg, path>> /\ flow' = flow BY <1>1
<1> QED BY <1>2, <1>5, <1>6, <1>7, <1>8, HostsStay, PathStays

LEMMA LoseKeeps == ASSUME PathInv, NEW w \in Workers, Lose(w) PROVE PathInv'
<1>1. PICK rest \in {<<>>, Tail(out[w])} : out' = [out EXCEPT ![w] = rest] BY DEF Lose
<1>2. out[w] # <<>> /\ UNCHANGED <<gcfg, path, flow, tunq, net, mail>> BY DEF Lose
<1>3. Plain(rest) /\ \A p \in ToSet(rest) : Made(p)
  <2>1. Plain(out[w]) /\ \A p \in ToSet(out[w]) : Made(p) BY DEF PathInv
  <2>2. CASE rest = <<>> BY <2>2, PlainNone
  <2>3. CASE rest = Tail(out[w]) BY <1>2, <2>1, <2>3, PlainTail
  <2> QED BY <2>2, <2>3
<1>4. DOMAIN out = Workers BY DEF PathInv
<1>5. DOMAIN out' = Workers /\ out'[w] = rest /\ \A v \in Workers : v # w => out'[v] = out[v]
  BY <1>1, <1>4
<1>6. \A v \in Workers : Plain(out'[v]) /\ \A p \in ToSet(out'[v]) : Made(p)
  BY <1>3, <1>5 DEF PathInv
<1>7. /\ Plain(tunq') /\ \A p \in ToSet(tunq') : Asked(p)
      /\ \A q \in net' : q.what.len \in Int /\ InPlace(q)
      /\ Plain(mail') /\ \A d \in ToSet(mail') : IsError(d) /\ About(d) /\ d.quote.what.flow \in Flows
  BY <1>2 DEF PathInv
<1>8. UNCHANGED <<gcfg, path>> /\ flow' = flow BY <1>2
<1> QED BY <1>5, <1>6, <1>7, <1>8, HostsStay, PathStays

----------------------------------------------------------------------------
(* Sending *)

LEMMA FragmentsAre ==
  ASSUME NEW p, Packet(p), Placed(p), p.gso = 0, NEW size \in Int, size >= 8
  PROVE  /\ Plain(Fragmented(p, size))
         /\ \A q \in ToSet(Fragmented(p, size)) : Alike(p, q) /\ q.gso = 0
<1> DEFINE unit == (size \div 8) * 8
           count == (p.len + unit - 1) \div unit
           g == Fragmented(p, size)
<1>1. unit \in Nat /\ unit > 0 /\ unit % 8 = 0
  <2>1. size \div 8 \in Nat /\ size \div 8 > 0 OBVIOUS
  <2> QED BY <2>1
<1>2. g = [i \in 1..count |->
             [p EXCEPT !.off = @ + (i - 1) * unit, !.len = Min({unit, p.len - (i - 1) * unit}),
                       !.mf = @ \/ (i - 1) * unit + unit < p.len]]
  BY DEF Fragmented
<1>3. p.len \in Int BY DEF Packet
<1> HIDE DEF unit, g
<1>4. count \in Int BY <1>1, <1>3
<1>8. ASSUME NEW i \in 1..count PROVE i >= 1 /\ i <= (p.len + unit - 1) \div unit
  BY <1>4
<1> HIDE DEF count
<1>5. ASSUME NEW i \in 1..count PROVE Alike(p, g[i]) /\ g[i].gso = 0
  <2> DEFINE done == (i - 1) * unit
             l == Min({unit, p.len - done})
             off == p.off + done
             more == p.mf \/ done + unit < p.len
  <2>1. i \in Int BY <1>4
  <2>2. done \in Int BY <1>1, <2>1
  <2>3. g[i] = [p EXCEPT !.off = off, !.len = l, !.mf = more]
    BY <1>2
  <2> HIDE DEF done, off, more
  <2>4. l \in Int
    <3>1. unit \in Int /\ p.len - done \in Int BY <1>1, <1>3, <2>2
    <3> QED BY <3>1, MinTwo
  <2> HIDE DEF l
  <2>5. /\ Packet(g[i]) /\ g[i].v = p.v /\ g[i].proto = p.proto /\ g[i].what = p.what
        /\ g[i].gso = 0 /\ g[i].off = off /\ g[i].len = l /\ g[i].mf = more
    BY <2>3, <2>4 DEF Packet, PacketFields
  <2>6. g[i].mf <=> p.mf \/ done + unit < p.len BY <2>5 DEF more
  <2> DEFINE q == g[i]
  <2>7. /\ q.off = p.off + done /\ q.len = l /\ (q.mf <=> p.mf \/ done + unit < p.len)
        /\ q.what = p.what /\ q.proto = p.proto
    BY <2>5, <2>6 DEF off
  <2> HIDE DEF q
  <2>8. InPlace(q)
    <3>1. InPlace(p) BY DEF Placed
    <3> QED BY <1>1, <1>8, <2>1, <2>7, <3>1, PieceInPlace DEF done, l
  <2> QED BY <2>5, <2>8 DEF Alike, Placed, q
<1>6. g = [i \in 1..count |-> g[i]] BY <1>2
<1>7. Plain(g) /\ ToSet(g) = {g[i] : i \in 1..count} BY <1>4, <1>6, PlainMap
<1> QED BY <1>5, <1>7 DEF g

LEMMA BatchIs ==
  ASSUME PathInv, NEW f \in Flows
  PROVE  LET b == Batch(f) IN
         /\ Packet(b) /\ Placed(b) /\ Whole(b) /\ b.gso > 0 /\ b.v = flow[f].v /\ b.what.flow = f
         /\ Payload(b) > b.gso /\ flow[f].how # "fragments"
              /\ (b.proto = "udp" => Count(b) <= MaxUdpSegments) => WellFormed(b)
         /\ flow[f].pmtu \in Int
         /\ flow[f].pmtu - Header(b.v) - (IF b.v = 6 THEN 8 ELSE 0) >= 8
<1> DEFINE s == flow[f]
           b == Batch(f)
           left == s.total - s.next
           gso == s.pmtu - Header(s.v) - Transport(s.proto)
           frag == s.v = 6 /\ s.how = "fragments"
           w == [flow |-> f, lo |-> s.next, len |-> left, flags |-> {"fin", "cwr"}]
           id == IF s.v = 4 \/ s.how = "fragments" THEN s.id + s.sends ELSE 0
           len == Transport(s.proto) + left
<1>1. Flowing(s) /\ Given BY DEF PathInv
<1>2. b = [v |-> s.v, from |-> s.from, to |-> s.to, hops |-> s.hops, proto |-> s.proto,
           what |-> w, off |-> 0, len |-> len, mf |-> FALSE, id |-> id,
           df |-> s.df, frag |-> frag, gso |-> gso]
  BY DEF Batch
<1>3. /\ s.v \in {4, 6} /\ s.proto \in {"tcp", "udp"} /\ left \in Int /\ s.pmtu \in Int
      /\ s.pmtu >= Carried(s) /\ s.pmtu <= s.link /\ s.link <= Length16
      /\ s.link \in Nat /\ s.link >= (IF s.v = 4 THEN 68 ELSE MtuMin)
      /\ s.hops \in Nat \ {0} /\ s.df \in BOOLEAN
  BY <1>1 DEF Flowing
<1>4. Carried(s) \in Int /\ (s.v = 4 => Carried(s) >= 68) /\ (s.v = 6 => Carried(s) >= 1280)
  BY <1>1, <1>3, CarriedIs
<1>5. /\ s.v = 4 => s.pmtu >= 68 /\ Header(s.v) = 20
      /\ s.v = 6 => s.pmtu >= 1280 /\ Header(s.v) = 40
  BY <1>3, <1>4 DEF Header
<1>6. Transport(s.proto) \in {8, 20} BY TransportIs
<1>7. gso \in Nat /\ gso > 0 /\ s.pmtu - Header(s.v) - (IF s.v = 6 THEN 8 ELSE 0) >= 8
  BY <1>3, <1>5, <1>6
<1>8. len \in Int BY <1>3, <1>6
<1>9. /\ DOMAIN w = {"flow", "lo", "len", "flags"} /\ w.flow = f /\ w.len \in Int
      /\ w.len = left /\ w.flags = {"fin", "cwr"} /\ w.lo \in Int
      /\ w = [flow |-> w.flow, lo |-> w.lo, len |-> left, flags |-> w.flags]
  BY <1>1, <1>3 DEF Flowing
<1>10. /\ frag \in BOOLEAN /\ (s.v = 4 => frag = FALSE)
       /\ (s.how # "fragments" => frag = FALSE)
  OBVIOUS
<1>13. /\ len = Transport(s.proto) + left
       /\ Transport(s.proto) + gso <= Length16
  BY <1>3, <1>5, <1>6 DEF Length16
<1> HIDE DEF b, s, gso, len, w, frag, id, left
<1>11. /\ DOMAIN b = PacketFields /\ b.v = s.v /\ b.proto = s.proto /\ b.what = w
       /\ b.len = len /\ b.frag = frag /\ b.gso = gso /\ b.off = 0 /\ b.mf = FALSE
       /\ b.hops = s.hops /\ b.df = s.df
  BY <1>2 DEF PacketFields
<1>12. Packet(b) BY <1>3, <1>7, <1>8, <1>9, <1>10, <1>11 DEF Packet
<1>14. Whole(b) /\ Placed(b)
  <2>1. Whole(b) BY <1>11 DEF Whole
  <2>2. b.off + b.len = Transport(b.proto) + b.what.len BY <1>8, <1>9, <1>11, <1>13
  <2> QED BY <1>11, <2>1, <2>2 DEF Placed, InPlace
<1>15. ASSUME Payload(b) > b.gso, s.how # "fragments",
              b.proto = "udp" => Count(b) <= MaxUdpSegments
       PROVE  WellFormed(b)
  <2>1. Payload(b) = left BY <1>3, <1>6, <1>11, <1>13 DEF Payload
  <2>2. Segment(b) = gso
    <3>1. left \in Int /\ gso \in Int /\ left > gso BY <1>3, <1>7, <1>11, <1>15, <2>1
    <3> QED BY <1>11, <2>1, <3>1, MinTwo DEF Segment
  <2>3. Payload(b) >= 0 BY <1>3, <1>7, <1>11, <1>15, <2>1
  <2>4. /\ b.what.lo \in Int /\ b.what.flags = {"fin", "cwr"}
        /\ b.what = [flow |-> b.what.flow, lo |-> b.what.lo, len |-> Payload(b),
                     flags |-> b.what.flags]
    <3>1. b.what = w BY <1>11
    <3>2. w.lo \in Int /\ w.flags = {"fin", "cwr"}
          /\ w = [flow |-> w.flow, lo |-> w.lo, len |-> left, flags |-> w.flags]
      BY <1>9
    <3> QED BY <2>1, <3>1, <3>2, Zenon
  <2>5. Transport(b.proto) + Segment(b) <= Length16 BY <1>11, <1>13, <2>2
  <2>6. b.proto = "udp" => 8 + b.gso <= Length16 BY <1>11, <1>13 DEF Transport
  <2> QED BY <1>3, <1>10, <1>11, <1>15, <2>3, <2>4, <2>5, <2>6 DEF WellFormed
<1> QED BY <1>3, <1>7, <1>9, <1>11, <1>12, <1>14, <1>15 DEF b, s

LEMMA SentIs ==
  ASSUME PathInv, NEW f \in Flows
  PROVE  Plain(Sent(f)) /\ \A p \in ToSet(Sent(f)) : Asked(p)
<1> DEFINE b == Batch(f)
           single == [b EXCEPT !.gso = 0]
           size == flow[f].pmtu - Header(b.v) - (IF b.v = 6 THEN 8 ELSE 0)
           few == b.proto = "udp" => Count(b) <= MaxUdpSegments
<1>1. /\ Packet(b) /\ Placed(b) /\ Whole(b) /\ b.gso > 0 /\ b.v = flow[f].v /\ b.what.flow = f
      /\ flow[f].pmtu \in Int /\ size >= 8
      /\ Payload(b) > b.gso /\ flow[f].how # "fragments" /\ few => WellFormed(b)
  BY BatchIs
<1>2. Sent(f) = IF flow[f].how = "fragments" THEN Fragmented(single, size)
                ELSE IF Payload(b) <= b.gso THEN <<single>>
                ELSE IF flow[f].how = "aggregate" /\ few THEN <<b>> ELSE Segments(b)
  BY DEF Sent
<1>3. size \in Int BY <1>1 DEF Header
<1>0. Payload(b) \in Int /\ b.gso \in Int
  BY <1>1, TransportIs DEF Packet, Payload
<1> HIDE DEF b, size, few
<1>4. Alike(b, single) /\ Packet(single) /\ single.gso = 0
  <2>1. Packet(single) /\ single.v = b.v /\ single.proto = b.proto /\ single.gso = 0 /\ Kept(b, single)
    BY <1>1 DEF Packet, PacketFields, Kept
  <2>2. Placed(single) BY <1>1, <2>1, KeptPlaced
  <2> QED BY <2>1, <2>2 DEF Alike, Kept
<1> HIDE DEF single
<1>5. Alike(b, b) BY <1>1 DEF Alike
<1> DEFINE Fine(p) == Alike(b, p) /\ (p.gso > 0 => WellFormed(p))
<1>6. ASSUME NEW p, Fine(p) PROVE Asked(p)
  <2>1. Packet(p) /\ InPlace(p) /\ p.v = flow[f].v /\ p.what.flow = f
    BY <1>1, <1>6 DEF Alike, Placed
  <2>2. ~IsError(p) BY <2>1 DEF Packet, IsError
  <2> QED BY <1>6, <2>1, <2>2 DEF Asked, Sided
<1>7. Plain(Sent(f)) /\ \A p \in ToSet(Sent(f)) : Fine(p)
  <2>1. CASE flow[f].how = "fragments"
    <3>1. /\ Plain(Fragmented(single, size))
          /\ \A q \in ToSet(Fragmented(single, size)) : Alike(single, q) /\ q.gso = 0
      BY <1>1, <1>3, <1>4, FragmentsAre DEF Alike
    <3>2. \A q \in ToSet(Fragmented(single, size)) : Fine(q) BY <1>4, <3>1 DEF Alike
    <3> QED BY <1>2, <2>1, <3>1, <3>2
  <2>2. CASE flow[f].how # "fragments" /\ Payload(b) <= b.gso
    <3>1. Sent(f) = <<single>> BY <1>2, <2>2
    <3> QED BY <1>4, <3>1, PlainOne
  <2>3. CASE flow[f].how # "fragments" /\ ~(Payload(b) <= b.gso) /\ flow[f].how = "aggregate" /\ few
    <3>1. Sent(f) = <<b>> BY <1>2, <2>3
    <3>2. Payload(b) > b.gso BY <1>0, <2>3
    <3>3. Fine(b) BY <1>1, <1>5, <2>3, <3>2
    <3> QED BY <3>1, <3>3, PlainOne
  <2>4. CASE flow[f].how # "fragments" /\ ~(Payload(b) <= b.gso) /\ ~(flow[f].how = "aggregate" /\ few)
    <3>1. Sent(f) = Segments(b) BY <1>2, <2>4
    <3> DEFINE g == Segments(b)
    <3>2. /\ g = [i \in 1..Count(b) |-> g[i]]
          /\ \A i \in 1..Count(b) : Alike(b, g[i]) /\ g[i].gso = 0
      BY <1>1, SegmentsAre
    <3>3. Count(b) \in Int BY <1>1, CountIs
    <3> HIDE DEF g
    <3>4. Plain(g) /\ ToSet(g) = {g[i] : i \in 1..Count(b)} BY <3>2, <3>3, PlainMap
    <3> QED BY <3>1, <3>2, <3>4 DEF g
  <2> QED BY <2>1, <2>2, <2>3, <2>4
<1> QED BY <1>6, <1>7

LEMMA SendKeeps == ASSUME PathInv, NEW f \in Flows, Send(f) PROVE PathInv'
<1>1. /\ tunq' = tunq \o Sent(f) /\ flow' = [flow EXCEPT ![f].sends = (@ + 1) % 3]
      /\ UNCHANGED <<gcfg, path, out, net, mail>>
  BY DEF Send
<1>2. Plain(tunq') /\ \A p \in ToSet(tunq') : Asked(p)
  <2>1. Plain(tunq) /\ \A p \in ToSet(tunq) : Asked(p) BY DEF PathInv
  <2> QED BY <1>1, <2>1, PlainJoin, SentIs
<1> DEFINE s == flow[f]
           n == (s.sends + 1) % 3
<1>3. DOMAIN flow' = Flows /\ flow'[f] = [s EXCEPT !.sends = n]
      /\ \A g \in Flows : g # f => flow'[g] = flow[g]
  BY <1>1 DEF Flows
<1>4. Flowing(s) BY DEF PathInv
<1> HIDE DEF n, s
<1>5. /\ DOMAIN s = FlowFields /\ s.next \in Int
      /\ s.pmtu \in Int /\ s.pmtu >= Carried(s) /\ s.pmtu <= s.link
  BY <1>4 DEF Flowing
<1>6. /\ DOMAIN flow'[f] = FlowFields /\ flow'[f].v = s.v /\ flow'[f].proto = s.proto
      /\ flow'[f].total = s.total /\ flow'[f].link = s.link /\ flow'[f].next = s.next
      /\ flow'[f].hops = s.hops /\ flow'[f].df = s.df
      /\ flow'[f].pmtu = s.pmtu
  BY <1>3, <1>5 DEF FlowFields
<1>7. Flowing(flow'[f]) /\ flow'[f].v = flow[f].v BY <1>4, <1>5, <1>6, FlowingIs DEF s
<1>8. \A g \in Flows : flow'[g].v = flow[g].v /\ Flowing(flow'[g]) BY <1>3, <1>7 DEF PathInv
<1>9. /\ DOMAIN out' = Workers
      /\ \A w \in Workers : Plain(out'[w]) /\ \A q \in ToSet(out'[w]) : Made(q)
      /\ \A q \in net' : q.what.len \in Int /\ InPlace(q)
      /\ Plain(mail') /\ \A d \in ToSet(mail') : IsError(d) /\ About(d) /\ d.quote.what.flow \in Flows
  BY <1>1 DEF PathInv
<1>10. UNCHANGED <<gcfg, path>> /\ DOMAIN flow' = Flows BY <1>1, <1>3
<1> QED BY <1>2, <1>8, <1>9, <1>10, PathStays

----------------------------------------------------------------------------
(* Links and routers *)

LEMMA KernelIs ==
  ASSUME NEW p, Packet(p), Placed(p)
  PROVE  /\ Plain(KernelSegments(p))
         /\ \A q \in ToSet(KernelSegments(p)) : Alike(p, q) /\ q.gso = 0
<1>1. CASE p.gso = 0
  <2>1. Alike(p, p) BY DEF Alike
  <2> QED BY <1>1, <2>1, PlainOne DEF KernelSegments
<1>2. CASE p.gso # 0 /\ p.proto = "tcp" /\ Payload(p) <= p.gso
  BY <1>2, PlainNone DEF KernelSegments
<1>3. CASE p.gso # 0 /\ ~(p.proto = "tcp" /\ Payload(p) <= p.gso)
  <2> DEFINE s == Segments(p)
             Next4(i) == IF p.v = 4 /\ ~p.df THEN Id16(s[i].id + i - 1) ELSE s[i].id
             g == [i \in 1..Count(p) |-> [s[i] EXCEPT !.id = Next4(i)]]
  <2>0. p.gso > 0 /\ Whole(p) BY <1>3 DEF Packet, Placed
  <2>1. KernelSegments(p) = g BY <1>3 DEF KernelSegments
  <2>2. \A i \in 1..Count(p) : Alike(p, s[i]) /\ s[i].gso = 0 BY <2>0, SegmentsAre
  <2>3. Count(p) \in Int BY <2>0, CountIs
  <2> HIDE DEF s
  <2>4. ASSUME NEW i \in 1..Count(p) PROVE Alike(p, g[i]) /\ g[i].gso = 0
    <3> DEFINE c == s[i]
               n == Next4(i)
    <3>1. g[i] = [c EXCEPT !.id = n] OBVIOUS
    <3>2. Alike(p, c) /\ c.gso = 0 BY <2>2
    <3> HIDE DEF g, n, c
    <3>3. /\ Packet(g[i]) /\ g[i].v = c.v /\ g[i].proto = c.proto /\ g[i].gso = 0
          /\ Kept(c, g[i])
      BY <3>1, <3>2 DEF Alike, Packet, PacketFields, Kept
    <3>4. Placed(g[i]) BY <3>2, <3>3, KeptPlaced DEF Alike
    <3> QED BY <3>2, <3>3, <3>4 DEF Alike, Kept
  <2>5. g = [i \in 1..Count(p) |-> g[i]] OBVIOUS
  <2> HIDE DEF g
  <2>6. Plain(g) /\ ToSet(g) = {g[i] : i \in 1..Count(p)} BY <2>3, <2>5, PlainMap
  <2> QED BY <2>1, <2>4, <2>6
<1> QED BY <1>1, <1>2, <1>3

\* A packet beyond tayga, or an echo reply of its own.
Beyond(q) == Packet(q) /\ (q.proto # "reply" => Sided(q, 10 - q.v))

LEMMA AnswerAsked ==
  ASSUME NEW q, Beyond(q), NEW type, NEW code, NEW word \in Nat,
         Honest(ErrorAbout(q, type, code, word))
  PROVE  Asked(ErrorAbout(q, type, code, word))
<1> DEFINE e == ErrorAbout(q, type, code, word)
<1>1. /\ DOMAIN e = ErrorFields /\ e.v = q.v /\ e.proto = "error" /\ e.word = word
      /\ e.to = q.from /\ e.quote = q
  BY DEF ErrorAbout, ErrorFields
<1> HIDE DEF e
<1>2. Packet(q) /\ q.v \in {4, 6} BY DEF Beyond, Packet
<1>3. Error(e) BY <1>1, <1>2 DEF Error
<1>4. IsError(e) /\ (e.quote.proto # "reply" => Sided(e.quote, 10 - e.v))
  BY <1>1 DEF IsError, Beyond
<1>5. Honest(e) BY DEF e
<1> QED BY <1>3, <1>4, <1>5 DEF Asked, e

LEMMA TooBigAsked ==
  ASSUME Given, NEW q, Beyond(q), ~Fits(q)
  PROVE  Asked(TooBigError(q))
<1>1. Packet(q) /\ q.v \in {4, 6} /\ q.len \in Int BY DEF Beyond, Packet
<1>2. path.link[4] \in Nat /\ path.link[6] \in Nat BY DEF Given
<1>3. CASE q.v = 6
  <2> DEFINE e == ErrorAbout(q, 2, 0, path.link[6])
  <2>1. e.v = 6 /\ e.word = path.link[6] BY <1>3 DEF ErrorAbout
  <2> HIDE DEF e
  <2>2. Honest(e) BY <1>2, <2>1 DEF Honest
  <2> QED BY <1>2, <1>3, <2>2, AnswerAsked DEF TooBigError, e
<1>4. CASE q.v = 4
  <2> DEFINE word == IF path.silent THEN 0 ELSE path.link[4]
             e == ErrorAbout(q, 3, 4, word)
  <2>1. e.v = 4 /\ e.word = word /\ e.quote = q BY <1>4 DEF ErrorAbout
  <2>2. 20 + q.len > path.link[4]
    <3>1. q.frag = FALSE BY <1>1, <1>4 DEF Packet
    <3>2. ~(20 + 0 + q.len <= path.link[4]) BY <1>4, <3>1 DEF Fits, Header
    <3> QED BY <1>1, <1>2, <3>2
  <2>3. word \in Nat /\ (path.silent => word = 0) /\ (~path.silent => word = path.link[4]) BY <1>2
  <2>4. TooBigError(q) = e BY <1>4 DEF TooBigError
  <2> HIDE DEF e, word
  <2>5. Honest(e) BY <1>2, <2>1, <2>2, <2>3 DEF Honest
  <2>6. Asked(e) BY <2>3, <2>5, AnswerAsked DEF e
  <2> QED BY <2>4, <2>6
<1> QED BY <1>1, <1>3, <1>4

LEMMA RefusedAre ==
  ASSUME Given, NEW s, Plain(s), \A q \in ToSet(s) : Beyond(q)
  PROVE  Plain(Refused(s)) /\ \A e \in ToSet(Refused(s)) : Asked(e)
<1> DEFINE m == Len(s)
           Back(q) == IF ~Fits(q) /\ (q.v = 6 \/ q.df) THEN <<TooBigError(q)>> ELSE <<>>
           S == {TooBigError(q) : q \in {r \in ToSet(s) : ~Fits(r)}}
           g == [i \in 1..m |-> Back(s[i])]
<1>1. m \in Nat /\ DOMAIN s = 1..m /\ \A i \in 1..m : s[i] \in ToSet(s) BY PlainIs
<1>2. Refused(s) = FlattenSeq(g) BY <1>1 DEF Refused
<1>3. ASSUME NEW q \in ToSet(s) PROVE Back(q) \in Seq(S)
  <2>1. CASE ~Fits(q) /\ (q.v = 6 \/ q.df)
    <3>1. TooBigError(q) \in S BY <2>1
    <3>2. Back(q) = <<TooBigError(q)>> BY <2>1
    <3> HIDE DEF S, Back
    <3> QED BY <3>1, <3>2
  <2>2. CASE ~(~Fits(q) /\ (q.v = 6 \/ q.df))
    <3>1. Back(q) = <<>> BY <2>2
    <3> HIDE DEF S, Back
    <3> QED BY <3>1, EmptySeq
  <2> QED BY <2>1, <2>2
<1>4. \A e \in S : Asked(e) BY TooBigAsked
<1> HIDE DEF Back, S, m
<1>5. g \in [1..m -> Seq(S)] BY <1>1, <1>3
<1> HIDE DEF g
<1>6. Plain(FlattenSeq(g)) /\ ToSet(FlattenSeq(g)) \subseteq S BY <1>1, <1>5, PlainFlatten
<1> QED BY <1>2, <1>4, <1>6

LEMMA PassedAre ==
  ASSUME NEW s, \A q \in ToSet(s) : Packet(q) /\ Placed(q) /\ q.gso = 0,
         path.link[4] \in Nat, path.link[4] >= 68
  PROVE  \A x \in Passed(s) : x.what.len \in Int /\ InPlace(x)
<1> SUFFICES ASSUME NEW x \in Passed(s) PROVE x.what.len \in Int /\ InPlace(x) OBVIOUS
<1>1. PICK q \in ToSet(s) : x = q \/ x \in ToSet(Fragmented(q, path.link[4] - 20)) BY DEF Passed
<1>2. Packet(q) /\ Placed(q) /\ q.gso = 0 OBVIOUS
<1>3. path.link[4] - 20 \in Int /\ path.link[4] - 20 >= 8 OBVIOUS
<1>4. Packet(x) /\ Placed(x) BY <1>1, <1>2, <1>3, FragmentsAre DEF Alike
<1> QED BY <1>4 DEF Packet, Placed

LEMMA WriteKeeps == ASSUME PathInv, NEW w \in Workers, Write(w) PROVE PathInv'
<1> DEFINE p == Head(out[w])
           packets == KernelSegments(p)
<1>1. out[w] # <<>> /\ out' = [out EXCEPT ![w] = Tail(@)] /\ UNCHANGED <<gcfg, path, flow>>
  BY DEF Write
<1>2. Plain(out[w]) /\ \A q \in ToSet(out[w]) : Made(q) BY DEF PathInv
<1>3. Made(p) /\ Plain(Tail(out[w])) /\ \A q \in ToSet(Tail(out[w])) : Made(q)
  BY <1>1, <1>2, PlainTail
<1>4. /\ DOMAIN out' = Workers
      /\ \A v \in Workers : Plain(out'[v]) /\ \A q \in ToSet(out'[v]) : Made(q)
  <2>1. DOMAIN out = Workers BY DEF PathInv
  <2>2. DOMAIN out' = Workers /\ out'[w] = Tail(out[w])
        /\ \A v \in Workers : v # w => out'[v] = out[v]
    BY <1>1, <2>1
  <2> QED BY <1>3, <2>2 DEF PathInv
<1>5. /\ Given /\ Plain(tunq) /\ \A q \in ToSet(tunq) : Asked(q)
      /\ \A q \in net : q.what.len \in Int /\ InPlace(q)
      /\ Plain(mail) /\ \A e \in ToSet(mail) : IsError(e) /\ About(e) /\ e.quote.what.flow \in Flows
  BY DEF PathInv
<1>6. /\ Plain(tunq') /\ \A q \in ToSet(tunq') : Asked(q)
      /\ \A q \in net' : q.what.len \in Int /\ InPlace(q)
      /\ Plain(mail') /\ \A e \in ToSet(mail') : IsError(e) /\ About(e) /\ e.quote.what.flow \in Flows
  <2>1. CASE IsError(p)
    <3>1. /\ mail' = IF \E f \in Flows : Concerns(p, f) THEN Append(mail, p) ELSE mail
          /\ UNCHANGED <<net, tunq>>
      BY <2>1 DEF Write
    <3> HIDE DEF p
    <3>2. CASE \E f \in Flows : Concerns(p, f)
      <4>1. mail' = Append(mail, p) BY <3>1, <3>2
      <4>2. Plain(mail') /\ ToSet(mail') = ToSet(mail) \cup {p}
        <5>1. mail \in Seq(ToSet(mail)) /\ Append(mail, p) = mail \o <<p>>
          <6>1. mail \in Seq(ToSet(mail)) BY <1>5 DEF Plain
          <6> QED BY <6>1
        <5> QED BY <1>5, <4>1, <5>1, PlainOne, PlainJoin
      <4>3. About(p) /\ p.quote.what.flow \in Flows
        BY <1>3, <2>1, <3>2 DEF Made, Concerns
      <4> QED BY <1>5, <2>1, <3>1, <4>2, <4>3
    <3>3. CASE ~\E f \in Flows : Concerns(p, f) BY <1>5, <3>1, <3>3
    <3> QED BY <3>2, <3>3
  <2>2. CASE ~IsError(p)
    <3>1. /\ UNCHANGED mail
          /\ \/ net' = net \cup Passed(packets) /\ tunq' = tunq \o Refused(packets)
             \/ /\ packets # <<>> /\ UNCHANGED net
                /\ \E r \in path.refusals[p.v] :
                     tunq' = Append(tunq, ErrorAbout(packets[1], r[1], r[2], r[3]))
      BY <2>2 DEF Write
    <3>2. Beyond(p) /\ Placed(p) /\ p.v \in {4, 6} BY <1>3, <2>2 DEF Made, Beyond, Packet
    <3> HIDE DEF p
    <3>3. Plain(packets) /\ \A q \in ToSet(packets) : Alike(p, q) /\ q.gso = 0
      BY <3>2, KernelIs DEF Beyond
    <3> HIDE DEF packets
    <3>4. \A q \in ToSet(packets) : Beyond(q) /\ Packet(q) /\ Placed(q) /\ q.gso = 0 /\ q.v = p.v
      BY <3>2, <3>3 DEF Beyond, Alike, Sided
    <3>5. CASE net' = net \cup Passed(packets) /\ tunq' = tunq \o Refused(packets)
      <4>1. Plain(tunq') /\ \A q \in ToSet(tunq') : Asked(q)
        <5>1. Plain(Refused(packets)) /\ \A e \in ToSet(Refused(packets)) : Asked(e)
          BY <1>5, <3>3, <3>4, RefusedAre
        <5> QED BY <1>5, <3>5, <5>1, PlainJoin
      <4>2. \A x \in Passed(packets) : x.what.len \in Int /\ InPlace(x)
        <5>1. path.link[4] \in Nat /\ path.link[4] >= 68 BY <1>5 DEF Given
        <5> QED BY <3>4, <5>1, PassedAre
      <4> QED BY <1>5, <3>1, <3>5, <4>1, <4>2
    <3>6. ASSUME packets # <<>>, UNCHANGED net, NEW r \in path.refusals[p.v],
                 tunq' = Append(tunq, ErrorAbout(packets[1], r[1], r[2], r[3]))
          PROVE  Plain(tunq') /\ (\A q \in ToSet(tunq') : Asked(q)) /\ \A q \in net' : q.what.len \in Int /\ InPlace(q)
      <4> DEFINE h == packets[1]
                 e == ErrorAbout(h, r[1], r[2], r[3])
      <4>1. h \in ToSet(packets)
        <5>1. packets \in Seq(ToSet(packets)) BY <3>3 DEF Plain
        <5> QED BY <3>6, <5>1
      <4> HIDE DEF h
      <4>2. Beyond(h) /\ h.v = p.v BY <3>4, <4>1
      <4>3. /\ r[3] \in Nat
            /\ p.v = 4 => ~(r[1] = 3 /\ r[2] = 4)
            /\ p.v = 6 => (r[1] = 2 => r[3] < 68 + MtuAdj)
        BY <1>5, <3>2 DEF Given
      <4>4. e.v = p.v /\ e.type = r[1] /\ e.code = r[2] /\ e.word = r[3]
        BY <4>2 DEF ErrorAbout
      <4> HIDE DEF e
      <4>5. Honest(e) BY <4>3, <4>4 DEF Honest
      <4>6. Asked(e) BY <4>2, <4>3, <4>5, AnswerAsked DEF e
      <4>7. tunq' = Append(tunq, e) BY <3>6 DEF e, h
      <4>8. Append(tunq, e) = tunq \o <<e>>
        <5>1. tunq \in Seq(ToSet(tunq)) BY <1>5 DEF Plain
        <5> QED BY <5>1
      <4>9. Plain(tunq') /\ ToSet(tunq') = ToSet(tunq) \cup {e}
        BY <1>5, <4>7, <4>8, PlainOne, PlainJoin
      <4> QED BY <1>5, <3>6, <4>6, <4>9
    <3> QED BY <1>5, <3>1, <3>5, <3>6
  <2> QED BY <2>1, <2>2
<1> HIDE DEF p, packets
<1>7. UNCHANGED <<gcfg, path>> /\ flow' = flow BY <1>1
<1> QED BY <1>4, <1>6, <1>7, HostsStay, PathStays

----------------------------------------------------------------------------
(* Segments of an aggregate *)

\* m bytes in n parts of g bytes, of which the last may be shorter.
LEMMA GridIs ==
  ASSUME NEW g \in Nat, g > 0, NEW m \in Nat, m > 0
  PROVE  LET n == (m + g - 1) \div g IN
         /\ n \in Nat /\ n > 0 /\ (n - 1) * g \in Nat /\ (n - 1) * g < m /\ m <= (n - 1) * g + g
         /\ m <= g <=> n = 1
         /\ m % g \in Nat /\ m % g < g
         /\ m - (n - 1) * g = IF m % g > 0 THEN m % g ELSE g
<1> DEFINE n == (m + g - 1) \div g
<1>1. m + g - 1 \in Nat /\ n \in Int OBVIOUS
<1>2. n >= 1
  <2>1. \A i \in Int : i < n <=> (i - 1) * g + g < m BY CountReached
  <2>2. (0 - 1) * g + g = 0 OBVIOUS
  <2> HIDE DEF n
  <2> QED BY <1>1, <2>1, <2>2
<1>3. (n - 1) * g \in Nat /\ (n - 1) * g < m
  <2>1. n <= (m + g - 1) \div g OBVIOUS
  <2> HIDE DEF n
  <2> QED BY <1>1, <1>2, <2>1, PieceStarts
<1>4. m <= (n - 1) * g + g
  <2>1. n < n <=> (n - 1) * g + g < m BY <1>1, CountReached
  <2> HIDE DEF n
  <2> QED BY <1>1, <1>3, <2>1
<1>5. m <= g <=> n = 1
  <2>1. 1 < n <=> (1 - 1) * g + g < m BY CountReached
  <2>2. (1 - 1) * g = 0 OBVIOUS
  <2> HIDE DEF n
  <2> QED BY <1>1, <1>2, <2>1, <2>2
<1> HIDE DEF n
<1> DEFINE k == m \div g
           r == m % g
           a == n - 1
           e == a * g
<1>6. k \in Int /\ r \in Int /\ 0 <= r /\ r < g /\ m = g * k + r OBVIOUS
<1>7. a \in Int /\ e \in Int /\ e < m /\ m <= e + g BY <1>1, <1>3, <1>4
<1> HIDE DEF k, r, a
<1>8. m = k * g + r
  <2>1. g * k = k * g BY <1>6
  <2> QED BY <1>6, <2>1
<1>9. CASE k < a
  <2>1. (k + 1) * g <= a * g BY <1>6, <1>7, <1>9
  <2>2. (k + 1) * g = k * g + g BY <1>6
  <2> QED BY <1>6, <1>7, <1>8, <2>1, <2>2
<1>10. CASE k = a
  <2>1. r = m - e BY <1>6, <1>7, <1>8, <1>10
  <2>2. r > 0 BY <1>6, <1>7, <2>1
  <2>3. m - e = IF r > 0 THEN r ELSE g BY <2>1, <2>2
  <2> QED BY <1>1, <1>2, <1>3, <1>4, <1>5, <1>6, <2>3 DEF a, r, n
<1>11. CASE k > a
  <2>1. (a + 1) * g <= k * g BY <1>6, <1>7, <1>11
  <2>2. (a + 1) * g = e + g BY <1>7
  <2> HIDE DEF e
  <2>3. k * g \in Int BY <1>6
  <2>4. k * g >= e + g /\ k * g = m - r BY <1>6, <1>7, <1>8, <2>1, <2>2, <2>3
  <2>5. r = 0 /\ m - e = g BY <1>6, <1>7, <2>3, <2>4
  <2>6. m - e = IF r > 0 THEN r ELSE g BY <2>5
  <2> QED BY <1>1, <1>2, <1>3, <1>4, <1>5, <1>6, <2>6 DEF a, r, n, e
<1> QED BY <1>6, <1>7, <1>9, <1>10, <1>11

\* A packet of which segments can be cut.
Parted(b) ==
  /\ DOMAIN b = PacketFields /\ b.gso \in Nat /\ b.gso > 0
  /\ b.len \in Int /\ Payload(b) >= 0
  /\ b.what.lo \in Int /\ b.what.flags \subseteq {"cwr", "fin"}
  /\ b.what = [flow |-> b.what.flow, lo |-> b.what.lo, len |-> Payload(b), flags |-> b.what.flags]

Width(b, i) == Reach(b, i) - Reach(b, i - 1)

LEMMA CountOne ==
  ASSUME NEW b, Parted(b), Payload(b) = 0
  PROVE  /\ Count(b) = 1 /\ Segment(b) = 0 /\ TailLen(b) = 0
         /\ Reach(b, 0) = 0 /\ Reach(b, 1) = 0
<1>1. b.gso \in Nat /\ b.gso > 0 BY DEF Parted
<1> DEFINE g == b.gso
<1>2. g \in Nat /\ g > 0 /\ g \in Int /\ 0 \in Int BY <1>1
<1> HIDE DEF g
<1>3. 0 * g = 0 /\ 1 * g = g /\ 0 % g = 0 BY <1>2
<1>4. Min({0, g}) = 0 /\ Min({g, 0}) = 0 /\ Min({0, 0}) = 0 BY <1>2, MinTwo
<1> QED BY <1>3, <1>4 DEF Count, Segment, TailLen, Reach, g

\* Where segments start and end.
LEMMA WidthIs ==
  ASSUME NEW b, Parted(b)
  PROVE  /\ Count(b) \in Nat \ {0} /\ Payload(b) \in Nat /\ TailLen(b) \in Nat /\ Segment(b) \in Nat
         /\ Count(b) = 1 <=> Payload(b) <= b.gso
         /\ Segment(b) = IF Payload(b) <= b.gso THEN Payload(b) ELSE b.gso
         /\ \A i \in 1..Count(b) :
              /\ Reach(b, i - 1) = (i - 1) * b.gso /\ Reach(b, i - 1) \in Nat
              /\ Reach(b, i - 1) = 0 <=> i = 1
              /\ Reach(b, i) = Payload(b) <=> i = Count(b)
              /\ Reach(b, i - 1) + Width(b, i) = Reach(b, i)
              /\ Width(b, i) \in Nat
              /\ i < Count(b) => Width(b, i) = b.gso
              /\ i = Count(b) => Width(b, i) = IF TailLen(b) > 0 THEN TailLen(b) ELSE Segment(b)
<1>1. b.gso \in Nat /\ b.gso > 0 /\ Payload(b) \in Nat
  BY TransportIs DEF Parted, Payload
<1> DEFINE g == b.gso
           m == Payload(b)
           n == Count(b)
<1>2. g \in Nat /\ g > 0 /\ m \in Nat BY <1>1
<1>3. /\ Segment(b) = Min({m, g}) /\ TailLen(b) = m % g
      /\ \A i : Reach(b, i) = Min({i * g, m})
      /\ n = IF m = 0 THEN 1 ELSE (m + g - 1) \div g
  BY DEF Segment, TailLen, Reach, Count
<1> HIDE DEF g, m, n
<1>4. Segment(b) = IF m <= g THEN m ELSE g BY <1>2, <1>3, MinTwo
<1>5. CASE m = 0
  <2>1. n = 1 /\ Segment(b) = 0 /\ TailLen(b) = 0 /\ Reach(b, 0) = 0 /\ Reach(b, 1) = 0
    BY <1>5, CountOne DEF m, n
  <2>2. (1 - 1) * g = 0 BY <1>2
  <2>3. \A i \in 1..n : i = 1 /\ i - 1 = 0 BY <2>1
  <2> QED BY <1>2, <1>4, <1>5, <2>1, <2>2, <2>3 DEF Width, g, m, n
<1>6. CASE m # 0
  <2>1. m > 0 /\ n = (m + g - 1) \div g BY <1>2, <1>3, <1>6
  <2>2. /\ n \in Nat /\ n > 0 /\ (n - 1) * g \in Nat /\ (n - 1) * g < m /\ m <= (n - 1) * g + g
        /\ m <= g <=> n = 1
        /\ m % g \in Nat /\ m % g < g
        /\ m - (n - 1) * g = IF m % g > 0 THEN m % g ELSE g
    BY <1>2, <2>1, GridIs
  <2>3. ASSUME NEW i \in 1..n
        PROVE  /\ Reach(b, i - 1) = (i - 1) * g /\ Reach(b, i - 1) \in Nat
               /\ Reach(b, i - 1) = 0 <=> i = 1
               /\ Reach(b, i) = m <=> i = n
               /\ Reach(b, i - 1) + Width(b, i) = Reach(b, i)
               /\ Width(b, i) \in Nat
               /\ i < n => Width(b, i) = g
               /\ i = n => Width(b, i) = IF TailLen(b) > 0 THEN TailLen(b) ELSE Segment(b)
    <3> DEFINE c == (i - 1) * g
               e == i * g
    <3>1. i \in Int /\ 1 <= i /\ i <= n BY <2>2
    <3>2. c \in Int /\ e \in Int /\ e = c + g BY <1>2, <3>1
    <3>3. c >= 0 /\ (c = 0 <=> i = 1)
      <4>1. CASE i = 1
        <5>1. (1 - 1) * g = 0 BY <1>2
        <5> QED BY <4>1, <5>1
      <4>2. CASE i # 1
        <5>1. 1 * g <= (i - 1) * g BY <1>2, <3>1, <4>2
        <5>2. 1 * g = g BY <1>2
        <5> QED BY <1>2, <3>2, <4>2, <5>1, <5>2
      <4> QED BY <4>1, <4>2
    <3>4. i < n <=> c + g < m BY <1>2, <2>1, <3>1, CountReached
    <3>5. c < m
      <4>1. i >= 1 /\ i <= (m + g - 1) \div g BY <2>1, <3>1
      <4>2. m \in Int BY <1>2
      <4> HIDE DEF n
      <4> QED BY <1>2, <3>1, <4>1, <4>2, PieceStarts
    <3>6. i = n => c = (n - 1) * g OBVIOUS
    <3>7. Reach(b, i - 1) = Min({c, m}) /\ Reach(b, i) = Min({e, m}) BY <1>3
    <3> HIDE DEF c, e
    <3>8. Reach(b, i - 1) = c /\ Reach(b, i) = IF e <= m THEN e ELSE m
      <4>1. m \in Int BY <1>2
      <4>2. Min({c, m}) = (IF c <= m THEN c ELSE m) /\ Min({e, m}) = IF e <= m THEN e ELSE m
        BY <3>2, <4>1, MinTwo
      <4> QED BY <1>2, <3>2, <3>5, <3>7, <4>2
    <3>9. Width(b, i) = Reach(b, i) - c BY <3>8 DEF Width
    <3>10. CASE i < n
      <4>1. e < m BY <1>2, <3>2, <3>4, <3>10
      <4>2. Reach(b, i) = e /\ Width(b, i) = g BY <1>2, <3>2, <3>8, <3>9, <4>1
      <4>3. i # n /\ e # m BY <1>2, <2>2, <3>1, <3>2, <3>10, <4>1
      <4> QED BY <1>2, <3>2, <3>3, <3>8, <3>10, <4>2, <4>3 DEF c
    <3>11. CASE i = n
      <4>1. m <= e BY <1>2, <2>2, <3>2, <3>6, <3>11
      <4>2. Reach(b, i) = m BY <1>2, <3>2, <3>8, <4>1
      <4>3. Width(b, i) = m - c /\ m - c \in Nat BY <1>2, <3>2, <3>5, <3>9, <4>2
      <4>4. m - c = IF m % g > 0 THEN m % g ELSE g BY <2>2, <3>6, <3>11
      <4>5. m % g = 0 => Segment(b) = g
        <5>1. CASE m <= g
          <6>1. n = 1 BY <2>2, <5>1
          <6>2. c = 0 BY <3>3, <3>11, <6>1
          <6> QED BY <1>2, <1>4, <2>2, <4>4, <5>1, <6>2
        <5>2. CASE ~(m <= g) BY <1>4, <5>2
        <5> QED BY <5>1, <5>2
      <4>6. Width(b, i) = IF TailLen(b) > 0 THEN TailLen(b) ELSE Segment(b)
        <5> DEFINE r == m % g
        <5>1. r \in Nat /\ TailLen(b) = r BY <1>3, <2>2
        <5>2. Width(b, i) = IF r > 0 THEN r ELSE g BY <4>3, <4>4
        <5>3. r = 0 => Segment(b) = g BY <4>5
        <5> HIDE DEF r
        <5> QED BY <5>1, <5>2, <5>3
      <4>7. c + Width(b, i) = Reach(b, i) BY <1>2, <3>2, <4>2, <4>3
      <4> QED BY <3>3, <3>2, <3>8, <3>11, <4>2, <4>3, <4>6, <4>7, <3>1 DEF c
    <3> QED BY <3>1, <2>2, <3>10, <3>11
  <2>4. TailLen(b) \in Nat /\ Segment(b) \in Nat BY <1>2, <1>3, <1>4, <2>2
  <2> QED BY <1>2, <1>4, <2>2, <2>3, <2>4 DEF g, m, n
<1> QED BY <1>5, <1>6

----------------------------------------------------------------------------
(* The same segments whoever cuts *)

Ends(b, i) == (IF i = 1 THEN {"cwr"} ELSE {}) \cup (IF i = Count(b) THEN {"fin"} ELSE {})
Slot(b, i) ==
  [flow |-> b.what.flow, lo |-> b.what.lo + Reach(b, i - 1), len |-> Width(b, i),
   flags |-> b.what.flags \cap Ends(b, i)]

\* The same header, but for the identification.
Headed(b, x) ==
  /\ DOMAIN x = PacketFields
  /\ x.v = b.v /\ x.from = b.from /\ x.to = b.to /\ x.hops = b.hops /\ x.proto = b.proto
  /\ x.off = b.off /\ x.mf = b.mf /\ x.df = b.df /\ x.frag = b.frag

\* The i-th segment of b, whatever its identification.
SegmentOf(b, i, x) ==
  Headed(b, x) /\ x.gso = 0 /\ x.len = Transport(b.proto) + Width(b, i) /\ x.what = Slot(b, i)

\* What a slice of an aggregate keeps of it.
LEMMA SliceFields ==
  ASSUME NEW b, Parted(b), NEW at, NEW n, NEW flags
  PROVE  LET x == Slice(b, at, n, flags) IN
         /\ Headed(b, x) /\ x.id = b.id /\ x.gso = 0 /\ x.len = Transport(b.proto) + n
         /\ x.what = [flow |-> b.what.flow, lo |-> b.what.lo + at, len |-> n,
                      flags |-> b.what.flags \cap flags]
<1> DEFINE x == Slice(b, at, n, flags)
           w == b.what
           u == [w EXCEPT !.lo = @ + at, !.len = n, !.flags = @ \cap flags]
<1>1. DOMAIN b = PacketFields BY DEF Parted
<1>2. w = [flow |-> w.flow, lo |-> w.lo, len |-> Payload(b), flags |-> w.flags] BY DEF Parted
<1>3. x = [b EXCEPT !.gso = 0, !.len = Transport(b.proto) + n, !.what = u]
  BY <1>1 DEF Slice, PacketFields
<1> HIDE DEF x, w
<1>4. u = [flow |-> w.flow, lo |-> w.lo + at, len |-> n, flags |-> w.flags \cap flags]
  <2> DEFINE f == w.flow
             l == w.lo
             g == w.flags
             m == Payload(b)
             l2 == l + at
             g2 == g \cap flags
  <2>1. w = [flow |-> f, lo |-> l, len |-> m, flags |-> g] BY <1>2
  <2>2. u = [w EXCEPT !.lo = l2, !.len = n, !.flags = g2] OBVIOUS
  <2> HIDE DEF f, l, g, m, l2, g2, u
  <2>3. u = [flow |-> f, lo |-> l2, len |-> n, flags |-> g2] BY <2>1, <2>2
  <2> QED BY <2>3 DEF f, l, g, l2, g2
<1> HIDE DEF u
<1>5. Headed(b, x) /\ x.id = b.id /\ x.gso = 0 /\ x.len = Transport(b.proto) + n /\ x.what = u
  BY <1>1, <1>3 DEF Headed, PacketFields
<1> QED BY <1>4, <1>5 DEF x, w

\* The kernel and Cut make the same segments.
LEMMA SegmentsCut ==
  ASSUME NEW b, Parted(b), NEW i \in 1..Count(b)
  PROVE  /\ SegmentOf(b, i, Segments(b)[i]) /\ Segments(b)[i].id = b.id
         /\ SegmentOf(b, i, Cut(b)[i]) /\ Cut(b)[i].id = b.id
<1> DEFINE at == Reach(b, i - 1)
           n == Width(b, i)
<1>1. Segments(b)[i] = Slice(b, at, n, Ends(b, i)) BY DEF Segments, Ends, Width
<1>2. Cut(b)[i] = Piece(b, at, n) BY DEF Cut, Width
<1>3. (at = 0 <=> i = 1) /\ (at + n = Payload(b) <=> i = Count(b)) BY WidthIs
<1>4. Piece(b, at, n) = Slice(b, at, n, Ends(b, i)) BY <1>3 DEF Piece, Ends
<1> HIDE DEF at, n
<1>5. LET x == Slice(b, at, n, Ends(b, i)) IN
      /\ Headed(b, x) /\ x.id = b.id /\ x.gso = 0 /\ x.len = Transport(b.proto) + n
      /\ x.what = [flow |-> b.what.flow, lo |-> b.what.lo + at, len |-> n,
                   flags |-> b.what.flags \cap Ends(b, i)]
  BY SliceFields
<1>6. Slot(b, i) = [flow |-> b.what.flow, lo |-> b.what.lo + at, len |-> n,
                    flags |-> b.what.flags \cap Ends(b, i)]
  BY DEF Slot, at, n
<1>7. SegmentOf(b, i, Slice(b, at, n, Ends(b, i))) /\ Slice(b, at, n, Ends(b, i)).id = b.id
  BY <1>5, <1>6 DEF SegmentOf, n
<1> QED BY <1>1, <1>2, <1>4, <1>7

\* A header of another version leaves the segments where they are.
LEMMA SameParts ==
  ASSUME NEW b, Parted(b), NEW c, DOMAIN c = PacketFields,
         c.what = b.what, c.len = b.len, c.gso = b.gso, c.proto = b.proto
  PROVE  /\ Parted(c) /\ Payload(c) = Payload(b) /\ Count(c) = Count(b) /\ Segment(c) = Segment(b)
         /\ TailLen(c) = TailLen(b)
         /\ \A i : Reach(c, i) = Reach(b, i) /\ Width(c, i) = Width(b, i) /\ Slot(c, i) = Slot(b, i)
<1>1. Payload(c) = Payload(b) BY DEF Payload
<1>2. Count(c) = Count(b) /\ Segment(c) = Segment(b) /\ TailLen(c) = TailLen(b)
  BY <1>1 DEF Count, Segment, TailLen
<1>3. \A i : Reach(c, i) = Reach(b, i) BY <1>1 DEF Reach
<1>4. ASSUME NEW i PROVE Width(c, i) = Width(b, i) /\ Slot(c, i) = Slot(b, i)
  <2>1. Reach(c, i) = Reach(b, i) /\ Reach(c, i - 1) = Reach(b, i - 1) BY <1>3
  <2>2. Width(c, i) = Width(b, i) BY <2>1 DEF Width
  <2>3. Ends(c, i) = Ends(b, i) BY <1>2 DEF Ends
  <2> QED BY <2>1, <2>2, <2>3 DEF Slot
<1>5. Parted(c)
  <2>1. Payload(c) >= 0 /\ c.gso \in Nat /\ c.gso > 0 /\ c.len \in Int BY <1>1 DEF Parted
  <2>2. c.what.lo \in Int /\ c.what.flags \subseteq {"cwr", "fin"} BY DEF Parted
  <2>3. c.what = [flow |-> c.what.flow, lo |-> c.what.lo, len |-> Payload(c), flags |-> c.what.flags]
    BY <1>1, Zenon DEF Parted
  <2> QED BY <2>1, <2>2, <2>3 DEF Parted
<1> QED BY <1>1, <1>2, <1>3, <1>4, <1>5

LEMMA NormalizedFields ==
  ASSUME NEW b, DOMAIN b = PacketFields
  PROVE  LET x == Normalized(b) IN
         /\ Headed(b, x) /\ x.id = b.id /\ x.what = b.what /\ x.len = b.len
         /\ x.gso = IF b.proto = "tcp" /\ Payload(b) <= b.gso THEN 0 ELSE b.gso
<1> DEFINE g == IF b.proto = "tcp" /\ Payload(b) <= b.gso THEN 0 ELSE b.gso
           x == Normalized(b)
<1>1. x = [b EXCEPT !.gso = g] BY DEF Normalized
<1> HIDE DEF g, x
<1>2. /\ Headed(b, x) /\ x.id = b.id /\ x.what = b.what /\ x.len = b.len /\ x.gso = g
  BY <1>1 DEF Headed, PacketFields
<1> QED BY <1>2 DEF g, x

\* What the kernel makes of a normalized packet.
LEMMA KernelCut ==
  ASSUME NEW b, Parted(b)
  PROVE  LET s == KernelSegments(Normalized(b)) IN
         /\ s = [i \in 1..Count(b) |-> s[i]]
         /\ \A i \in 1..Count(b) : SegmentOf(b, i, s[i])
<1> DEFINE x == Normalized(b)
           s == KernelSegments(x)
<1>0. DOMAIN b = PacketFields /\ b.gso \in Nat /\ b.gso > 0 BY DEF Parted
<1>1. /\ Headed(b, x) /\ x.id = b.id /\ x.what = b.what /\ x.len = b.len
      /\ x.gso = IF b.proto = "tcp" /\ Payload(b) <= b.gso THEN 0 ELSE b.gso
  BY <1>0, NormalizedFields
<1> HIDE DEF x
<1>2. CASE b.proto = "tcp" /\ Payload(b) <= b.gso
  <2>1. s = <<x>> /\ x.gso = 0 BY <1>1, <1>2 DEF KernelSegments
  <2>2. Count(b) = 1 /\ Segment(b) = Payload(b) BY <1>2, WidthIs
  <2>3. s = [i \in 1..1 |-> s[i]] /\ s[1] = x BY <2>1
  <2>4. 1 \in 1..Count(b) /\ 1 - 1 = 0 BY <2>2
  <2>5. Reach(b, 0) = 0 /\ Width(b, 1) = IF TailLen(b) > 0 THEN TailLen(b) ELSE Segment(b)
    BY <2>2, <2>4, WidthIs
  <2>6. Reach(b, 1) = Payload(b) /\ Payload(b) \in Nat BY <2>2, <2>4, WidthIs
  <2>7. Width(b, 1) = Payload(b) BY <2>4, <2>5, <2>6 DEF Width
  <2>8. Slot(b, 1) = b.what
    <3> DEFINE w == b.what
    <3>1. w.lo \in Int /\ w.flags \subseteq {"cwr", "fin"}
          /\ w = [flow |-> w.flow, lo |-> w.lo, len |-> Payload(b), flags |-> w.flags]
      BY DEF Parted
    <3>2. Slot(b, 1) = [flow |-> w.flow, lo |-> w.lo + 0, len |-> Payload(b),
                        flags |-> w.flags \cap Ends(b, 1)]
      BY <2>4, <2>5, <2>7 DEF Slot
    <3>3. Ends(b, 1) = {"cwr", "fin"} BY <2>2 DEF Ends
    <3> HIDE DEF w
    <3>4. w.lo + 0 = w.lo /\ w.flags \cap Ends(b, 1) = w.flags BY <3>1, <3>3
    <3> QED BY <3>1, <3>2, <3>4, Zenon DEF w
  <2>9. b.len = Transport(b.proto) + Width(b, 1)
    <3>1. b.len \in Int /\ Transport(b.proto) \in Int BY TransportIs DEF Parted
    <3> QED BY <2>7, <3>1 DEF Payload
  <2>10. SegmentOf(b, 1, x) BY <1>1, <2>1, <2>8, <2>9 DEF SegmentOf
  <2> HIDE DEF s
  <2>11. \A i \in 1..Count(b) : i = 1 BY <2>2
  <2> QED BY <2>2, <2>3, <2>10, <2>11 DEF s, x
<1>3. CASE ~(b.proto = "tcp" /\ Payload(b) <= b.gso)
  <2>1. x.gso = b.gso /\ x.proto = b.proto /\ DOMAIN x = PacketFields BY <1>1, <1>3 DEF Headed
  <2>2. /\ Parted(x) /\ Payload(x) = Payload(b) /\ Count(x) = Count(b)
        /\ \A i : Width(x, i) = Width(b, i) /\ Slot(x, i) = Slot(b, i)
    BY <1>1, <2>1, SameParts
  <2> DEFINE Next4(i) == IF x.v = 4 /\ ~x.df THEN Id16(Segments(x)[i].id + i - 1) ELSE Segments(x)[i].id
  <2>3. s = [i \in 1..Count(b) |-> [Segments(x)[i] EXCEPT !.id = Next4(i)]]
    <3>1. x.gso # 0 /\ ~(x.proto = "tcp" /\ Payload(x) <= x.gso) BY <1>0, <1>3, <2>1, <2>2
    <3> QED BY <2>2, <3>1 DEF KernelSegments
  <2> HIDE DEF s, Next4
  <2>4. ASSUME NEW i \in 1..Count(b) PROVE SegmentOf(b, i, s[i])
    <3> DEFINE y == Segments(x)[i]
               z == Next4(i)
    <3>1. SegmentOf(x, i, y) BY <2>2, SegmentsCut
    <3>2. s[i] = [y EXCEPT !.id = z] BY <2>3
    <3> HIDE DEF y, z
    <3>3. SegmentOf(x, i, s[i]) BY <3>1, <3>2 DEF SegmentOf, Headed, PacketFields
    <3> QED BY <1>1, <2>1, <2>2, <3>3 DEF SegmentOf, Headed
  <2>5. s = [i \in 1..Count(b) |-> s[i]] BY <2>3
  <2> QED BY <2>4, <2>5 DEF s, x
<1> QED BY <1>2, <1>3

----------------------------------------------------------------------------
(* A segment beyond tayga *)

\* What the kernel may hand over.
Handed(p) == Packet(p) /\ Aggregate(p) /\ WellFormed(p)

LEMMA HandedIs ==
  ASSUME NEW p, Handed(p)
  PROVE  /\ Parted(p) /\ p.v \in {4, 6} /\ p.proto \in {"tcp", "udp"} /\ DOMAIN p = PacketFields
         /\ p.hops \in Nat /\ p.hops > 0 /\ p.off = 0 /\ p.mf = FALSE /\ p.frag = FALSE
         /\ p.df \in BOOLEAN
BY DEF Handed, Packet, Aggregate, WellFormed, Parted

\* x is the i-th segment of p beyond tayga, whatever its identification.
Arrived(p, i, x) ==
  /\ DOMAIN x = PacketFields
  /\ x.v = 10 - p.v /\ x.from = p.from /\ x.to = p.to /\ x.hops = p.hops - 1 /\ x.proto = p.proto
  /\ x.off = 0 /\ x.mf = FALSE /\ x.frag = FALSE /\ x.gso = 0
  /\ x.len = Transport(p.proto) + Width(p, i) /\ x.what = Slot(p, i)
  /\ p.v = 4 => x.df = FALSE
  /\ p.v = 6 => x.df = Atomic(Transport(p.proto) + Width(p, i))

\* What arrives as the i-th segment is the same, whichever way it went.
LEMMA ArrivedSame ==
  ASSUME NEW p, p.v \in {4, 6}, NEW i, NEW x, NEW y, Arrived(p, i, x), Arrived(p, i, y)
  PROVE  Anonymous(x) = Anonymous(y)
<1> DEFINE a == Anonymous(x)
           b == Anonymous(y)
<1>1. /\ x.v = y.v /\ x.from = y.from /\ x.to = y.to /\ x.hops = y.hops /\ x.proto = y.proto
      /\ x.off = y.off /\ x.mf = y.mf /\ x.frag = y.frag /\ x.gso = y.gso
      /\ x.len = y.len /\ x.what = y.what /\ x.df = y.df
      /\ DOMAIN x = PacketFields /\ DOMAIN y = PacketFields
  BY DEF Arrived
<1>2. a = [x EXCEPT !.id = 0] /\ b = [y EXCEPT !.id = 0] BY DEF Anonymous
<1> HIDE DEF a, b
<1>3. a = [k \in PacketFields |-> a[k]] /\ b = [k \in PacketFields |-> b[k]] BY <1>1, <1>2
<1>4. ASSUME NEW k \in PacketFields PROVE a[k] = b[k]
  <2>1. k \in {"v", "from", "to", "hops", "proto", "what", "off", "len", "mf", "id", "df",
               "frag", "gso"}
    BY DEF PacketFields
  <2>2. a[k] = (IF k = "id" THEN 0 ELSE x[k]) /\ b[k] = IF k = "id" THEN 0 ELSE y[k]
    BY <1>1, <1>2
  <2>3. CASE k = "id" BY <2>2, <2>3
  <2>4. CASE k # "id"
    <3>1. x[k] = y[k] BY <1>1, <2>1, <2>4
    <3> QED BY <2>2, <2>4, <3>1
  <2> QED BY <2>3, <2>4
<1>5. a = b BY <1>3, <1>4
<1> QED BY <1>5 DEF a, b

\* A segment, translated on its own.
LEMMA SegmentCarried ==
  ASSUME NEW p, Handed(p), NEW i, NEW s, SegmentOf(p, i, s), NEW n
  PROVE  /\ p.v = 4 => Arrived(p, i, [To6(s) EXCEPT !.id = n])
         /\ p.v = 6 => Arrived(p, i, To4(s)) /\ Arrived(p, i, [To4(s) EXCEPT !.id = n])
<1>1. /\ DOMAIN s = PacketFields /\ s.v = p.v /\ s.from = p.from /\ s.to = p.to /\ s.hops = p.hops
      /\ s.proto = p.proto /\ s.off = 0 /\ s.mf = FALSE /\ s.frag = FALSE /\ s.gso = 0
      /\ s.len = Transport(p.proto) + Width(p, i) /\ s.what = Slot(p, i)
  BY HandedIs DEF SegmentOf, Headed
<1>2. ASSUME p.v = 4 PROVE Arrived(p, i, [To6(s) EXCEPT !.id = n])
  <2> DEFINE t == To6(s)
             x == [t EXCEPT !.id = n]
  <2>1. /\ DOMAIN t = PacketFields /\ t.v = 6 /\ t.from = s.from /\ t.to = s.to
        /\ t.hops = s.hops - 1 /\ t.proto = s.proto /\ t.off = s.off /\ t.mf = s.mf
        /\ t.frag = FALSE /\ t.df = FALSE /\ t.gso = s.gso /\ t.len = s.len /\ t.what = s.what
    BY <1>1 DEF To6, PacketFields
  <2> HIDE DEF t
  <2>2. /\ DOMAIN x = PacketFields /\ x.v = 6 /\ x.from = s.from /\ x.to = s.to
        /\ x.hops = s.hops - 1 /\ x.proto = s.proto /\ x.off = s.off /\ x.mf = s.mf
        /\ x.frag = FALSE /\ x.df = FALSE /\ x.gso = s.gso /\ x.len = s.len /\ x.what = s.what
    BY <2>1 DEF PacketFields
  <2> HIDE DEF x
  <2>4. Arrived(p, i, x) BY <1>1, <1>2, <2>2 DEF Arrived
  <2> QED BY <2>4 DEF x, t
<1>3. ASSUME p.v = 6 PROVE Arrived(p, i, To4(s)) /\ Arrived(p, i, [To4(s) EXCEPT !.id = n])
  <2> DEFINE t == To4(s)
             x == [t EXCEPT !.id = n]
             atomic == ~s.frag /\ Atomic(s.len)
             id == IF s.frag THEN Id16(s.id) ELSE IF Atomic(s.len) THEN 0 ELSE ident
  <2>0. t = [s EXCEPT !.v = 4, !.hops = @ - 1, !.frag = FALSE, !.df = atomic, !.id = id]
    BY DEF To4
  <2> HIDE DEF t, atomic, id
  <2>1. /\ DOMAIN t = PacketFields /\ t.v = 4 /\ t.from = s.from /\ t.to = s.to
        /\ t.hops = s.hops - 1 /\ t.proto = s.proto /\ t.off = s.off /\ t.mf = s.mf
        /\ t.frag = FALSE /\ t.df = atomic /\ t.gso = s.gso /\ t.len = s.len /\ t.what = s.what
    BY <1>1, <2>0 DEF PacketFields
  <2>2. /\ DOMAIN x = PacketFields /\ x.v = 4 /\ x.from = s.from /\ x.to = s.to
        /\ x.hops = s.hops - 1 /\ x.proto = s.proto /\ x.off = s.off /\ x.mf = s.mf
        /\ x.frag = FALSE /\ x.df = atomic /\ x.gso = s.gso /\ x.len = s.len /\ x.what = s.what
    BY <2>1 DEF PacketFields
  <2> HIDE DEF x
  <2>3. atomic = Atomic(Transport(p.proto) + Width(p, i))
    <3>1. s.frag = FALSE /\ s.len = Transport(p.proto) + Width(p, i) BY <1>1
    <3> QED BY <3>1 DEF atomic, Atomic
  <2>4. Arrived(p, i, x) /\ Arrived(p, i, t)
    BY <1>1, <1>3, <2>1, <2>2, <2>3 DEF Arrived
  <2> QED BY <2>4 DEF x, t
<1> QED BY <1>2, <1>3

----------------------------------------------------------------------------
(* A whole aggregate beyond tayga *)

\* What leaves tayga and the kernel of what is written.
Leaving(e) == IF IsError(e) THEN <<e>> ELSE KernelSegments(e)
Leaves(w) == FlattenSeq([i \in DOMAIN w |-> Leaving(w[i])])

LEMMA LeavesFew ==
  ASSUME NEW d, NEW e
  PROVE  Leaves(<<d>>) = Leaving(d) /\ Leaves(<<d, e>>) = Leaving(d) \o Leaving(e)
<1>1. [i \in DOMAIN <<d>> |-> Leaving(<<d>>[i])] = <<Leaving(d)>>
  <2> DEFINE f == [i \in DOMAIN <<d>> |-> Leaving(<<d>>[i])]
  <2>1. DOMAIN <<d>> = 1..1 /\ <<d>>[1] = d OBVIOUS
  <2>2. f = [i \in 1..1 |-> Leaving(d)] BY <2>1
  <2> HIDE DEF f
  <2> DEFINE x == Leaving(d)
  <2>3. f = [i \in 1..1 |-> x] BY <2>2
  <2> HIDE DEF x
  <2>4. f = <<x>> BY <2>3
  <2> QED BY <2>4 DEF f, x
<1>2. [i \in DOMAIN <<d, e>> |-> Leaving(<<d, e>>[i])] = <<Leaving(d), Leaving(e)>>
  <2> DEFINE f == [i \in DOMAIN <<d, e>> |-> Leaving(<<d, e>>[i])]
             x == Leaving(d)
             y == Leaving(e)
  <2>1. DOMAIN <<d, e>> = 1..2 /\ <<d, e>>[1] = d /\ <<d, e>>[2] = e OBVIOUS
  <2>2. f = [i \in 1..2 |-> f[i]] /\ f[1] = x /\ f[2] = y BY <2>1
  <2> HIDE DEF f, x, y
  <2>3. f = <<x, y>> BY <2>2
  <2> QED BY <2>3 DEF f, x, y
<1> QED BY <1>1, <1>2, FlattenTwo DEF Leaves

\* Packets that are no aggregates leave as they are.
LEMMA LeavesEach ==
  ASSUME NEW n \in Nat \ {0}, NEW w, DOMAIN w = 1..n,
         \A i \in 1..n : ~IsError(w[i]) /\ w[i].gso = 0
  PROVE  Leaves(w) = [i \in 1..n |-> w[i]]
<1> DEFINE f == [i \in DOMAIN w |-> Leaving(w[i])]
           S == {w[i] : i \in 1..n}
<1>1. \A i \in 1..n : f[i] = <<w[i]>> BY DEF Leaving, KernelSegments
<1>2. Leaves(w) = FlattenSeq(f) BY DEF Leaves
<1>3. f \in [1..n -> Seq(S)] /\ \A i \in 1..n : Len(f[i]) = 1
  <2>1. \A i \in 1..n : w[i] \in S OBVIOUS
  <2>2. f = [i \in 1..n |-> f[i]] OBVIOUS
  <2> HIDE DEF S, f
  <2>3. ASSUME NEW i \in 1..n PROVE f[i] \in Seq(S) /\ Len(f[i]) = 1
    <3>1. f[i] = <<w[i]>> /\ w[i] \in S BY <1>1, <2>1
    <3>2. <<w[i]>> \in Seq(S) /\ Len(<<w[i]>>) = 1 BY <3>1
    <3> QED BY <3>1, <3>2
  <2> QED BY <2>2, <2>3
<1> HIDE DEF f, S
<1> DEFINE t == FlattenSeq(f)
<1>4. t \in [1..n -> S] /\ \A i \in 1..n : f[i] = <<t[i]>> BY <1>3, FlattenOnes
<1> HIDE DEF t
<1>5. \A i \in 1..n : t[i] = w[i]
  <2>1. ASSUME NEW i \in 1..n PROVE t[i] = w[i]
    <3>1. <<t[i]>> = <<w[i]>> BY <1>1, <1>4
    <3> QED BY <3>1
  <2> QED BY <2>1
<1> QED BY <1>2, <1>4, <1>5 DEF t

\* All segments of p, one after the other.
Arrive(p, s) ==
  s = [i \in 1..Count(p) |-> s[i]] /\ \A i \in 1..Count(p) : Arrived(p, i, s[i])

LEMMA NoError ==
  ASSUME NEW p, Handed(p), NEW i, NEW x, Arrived(p, i, x)
  PROVE  ~IsError(x) /\ x.gso = 0
BY HandedIs DEF Arrived, IsError

\* The whole of p under another header.
LEMMA WholeArrives ==
  ASSUME NEW p, Handed(p), NEW b, DOMAIN b = PacketFields,
         b.what = p.what, b.len = p.len, b.gso = p.gso, b.proto = p.proto,
         b.v = 10 - p.v, b.from = p.from, b.to = p.to, b.hops = p.hops - 1,
         b.off = 0, b.mf = FALSE, b.frag = FALSE, p.v = 4 => b.df = FALSE,
         p.v = 6 => \A i \in 1..Count(p) : b.df = Atomic(Transport(p.proto) + Width(p, i))
  PROVE  Arrive(p, Leaves(<<Normalized(b)>>))
<1> DEFINE x == Normalized(b)
           s == KernelSegments(x)
<1>1. /\ Parted(b) /\ Count(b) = Count(p)
      /\ \A i : Width(b, i) = Width(p, i) /\ Slot(b, i) = Slot(p, i)
  BY HandedIs, SameParts
<1>2. ~IsError(x)
  <2>1. x.proto = b.proto BY NormalizedFields DEF Headed
  <2> HIDE DEF x
  <2> QED BY <2>1, HandedIs DEF IsError
<1>3. Leaves(<<x>>) = s
  <2> HIDE DEF x
  <2> QED BY <1>2, LeavesFew DEF Leaving
<1>4. s = [i \in 1..Count(p) |-> s[i]] /\ \A i \in 1..Count(p) : SegmentOf(b, i, s[i])
  BY <1>1, KernelCut
<1> HIDE DEF s, x
<1>5. ASSUME NEW i \in 1..Count(p) PROVE Arrived(p, i, s[i])
  <2> DEFINE y == s[i]
  <2>1. SegmentOf(b, i, y) /\ p.v \in {4, 6} BY <1>4, HandedIs
  <2>2. Width(b, i) = Width(p, i) /\ Slot(b, i) = Slot(p, i) BY <1>1
  <2> HIDE DEF y
  <2> QED BY <2>1, <2>2 DEF SegmentOf, Headed, Arrived, y
<1> QED BY <1>3, <1>4, <1>5 DEF Arrive, x

\* To IPv6, in one piece or cut by tayga.
LEMMA Whole46Arrives ==
  ASSUME NEW p, Handed(p), p.v = 4
  PROVE  Arrive(p, Leaves(Whole46(p).writes))
<1> DEFINE t == To6(p)
           b == [t EXCEPT !.id = 0]
<1>0. DOMAIN p = PacketFields /\ p.off = 0 /\ p.mf = FALSE BY HandedIs
<1>1. Whole46(p).writes = <<Normalized(b)>> BY DEF Whole46, Effect
<1>2. /\ DOMAIN t = PacketFields /\ t.v = 6 /\ t.from = p.from /\ t.to = p.to
      /\ t.hops = p.hops - 1 /\ t.proto = p.proto /\ t.off = p.off /\ t.mf = p.mf
      /\ t.frag = FALSE /\ t.df = FALSE /\ t.gso = p.gso /\ t.len = p.len /\ t.what = p.what
  BY <1>0 DEF To6, PacketFields
<1> HIDE DEF t
<1>3. /\ DOMAIN b = PacketFields /\ b.v = 6 /\ b.from = p.from /\ b.to = p.to
      /\ b.hops = p.hops - 1 /\ b.proto = p.proto /\ b.off = 0 /\ b.mf = FALSE
      /\ b.frag = FALSE /\ b.df = FALSE /\ b.gso = p.gso /\ b.len = p.len /\ b.what = p.what
  BY <1>0, <1>2 DEF PacketFields
<1> HIDE DEF b
<1>4. /\ b.v = 10 - p.v /\ (p.v = 4 => b.df = FALSE)
      /\ p.v = 6 => \A i \in 1..Count(p) : b.df = Atomic(Transport(p.proto) + Width(p, i))
  BY <1>3
<1>5. Arrive(p, Leaves(<<Normalized(b)>>)) BY <1>3, <1>4, WholeArrives, Zenon
<1> QED BY <1>1, <1>5

LEMMA Software46Arrives ==
  ASSUME NEW p, Handed(p), p.v = 4
  PROVE  Arrive(p, Leaves(Software46(p).writes))
<1> DEFINE n == Count(p)
           g == [i \in 1..n |-> [To6(Cut(p)[i]) EXCEPT !.id = 0]]
<1>1. Software46(p).writes = g BY DEF Software46, Effect
<1>2. Parted(p) /\ n \in Nat \ {0} BY HandedIs, WidthIs
<1>3. ASSUME NEW i \in 1..n PROVE Arrived(p, i, g[i])
  <2>1. SegmentOf(p, i, Cut(p)[i]) BY <1>2, SegmentsCut
  <2>2. Arrived(p, i, [To6(Cut(p)[i]) EXCEPT !.id = 0]) BY <2>1, SegmentCarried
  <2> QED BY <2>2
<1>4. g = [i \in 1..n |-> g[i]] OBVIOUS
<1> HIDE DEF g
<1>5. \A i \in 1..n : ~IsError(g[i]) /\ g[i].gso = 0 BY <1>3, NoError
<1>6. Leaves(g) = g
  <2>1. DOMAIN g = 1..n BY <1>4
  <2> HIDE DEF n
  <2>2. Leaves(g) = [i \in 1..n |-> g[i]] BY <1>2, <1>5, <2>1, LeavesEach
  <2> QED BY <1>4, <2>2
<1> QED BY <1>1, <1>3, <1>4, <1>6 DEF Arrive

Written64(p) ==
  LET pieces == Cut(p)
      Earlier(i) == Cardinality({j \in 1..i-1 : ~Atomic(pieces[j].len)})
  IN [i \in DOMAIN pieces |->
        [To4(pieces[i]) EXCEPT !.id = IF Atomic(pieces[i].len) THEN 0 ELSE Id16(ident + Earlier(i))]]

\* To IPv4, cut by tayga.
LEMMA Software64Arrives ==
  ASSUME NEW p, Handed(p), p.v = 6
  PROVE  Arrive(p, Leaves(Written64(p)))
<1> DEFINE n == Count(p)
           pieces == Cut(p)
           Earlier(i) == Cardinality({j \in 1..i-1 : ~Atomic(pieces[j].len)})
           Next4(i) == IF Atomic(pieces[i].len) THEN 0 ELSE Id16(ident + Earlier(i))
           g == [i \in DOMAIN pieces |-> [To4(pieces[i]) EXCEPT !.id = Next4(i)]]
<1>1. Written64(p) = g BY DEF Written64
<1>2. Parted(p) /\ n \in Nat \ {0} BY HandedIs, WidthIs
<1>3. DOMAIN pieces = 1..n BY DEF Cut
<1>4. \A i \in 1..n : SegmentOf(p, i, pieces[i]) BY <1>2, SegmentsCut
<1> HIDE DEF pieces, Earlier, Next4
<1>5. ASSUME NEW i \in 1..n PROVE Arrived(p, i, g[i])
  <2> DEFINE k == Next4(i)
  <2>1. SegmentOf(p, i, pieces[i]) BY <1>4
  <2>2. g[i] = [To4(pieces[i]) EXCEPT !.id = k] BY <1>3
  <2> HIDE DEF k, g
  <2>3. Arrived(p, i, [To4(pieces[i]) EXCEPT !.id = k]) BY <2>1, SegmentCarried
  <2> QED BY <2>2, <2>3
<1>6. g = [i \in 1..n |-> g[i]] BY <1>3
<1> HIDE DEF g
<1>7. \A i \in 1..n : ~IsError(g[i]) /\ g[i].gso = 0 BY <1>5, NoError
<1>8. Leaves(g) = g
  <2>1. DOMAIN g = 1..n BY <1>6
  <2> HIDE DEF n
  <2>2. Leaves(g) = [i \in 1..n |-> g[i]] BY <1>2, <1>7, <2>1, LeavesEach
  <2> QED BY <1>6, <2>2
<1> QED BY <1>1, <1>5, <1>6, <1>8 DEF Arrive

\* If no segment is small, or all are, then all get the same header.
LEMMA SameHeader ==
  ASSUME NEW p, Handed(p), ~Mixed(p), NEW i \in 1..Count(p)
  PROVE  Atomic(Transport(p.proto) + Width(p, i)) <=> SegmentAtomic(p, Segment(p))
<1> DEFINE t == Transport(p.proto)
           g == p.gso
           m == Payload(p)
           n == Count(p)
           r == TailLen(p)
           s == Segment(p)
           d == Width(p, i)
<1>1. Parted(p) /\ t \in {8, 20} BY HandedIs, TransportIs
<1>2. /\ g \in Nat /\ g > 0 /\ m \in Nat /\ n \in Nat \ {0} /\ r \in Nat /\ s \in Nat /\ d \in Nat
      /\ n = 1 <=> m <= g
      /\ s = IF m <= g THEN m ELSE g
      /\ i < n => d = g
      /\ i = n => d = IF r > 0 THEN r ELSE s
  BY <1>1, WidthIs DEF Parted
<1>3. r < g /\ (m <= g => r = m \/ r = 0)
  <2>1. r = m % g BY DEF TailLen
  <2> HIDE DEF r, m, g
  <2>2. m % g < g BY <1>2
  <2>3. m < g => m % g = m BY <1>2
  <2>4. m = g => m % g = 0 BY <1>2
  <2> QED BY <1>2, <2>1, <2>2, <2>3, <2>4
<1>4. ~(m > g /\ r > 0 /\ 20 + (t + g) > MtuMin - MtuAdj /\ ~(20 + (t + r) > MtuMin - MtuAdj))
  BY DEF Mixed, SegmentAtomic, Atomic
<1>5. SegmentAtomic(p, s) <=> 20 + (t + s) > MtuMin - MtuAdj BY DEF SegmentAtomic, Atomic
<1>6. Atomic(t + d) <=> 20 + (t + d) > MtuMin - MtuAdj BY DEF Atomic
<1>7. i \in Int /\ 1 <= i /\ i <= n BY <1>2
<1> HIDE DEF t, g, m, n, r, s, d
<1>8. CASE i < n
  <2>1. d = g /\ s = g BY <1>2, <1>7, <1>8
  <2> QED BY <1>5, <1>6, <2>1 DEF t, s, d
<1>9. CASE i = n /\ r = 0
  <2>1. d = s BY <1>2, <1>9
  <2> QED BY <1>5, <1>6, <2>1 DEF t, s, d
<1>10. CASE i = n /\ r > 0 /\ m <= g
  <2>1. d = s BY <1>2, <1>3, <1>10
  <2> QED BY <1>5, <1>6, <2>1 DEF t, s, d
<1>11. CASE i = n /\ r > 0 /\ m > g
  <2>1. d = r /\ s = g BY <1>2, <1>11
  <2>2. 20 + (t + d) > MtuMin - MtuAdj <=> 20 + (t + s) > MtuMin - MtuAdj
    BY <1>1, <1>2, <1>3, <1>4, <1>11, <2>1 DEF MtuMin, MtuAdj, t
  <2> QED BY <1>5, <1>6, <2>2 DEF t, s, d
<1> QED BY <1>2, <1>7, <1>8, <1>9, <1>10, <1>11

\* To IPv4 in one piece, if the segments get the same header.
LEMMA Whole64Arrives ==
  ASSUME NEW p, Handed(p), p.v = 6, ~Mixed(p)
  PROVE  Arrive(p, Leaves(Whole64(p).writes))
<1> DEFINE atomic == SegmentAtomic(p, Segment(p))
           t == To4(p)
           id == IF atomic THEN 0 ELSE ident
           b == [t EXCEPT !.df = atomic, !.id = id]
<1>0. DOMAIN p = PacketFields /\ p.off = 0 /\ p.mf = FALSE BY HandedIs
<1>1. Whole64(p).writes = <<Normalized(b)>> BY DEF Whole64, Effect
<1>2. /\ DOMAIN t = PacketFields /\ t.v = 4 /\ t.from = p.from /\ t.to = p.to
      /\ t.hops = p.hops - 1 /\ t.proto = p.proto /\ t.off = p.off /\ t.mf = p.mf
      /\ t.frag = FALSE /\ t.gso = p.gso /\ t.len = p.len /\ t.what = p.what
  BY <1>0 DEF To4, PacketFields
<1>3. \A i \in 1..Count(p) : atomic = Atomic(Transport(p.proto) + Width(p, i))
  BY SameHeader DEF SegmentAtomic, Atomic
<1> HIDE DEF t, atomic, id
<1>4. /\ DOMAIN b = PacketFields /\ b.v = 4 /\ b.from = p.from /\ b.to = p.to
      /\ b.hops = p.hops - 1 /\ b.proto = p.proto /\ b.off = 0 /\ b.mf = FALSE
      /\ b.frag = FALSE /\ b.df = atomic /\ b.gso = p.gso /\ b.len = p.len /\ b.what = p.what
  BY <1>0, <1>2 DEF PacketFields
<1> HIDE DEF b
<1>5. /\ b.v = 10 - p.v /\ (p.v = 4 => b.df = FALSE)
      /\ p.v = 6 => \A i \in 1..Count(p) : b.df = Atomic(Transport(p.proto) + Width(p, i))
  BY <1>3, <1>4
<1>6. Arrive(p, Leaves(<<Normalized(b)>>)) BY <1>4, <1>5, WholeArrives, Zenon
<1> QED BY <1>1, <1>6

\* Where the last segment starts, if it is short.
LEMMA FullIs ==
  ASSUME NEW p, Handed(p), Mixed(p)
  PROVE  LET full == Payload(p) - TailLen(p)
             n == Count(p)
         IN /\ full = (n - 1) * p.gso /\ full \in Nat /\ full > 0 /\ n > 1
            /\ full = Reach(p, n - 1) /\ Width(p, n) = TailLen(p) /\ full < Payload(p)
            /\ (full + p.gso - 1) \div p.gso = n - 1
<1> DEFINE g == p.gso
           m == Payload(p)
           n == Count(p)
           r == TailLen(p)
           full == m - r
<1>1. Parted(p) BY HandedIs
<1>2. g \in Nat /\ g > 0 /\ m > g /\ r > 0 BY <1>1 DEF Mixed, Parted
<1>3. m \in Nat /\ n \in Nat \ {0} /\ r \in Nat /\ n # 1 BY <1>1, <1>2, WidthIs
<1>4. n \in 1..Count(p) /\ n > 1 BY <1>3
<1>5. /\ Reach(p, n - 1) = (n - 1) * g /\ Reach(p, n - 1) \in Nat
      /\ Reach(p, n) = m /\ Reach(p, n - 1) + Width(p, n) = Reach(p, n)
      /\ Width(p, n) = r /\ (Reach(p, n - 1) = 0 <=> n = 1)
  BY <1>1, <1>2, <1>4, WidthIs
<1> DEFINE c == Reach(p, n - 1)
<1>6. full = c /\ c \in Nat /\ c > 0 /\ c = (n - 1) * g /\ full < m BY <1>2, <1>3, <1>5
<1>7. (full + g - 1) \div g = n - 1
  <2> DEFINE k == (c + g - 1) \div g
  <2> HIDE DEF c, g, n
  <2>1. c \in Int /\ n \in Int /\ n > 1 BY <1>3, <1>4, <1>6
  <2>2. k \in Int BY <1>2, <2>1
  <2>3. n - 1 < k <=> (n - 1 - 1) * g + g < c BY <1>2, <2>1, CountReached
  <2>4. n - 2 < k <=> (n - 2 - 1) * g + g < c BY <1>2, <2>1, CountReached
  <2>5. (n - 1 - 1) * g + g = (n - 1) * g BY <1>2, <2>1
  <2>6. (n - 2 - 1) * g + g + g = (n - 1) * g BY <1>2, <2>1
  <2>7. ~(n - 1 < k) BY <1>6, <2>1, <2>3, <2>5
  <2> DEFINE e == (n - 2 - 1) * g
  <2>8. e \in Int BY <1>2, <2>1
  <2>9. n - 2 < k
    <3>1. e + g + g = c /\ (n - 2 < k <=> e + g < c) BY <1>6, <2>4, <2>6
    <3> HIDE DEF e
    <3> QED BY <1>2, <2>1, <2>8, <3>1
  <2> HIDE DEF k, e
  <2>10. k = n - 1 BY <2>1, <2>2, <2>7, <2>9
  <2> QED BY <1>6, <2>10 DEF k
<1> QED BY <1>4, <1>5, <1>6, <1>7

\* The aggregate that Split64 writes first: all but the last segment.
LEMMA HeadArrives ==
  ASSUME NEW p, Handed(p), p.v = 6, Mixed(p), NEW b, Parted(b),
         b.v = 4, b.from = p.from, b.to = p.to, b.hops = p.hops - 1, b.proto = p.proto,
         b.off = 0, b.mf = FALSE, b.frag = FALSE, b.df = TRUE, b.gso = p.gso,
         Payload(b) = Payload(p) - TailLen(p),
         b.what.flow = p.what.flow, b.what.lo = p.what.lo,
         b.what.flags = p.what.flags \cap {"cwr"}
  PROVE  /\ Count(b) = Count(p) - 1
         /\ \A i \in 1..(Count(p) - 1) : \A x : SegmentOf(b, i, x) => Arrived(p, i, x)
<1> DEFINE n == Count(p)
           g == p.gso
           full == Payload(p) - TailLen(p)
<1>1. Parted(p) BY HandedIs
<1>2. /\ full = (n - 1) * g /\ full \in Nat /\ full > 0 /\ n > 1 /\ (full + g - 1) \div g = n - 1
      /\ n \in Nat /\ g \in Nat /\ g > 0
  BY <1>1, FullIs, WidthIs DEF Parted
<1>3. Count(b) = n - 1 BY <1>2 DEF Count
<1>4. ASSUME NEW i \in 1..(n - 1), NEW x, SegmentOf(b, i, x) PROVE Arrived(p, i, x)
  <2>1. i \in 1..Count(b) /\ i \in 1..Count(p) /\ i < n /\ i # n BY <1>2, <1>3
  <2>2. Reach(b, i - 1) = (i - 1) * g /\ Reach(p, i - 1) = (i - 1) * g /\ Width(p, i) = g
    BY <1>1, <2>1, WidthIs
  <2>3. Width(b, i) = g
    <3>1. CASE i < Count(b) BY <2>1, <3>1, WidthIs
    <3>2. CASE i = Count(b)
      <4>1. Reach(b, i) = full BY <2>1, <3>2, WidthIs
      <4> DEFINE e == (i - 1) * g
      <4>2. Width(b, i) = full - e BY <2>2, <4>1 DEF Width
      <4>3. full = i * g BY <1>2, <1>3, <3>2
      <4>4. i * g = e + g /\ e \in Int BY <1>2, <2>1
      <4> HIDE DEF e, full, g, n
      <4>5. g \in Int BY <1>2
      <4> QED BY <4>2, <4>3, <4>4, <4>5
    <3> QED BY <1>2, <1>3, <2>1, <3>1, <3>2
  <2>4. p.what.flags \cap {"cwr"} \cap Ends(b, i) = p.what.flags \cap Ends(p, i)
    BY <2>1 DEF Ends
  <2>5. Slot(b, i) = Slot(p, i) BY <2>2, <2>3, <2>4 DEF Slot
  <2>6. SegmentAtomic(p, g) BY DEF Mixed
  <2>7. Atomic(Transport(p.proto) + g) = TRUE BY <2>6 DEF SegmentAtomic, Atomic
  <2>8. /\ DOMAIN x = PacketFields /\ x.v = b.v /\ x.from = b.from /\ x.to = b.to
        /\ x.hops = b.hops /\ x.proto = b.proto /\ x.off = b.off /\ x.mf = b.mf /\ x.df = b.df
        /\ x.frag = b.frag /\ x.gso = 0 /\ x.len = Transport(b.proto) + Width(b, i)
        /\ x.what = Slot(b, i)
    BY <1>4 DEF SegmentOf, Headed
  <2>9. x.v = 10 - p.v BY <2>8
  <2>10. p.v = 6 => x.df = Atomic(Transport(p.proto) + Width(p, i))
    <3>1. x.df = TRUE /\ Width(p, i) = g BY <2>2, <2>8
    <3> QED BY <2>7, <3>1
  <2>11. p.v = 4 => x.df = FALSE OBVIOUS
  <2> QED BY <2>2, <2>3, <2>5, <2>8, <2>9, <2>10, <2>11 DEF Arrived
<1> QED BY <1>3, <1>4

\* To IPv4 in two pieces, if the last segment is the only one to be small.
LEMMA Split64Arrives ==
  ASSUME NEW p, Handed(p), p.v = 6, Mixed(p)
  PROVE  Arrive(p, Leaves(Split64(p).writes))
<1> DEFINE full == Payload(p) - TailLen(p)
           n == Count(p)
           piece == Piece(p, 0, full)
           part == [piece EXCEPT !.gso = p.gso]
           head == Normalized(part)
           tail == Piece(p, full, TailLen(p))
           t == To4(head)
           first == [t EXCEPT !.df = TRUE, !.id = 0]
           last == To4(tail)
           u == To4(part)
           b == [u EXCEPT !.df = TRUE, !.id = 0]
<1>0. Parted(p) /\ DOMAIN p = PacketFields /\ p.off = 0 /\ p.mf = FALSE /\ p.gso \in Nat /\ p.gso > 0
  BY HandedIs DEF Parted
<1>1. Split64(p).writes = <<first, last>> BY DEF Split64, Effect
<1>2. /\ full \in Nat /\ full > 0 /\ n > 1 /\ full = Reach(p, n - 1) /\ Width(p, n) = TailLen(p)
      /\ full < Payload(p) /\ n \in Nat /\ TailLen(p) \in Nat /\ Payload(p) \in Nat
  BY <1>0, FullIs, WidthIs
<1>3. tail = Cut(p)[n]
  <2>1. n \in 1..Count(p) BY <1>2
  <2> QED BY <1>2, <2>1 DEF Cut, Width
<1>4. Arrived(p, n, last)
  <2>1. SegmentOf(p, n, tail)
    <3>1. n \in 1..Count(p) BY <1>2
    <3> QED BY <1>0, <1>3, <3>1, SegmentsCut
  <2> HIDE DEF tail
  <2> QED BY <2>1, SegmentCarried
<1> HIDE DEF tail, last
<1>5. /\ Headed(p, piece) /\ piece.gso = 0 /\ piece.len = Transport(p.proto) + full
      /\ piece.what = [flow |-> p.what.flow, lo |-> p.what.lo + 0, len |-> full,
                       flags |-> p.what.flags \cap {"cwr"}]
  <2>1. 0 + full # Payload(p) BY <1>2
  <2>2. piece = Slice(p, 0, full, {"cwr"} \cup {}) BY <2>1 DEF Piece
  <2>3. {"cwr"} \cup {} = {"cwr"} OBVIOUS
  <2> HIDE DEF full
  <2> QED BY <1>0, <2>2, <2>3, SliceFields
<1> HIDE DEF piece
<1>6. /\ Headed(p, part) /\ part.gso = p.gso /\ part.len = piece.len /\ part.what = piece.what
  BY <1>5 DEF Headed, PacketFields
<1> HIDE DEF part
<1>7. /\ Headed(part, head) /\ head.what = part.what /\ head.len = part.len
      /\ head.gso = IF part.proto = "tcp" /\ Payload(part) <= part.gso THEN 0 ELSE part.gso
  BY <1>6, NormalizedFields DEF Headed
<1> HIDE DEF head
<1>8. /\ DOMAIN first = PacketFields /\ first = [k \in PacketFields |-> first[k]]
      /\ first.v = 4 /\ first.from = p.from /\ first.to = p.to /\ first.hops = p.hops - 1
      /\ first.proto = p.proto /\ first.what = piece.what /\ first.off = 0 /\ first.len = piece.len
      /\ first.mf = FALSE /\ first.id = 0 /\ first.df = TRUE /\ first.frag = FALSE
      /\ first.gso = head.gso
  <2>1. /\ DOMAIN t = PacketFields /\ t.v = 4 /\ t.from = p.from /\ t.to = p.to
        /\ t.hops = p.hops - 1 /\ t.proto = p.proto /\ t.what = piece.what /\ t.off = 0
        /\ t.len = piece.len /\ t.mf = FALSE /\ t.frag = FALSE /\ t.gso = head.gso
    BY <1>0, <1>6, <1>7 DEF To4, Headed, PacketFields
  <2> HIDE DEF t
  <2> QED BY <2>1 DEF PacketFields
<1>9. /\ DOMAIN b = PacketFields
      /\ b.v = 4 /\ b.from = p.from /\ b.to = p.to /\ b.hops = p.hops - 1
      /\ b.proto = p.proto /\ b.what = piece.what /\ b.off = 0 /\ b.len = piece.len
      /\ b.mf = FALSE /\ b.id = 0 /\ b.df = TRUE /\ b.frag = FALSE /\ b.gso = p.gso
  <2>1. /\ DOMAIN u = PacketFields /\ u.v = 4 /\ u.from = p.from /\ u.to = p.to
        /\ u.hops = p.hops - 1 /\ u.proto = p.proto /\ u.what = piece.what /\ u.off = 0
        /\ u.len = piece.len /\ u.mf = FALSE /\ u.frag = FALSE /\ u.gso = p.gso
    BY <1>0, <1>6 DEF To4, Headed, PacketFields
  <2> HIDE DEF u
  <2> QED BY <2>1 DEF PacketFields
<1> HIDE DEF first, b, t, u
<1>10. first = Normalized(b)
  <2> DEFINE x == Normalized(b)
             z == IF b.proto = "tcp" /\ Payload(b) <= b.gso THEN 0 ELSE b.gso
  <2>0. x = [b EXCEPT !.gso = z] BY DEF Normalized
  <2>1. /\ Headed(b, x) /\ x.id = b.id /\ x.what = b.what /\ x.len = b.len /\ x.gso = z
    BY <1>9, NormalizedFields
  <2>2. Payload(b) = Payload(part) /\ part.proto = b.proto /\ part.gso = b.gso
    BY <1>6, <1>9 DEF Payload, Headed
  <2>3. first.gso = z BY <1>7, <1>8, <2>2
  <2> HIDE DEF z, x
  <2>4. x = [k \in PacketFields |-> x[k]] BY <1>9, <2>0
  <2>5. /\ x.v = first.v /\ x.from = first.from /\ x.to = first.to /\ x.hops = first.hops
        /\ x.proto = first.proto /\ x.what = first.what /\ x.off = first.off
        /\ x.len = first.len /\ x.mf = first.mf /\ x.id = first.id /\ x.df = first.df
        /\ x.frag = first.frag /\ x.gso = first.gso
    BY <1>8, <1>9, <2>1, <2>3 DEF Headed
  <2>6. \A k \in PacketFields : x[k] = first[k] BY <2>5 DEF PacketFields
  <2>7. x = first BY <1>8, <2>4, <2>6
  <2> QED BY <2>7 DEF x
<1>11. Payload(b) = full /\ Parted(b)
  <2> DEFINE w == piece.what
             f == p.what.flow
             l == p.what.lo
             c == p.what.flags \cap {"cwr"}
  <2>0. l \in Int /\ l + 0 = l BY <1>0 DEF Parted
  <2>1. Payload(b) = full
    <3>1. Transport(p.proto) \in Int BY TransportIs
    <3> HIDE DEF full
    <3> QED BY <1>2, <1>5, <1>9, <3>1 DEF Payload
  <2>2. w = [flow |-> f, lo |-> l, len |-> full, flags |-> c] BY <1>5, <2>0
  <2>3. c \subseteq {"cwr", "fin"} OBVIOUS
  <2> HIDE DEF f, l, c, w, full
  <2>4. w.flow = f /\ w.lo = l /\ w.flags = c /\ w.len = full BY <2>2
  <2>5. w.lo \in Int /\ w.flags \subseteq {"cwr", "fin"}
        /\ w = [flow |-> w.flow, lo |-> w.lo, len |-> full, flags |-> w.flags]
    BY <2>0, <2>2, <2>3, <2>4
  <2>6. b.what = w BY <1>9 DEF w
  <2>7. b.len \in Int
    <3>1. Transport(p.proto) \in Int BY TransportIs
    <3> QED BY <1>2, <1>5, <1>9, <3>1
  <2>8. b.what.lo \in Int /\ b.what.flags \subseteq {"cwr", "fin"} BY <2>5, <2>6
  <2>9. b.what = [flow |-> b.what.flow, lo |-> b.what.lo, len |-> Payload(b), flags |-> b.what.flags]
    BY <2>1, <2>5, <2>6, Zenon
  <2>10. b.gso \in Nat /\ b.gso > 0 /\ Payload(b) >= 0 BY <1>0, <1>2, <1>9, <2>1
  <2> QED BY <1>9, <2>1, <2>7, <2>8, <2>9, <2>10 DEF Parted
<1>12. /\ b.what.flow = p.what.flow /\ b.what.lo = p.what.lo
       /\ b.what.flags = p.what.flags \cap {"cwr"}
  <2>1. p.what.lo + 0 = p.what.lo BY <1>0 DEF Parted
  <2> QED BY <1>5, <1>9, <2>1
<1>13. /\ Count(b) = n - 1
       /\ \A i \in 1..(n - 1) : \A x : SegmentOf(b, i, x) => Arrived(p, i, x)
  BY <1>9, <1>11, <1>12, HeadArrives
<1> DEFINE s == KernelSegments(first)
<1>14. s = [i \in 1..(n - 1) |-> s[i]] /\ \A i \in 1..(n - 1) : SegmentOf(b, i, s[i])
  BY <1>10, <1>11, <1>13, KernelCut
<1>15. \A i \in 1..(n - 1) : Arrived(p, i, s[i]) BY <1>13, <1>14
<1>16. Leaving(first) = s /\ Leaving(last) = <<last>>
  <2>1. ~IsError(first) BY <1>8, HandedIs DEF IsError
  <2>2. ~IsError(last) /\ last.gso = 0 BY <1>4, NoError
  <2> QED BY <2>1, <2>2 DEF Leaving, KernelSegments
<1>17. Leaves(Split64(p).writes) = s \o <<last>> BY <1>1, <1>16, LeavesFew
<1> HIDE DEF s
<1>18. Arrive(p, s \o <<last>>)
  <2> DEFINE S == {s[i] : i \in 1..(n - 1)} \cup {last}
             y == s \o <<last>>
  <2>1. n - 1 \in Nat BY <1>2
  <2>2. s \in Seq(S) /\ Len(s) = n - 1
    <3>1. \A i \in 1..(n - 1) : s[i] \in S OBVIOUS
    <3> HIDE DEF S, n
    <3> QED BY <1>14, <2>1, <3>1
  <2>3. <<last>> \in Seq(S) /\ Len(<<last>>) = 1 /\ <<last>>[1] = last OBVIOUS
  <2> HIDE DEF S
  <2>4. Len(y) = n /\ y \in Seq(S)
    <3>1. y \in Seq(S) /\ Len(y) = Len(s) + 1 BY <2>2, <2>3
    <3> QED BY <1>2, <2>2, <3>1
  <2>5. \A i \in 1..(n - 1) : y[i] = s[i] BY <2>2, <2>3
  <2>6. y[n] = last
    <3>1. y[Len(s) + 1] = last BY <2>2, <2>3
    <3>2. Len(s) + 1 = n BY <1>2, <2>2
    <3> QED BY <3>1, <3>2
  <2> HIDE DEF y
  <2>7. y = [i \in 1..n |-> y[i]] BY <2>4
  <2>8. ASSUME NEW i \in 1..n PROVE Arrived(p, i, y[i])
    <3>1. i = n \/ i \in 1..(n - 1) BY <1>2
    <3> QED BY <1>4, <1>15, <2>5, <2>6, <3>1
  <2> QED BY <2>7, <2>8 DEF Arrive, y
<1> QED BY <1>17, <1>18

----------------------------------------------------------------------------
(* Which packets go on *)

\* w is one error to the source of p.
Refuses(p, w) == \E e : w = <<e>> /\ IsError(e) /\ e.to = p.from

Unmappable(p) == Mapping[p.to] \in {"reject", "drop"} \/ Mapping[p.from] \in {"reject", "drop"}
\* An address without an answer is met first.
Dropped(p) == Mapping[p.to] = "drop" \/ (Mapping[p.to] # "reject" /\ Mapping[p.from] = "drop")

Blocked(p) == p.to = Tayga \/ p.hops = 1 \/ Unmappable(p)
Silent(p) == p.to # Tayga /\ p.hops # 1 /\ Dropped(p)
TooBig(p) == IF p.v = 4 THEN SegmentTooBig4(p) ELSE SegmentTooBig6(p)

LEMMA AnswerRefuses ==
  ASSUME NEW p, p.proto \notin {"error", "reply"}, NEW type, NEW code, NEW word
  PROVE  Refuses(p, Answer(p, type, code, word).writes)
<1> DEFINE e == [v |-> p.v, from |-> Tayga, to |-> p.from, hops |-> 64, proto |-> "error",
                 type |-> type, code |-> code, word |-> word, quote |-> p]
<1>1. Answer(p, type, code, word).writes = <<e>> BY DEF Answer, Effect
<1>2. IsError(e) /\ e.to = p.from BY DEF IsError
<1> HIDE DEF e
<1> QED BY <1>1, <1>2 DEF Refuses

LEMMA FirstOfTwo ==
  ASSUME NEW a \in BOOLEAN, NEW w, NEW b \in BOOLEAN, NEW z, NEW else
  PROVE  FirstOf(<< <<a, w>>, <<b, z>> >>, else) = IF a THEN w ELSE IF b THEN z ELSE else
<1> DEFINE c == <<a, w>>
           d == <<b, z>>
<1>1. FirstOf(<<c>>, FirstOf(<<d>>, else)) = IF a THEN w ELSE IF b THEN z ELSE else
  BY FirstOfOne
<1>2. <<c, d>> = <<c>> \o <<d>> OBVIOUS
<1> HIDE DEF c, d
<1>3. FirstOf(<<c, d>>, else) = FirstOf(<<c>>, FirstOf(<<d>>, else))
  <2>1. Plain(<<c>>) /\ Plain(<<d>>) BY PlainOne
  <2> DEFINE x == <<c>>
             y == <<d>>
  <2>2. x \o y = <<c, d>> BY <1>2
  <2>3. Plain(x) /\ Plain(y) BY <2>1
  <2> HIDE DEF x, y
  <2>4. FirstOf(x \o y, else) = FirstOf(x, FirstOf(y, else)) BY <2>3, FirstOfJoin
  <2> QED BY <2>2, <2>4 DEF x, y
<1> QED BY <1>1, <1>3 DEF c, d

\* What the mapper says of the addresses.
LEMMA UnmappedFirst ==
  ASSUME NEW p, p.proto \notin {"error", "reply"}, NEW u, NEW r, NEW else
  PROVE  LET cs == Unmapped(p, u, r)
             x == FirstOf(cs, else)
         IN /\ Plain(cs)
            /\ ~Unmappable(p) => x = else
            /\ Dropped(p) => x.writes = <<>>
            /\ Unmappable(p) /\ ~Dropped(p) => Refuses(p, x.writes)
<1> DEFINE a == Mapping[p.to] = "reject"
           b == Mapping[p.to] = "drop"
           c == Mapping[p.from] = "reject"
           d == Mapping[p.from] = "drop"
           w == Answer(p, u[1], u[2], 0)
           y == Answer(p, r[1], r[2], 0)
           s == << <<a, w>>, <<b, Drop>> >>
           t == << <<c, y>>, <<d, Drop>> >>
<1>1. Unmapped(p, u, r) = s \o t BY DEF Unmapped
<1>2. a \in BOOLEAN /\ b \in BOOLEAN /\ c \in BOOLEAN /\ d \in BOOLEAN OBVIOUS
<1>3. /\ Unmappable(p) <=> a \/ b \/ c \/ d
      /\ Dropped(p) <=> b \/ (~a /\ d)
  BY DEF Unmappable, Dropped
<1>4. a => ~b
  OBVIOUS
<1>5. c => ~d OBVIOUS
<1>6. Refuses(p, w.writes) /\ Refuses(p, y.writes) /\ Drop.writes = <<>>
  BY AnswerRefuses DEF Drop, Effect
<1> HIDE DEF a, b, c, d, w, y
<1>7. \A z : FirstOf(s, z) = IF a THEN w ELSE IF b THEN Drop ELSE z BY <1>2, FirstOfTwo
<1>8. FirstOf(t, else) = IF c THEN y ELSE IF d THEN Drop ELSE else BY <1>2, FirstOfTwo
<1>9. Plain(s) /\ Plain(t) BY PlainTwo
<1> HIDE DEF s, t
<1>10. Plain(s \o t) /\ FirstOf(s \o t, else) = FirstOf(s, FirstOf(t, else))
  BY <1>9, PlainJoin, FirstOfJoin
<1>11. FirstOf(s \o t, else) = IF a THEN w ELSE IF b THEN Drop
                               ELSE IF c THEN y ELSE IF d THEN Drop ELSE else
  BY <1>7, <1>8, <1>10
<1> DEFINE x == FirstOf(s \o t, else)
<1> HIDE DEF x
<1>12. x = IF a THEN w ELSE IF b THEN Drop ELSE IF c THEN y ELSE IF d THEN Drop ELSE else
  BY <1>11 DEF x
<1>13. ~Unmappable(p) => x = else BY <1>3, <1>12
<1>14. Dropped(p) => x.writes = <<>>
  <2>1. Dropped(p) => x = Drop BY <1>3, <1>4, <1>5, <1>12
  <2> QED BY <1>6, <2>1
<1>15. Unmappable(p) /\ ~Dropped(p) => Refuses(p, x.writes)
  <2>1. Unmappable(p) /\ ~Dropped(p) => x = w \/ x = y BY <1>3, <1>12
  <2> QED BY <1>6, <2>1
<1> QED BY <1>1, <1>10, <1>13, <1>14, <1>15 DEF x

\* No segment is longer than the first one.
LEMMA WidthBound ==
  ASSUME NEW b, Parted(b), NEW i \in 1..Count(b)
  PROVE  /\ Width(b, i) \in Nat /\ Segment(b) \in Nat /\ Width(b, i) <= Segment(b)
         /\ i = 1 => Width(b, i) = Segment(b)
<1> DEFINE g == b.gso
           m == Payload(b)
           n == Count(b)
           r == TailLen(b)
           s == Segment(b)
           d == Width(b, i)
<1>1. /\ g \in Nat /\ g > 0 /\ m \in Nat /\ n \in Nat \ {0} /\ r \in Nat /\ s \in Nat /\ d \in Nat
      /\ n = 1 <=> m <= g
      /\ s = IF m <= g THEN m ELSE g
      /\ i < n => d = g
      /\ i = n => d = IF r > 0 THEN r ELSE s
  BY WidthIs DEF Parted
<1>2. r = m % g BY DEF TailLen
<1>3. i \in Int /\ 1 <= i /\ i <= n BY <1>1
<1> HIDE DEF g, m, n, r, s, d
<1>4. r < g /\ (m <= g => r = m \/ r = 0)
  <2>1. m % g < g BY <1>1
  <2>2. m < g => m % g = m BY <1>1
  <2>3. m = g => m % g = 0 BY <1>1
  <2> QED BY <1>1, <1>2, <2>1, <2>2, <2>3
<1>5. d <= s /\ (i = 1 => d = s) BY <1>1, <1>3, <1>4
<1> QED BY <1>1, <1>5 DEF s, d

----------------------------------------------------------------------------
(* A segment that comes on its own *)

\* What is written for the i-th segment of p, if it comes on its own.
Apart(p, i, w) ==
  /\ Silent(p) => w = <<>>
  /\ Blocked(p) /\ ~Silent(p) => Refuses(p, w)
  /\ ~Blocked(p) => Refuses(p, w) \/ \E q : w = <<q>> /\ Arrived(p, i, q)
  /\ ~Blocked(p) /\ TooBig(p) /\ i = 1 => Refuses(p, w)
  /\ ~Blocked(p) /\ ~TooBig(p) => \E q : w = <<q>> /\ Arrived(p, i, q)

\* xlate_4to6_data and xlate_6to4_data, for a segment.
LEMMA SegmentApart ==
  ASSUME Given, NEW p, Handed(p), Comparable(p), NEW i \in 1..Count(p)
  PROVE  Apart(p, i, Translate(Segments(p)[i]).writes)
<1> DEFINE s == Segments(p)[i]
           w == Translate(s).writes
<1>1. /\ Parted(p) /\ p.v \in {4, 6} /\ p.proto \in {"tcp", "udp"}
      /\ p.hops \in Nat /\ p.hops > 0 /\ p.off = 0 /\ p.mf = FALSE /\ p.df \in BOOLEAN
  BY HandedIs
<1>2. SegmentOf(p, i, s) BY <1>1, SegmentsCut
<1> HIDE DEF s
<1>3. /\ s.v = p.v /\ s.from = p.from /\ s.to = p.to /\ s.hops = p.hops /\ s.proto = p.proto
      /\ s.off = 0 /\ s.mf = FALSE /\ s.df = p.df /\ s.gso = 0
      /\ s.len = Transport(p.proto) + Width(p, i)
  BY <1>1, <1>2 DEF SegmentOf, Headed
<1>4. /\ Width(p, i) \in Nat /\ Segment(p) \in Nat /\ Width(p, i) <= Segment(p)
      /\ i = 1 => Width(p, i) = Segment(p)
  BY <1>1, WidthBound
<1>5. Transport(p.proto) \in Nat BY TransportIs
<1>6. ~IsError(s) /\ ~IsFragment(s) /\ ~Aggregate(s) /\ ~Malformed(s)
  <2>1. s.off + s.len <= Length16
    <3>1. Transport(p.proto) + Segment(p) <= Length16 BY DEF Handed, WellFormed
    <3> QED BY <1>3, <1>4, <1>5, <3>1 DEF Length16
  <2>2. ~IsError(s) BY <1>1, <1>3 DEF IsError
  <2>3. ~IsFragment(s) BY <1>3 DEF IsFragment
  <2>4. ~(s.off + s.len > Length16) BY <1>3, <1>4, <1>5, <2>1 DEF Length16
  <2> QED BY <1>3, <2>2, <2>3, <2>4 DEF Malformed, Aggregate
<1>7. w = Handle(s).writes BY <1>6 DEF Translate
<1>8. \A x : Refuses(s, x) <=> Refuses(p, x) BY <1>3 DEF Refuses
<1>9. (Unmappable(s) <=> Unmappable(p)) /\ (Dropped(s) <=> Dropped(p))
  BY <1>3 DEF Unmappable, Dropped
<1>10. s.proto \notin {"error", "reply"} /\ s.hops # 0 BY <1>1, <1>3
<1>11. \A type, code, word : Refuses(p, Answer(s, type, code, word).writes)
  BY <1>8, <1>10, AnswerRefuses
<1>12. Dropped(p) => Unmappable(p) BY DEF Dropped, Unmappable
<1> SUFFICES Apart(p, i, w) BY DEF s
<1>13. CASE p.to = Tayga
  <2>1. w = ToSelf(s).writes BY <1>3, <1>6, <1>7, <1>10, <1>13 DEF Handle
  <2>2. s.proto # "echo" BY <1>1, <1>3
  <2>3. Refuses(p, w) BY <1>11, <2>1, <2>2 DEF ToSelf
  <2> QED BY <1>13, <2>3 DEF Silent, Blocked, Apart
<1>14. CASE p.to # Tayga /\ p.hops = 1
  <2>1. Refuses(p, w) BY <1>3, <1>6, <1>7, <1>10, <1>11, <1>14 DEF Handle
  <2> QED BY <1>14, <2>1 DEF Silent, Blocked, Apart
<1>15. CASE p.to # Tayga /\ p.hops # 1
  <2> DEFINE cs == IF p.v = 4 THEN Unmapped4(s) ELSE Unmapped6(s)
  <2>1. Handle(s) = IF p.v = 4 THEN Data46(s) ELSE Data64(s)
    BY <1>1, <1>3, <1>6, <1>10, <1>15 DEF Handle
  <2>2. /\ Blocked(p) <=> Unmappable(p)
        /\ Silent(p) <=> Dropped(p)
    BY <1>15 DEF Blocked, Silent
  <2>3. \A y : LET x == FirstOf(cs, y) IN
               /\ Plain(cs)
               /\ ~Unmappable(p) => x = y
               /\ Dropped(p) => x.writes = <<>>
               /\ Unmappable(p) /\ ~Dropped(p) => Refuses(p, x.writes)
    BY <1>8, <1>9, <1>10, UnmappedFirst DEF Unmapped4, Unmapped6
  <2>4. ASSUME p.v = 4
        PROVE  \E y : /\ Handle(s) = FirstOf(cs, y)
                      /\ TooBig(p) /\ i = 1 => Refuses(p, y.writes)
                      /\ ~TooBig(p) => \E q : y.writes = <<q>> /\ Arrived(p, i, q)
                      /\ Refuses(p, y.writes) \/ \E q : y.writes = <<q>> /\ Arrived(p, i, q)
    <3> DEFINE a == ~IsFragment(s) /\ s.df /\ 40 + s.len > gcfg.mtu
               b == ~IsFragment(s) /\ (s.df \/ s.len <= Room)
               t == [To6(s) EXCEPT !.id = 0]
               A == Answer(s, 3, 4, gcfg.mtu - MtuAdj)
               E == Effect(<<t>>, 0)
               rest == Effect(Fragments6(s), 0)
               two == << <<a, A>>, <<b, E>> >>
               y == FirstOf(two, rest)
    <3>1. Handle(s) = FirstOf(cs \o two, rest) BY <2>1, <2>4 DEF Data46
    <3>2. Arrived(p, i, t) BY <1>2, <2>4, SegmentCarried
    <3>3. TooBig(p) <=> p.df /\ 20 + Transport(p.proto) + Segment(p) > gcfg.mtu - MtuAdj
      BY <2>4 DEF TooBig, SegmentTooBig4
    <3>4. a <=> p.df /\ 40 + (Transport(p.proto) + Width(p, i)) > gcfg.mtu BY <1>3, <1>6
    <3>5. b <=> p.df \/ Transport(p.proto) + Width(p, i) <= Room BY <1>3, <1>6
    <3>6. gcfg.mtu \in Nat /\ MtuAdj = 20 /\ Room \in Nat BY RoomIs
    <3>7. p.df \/ Transport(p.proto) + Segment(p) <= Room BY <2>4 DEF Comparable
    <3>8. ~a => b BY <1>4, <1>5, <3>4, <3>5, <3>6, <3>7
    <3>9. (TooBig(p) /\ i = 1 => a) /\ (~TooBig(p) => ~a)
      BY <1>4, <1>5, <3>3, <3>4, <3>6
    <3>10. Refuses(p, A.writes) BY <1>11
    <3>11. E.writes = <<t>> BY DEF Effect
    <3>12. a \in BOOLEAN /\ b \in BOOLEAN BY <3>4, <3>5
    <3> HIDE DEF a, b, t, A, E, rest, cs
    <3>13. y = IF a THEN A ELSE IF b THEN E ELSE rest BY <3>12, FirstOfTwo
    <3>14. Plain(two) BY PlainTwo
    <3> HIDE DEF two
    <3>15. FirstOf(cs \o two, rest) = FirstOf(cs, y) BY <2>3, <3>14, FirstOfJoin
    <3>16. TooBig(p) /\ i = 1 => Refuses(p, y.writes)
      <4>1. TooBig(p) /\ i = 1 => y = A BY <3>9, <3>13
      <4> QED BY <3>10, <4>1
    <3>17. ~TooBig(p) => y.writes = <<t>>
      <4>1. ~TooBig(p) => y = E BY <3>8, <3>9, <3>13
      <4> QED BY <3>11, <4>1
    <3>18. Refuses(p, y.writes) \/ y.writes = <<t>>
      <4>1. y = A \/ y = E BY <3>8, <3>13
      <4> QED BY <3>10, <3>11, <4>1
    <3> HIDE DEF y
    <3> QED BY <3>1, <3>2, <3>15, <3>16, <3>17, <3>18
  <2>5. ASSUME p.v = 6
        PROVE  \E y : /\ Handle(s) = FirstOf(cs, y)
                      /\ TooBig(p) /\ i = 1 => Refuses(p, y.writes)
                      /\ ~TooBig(p) => \E q : y.writes = <<q>> /\ Arrived(p, i, q)
                      /\ Refuses(p, y.writes) \/ \E q : y.writes = <<q>> /\ Arrived(p, i, q)
    <3> DEFINE a == TooBig6(s)
               t == To4(s)
               A == Answer(s, 2, 0, gcfg.mtu)
               E == Effect(<<t>>, Reserves(s))
               one == << <<a, A>> >>
               y == FirstOf(one, E)
    <3>1. Handle(s) = FirstOf(cs \o one, E) BY <2>1, <2>5 DEF Data64
    <3>2. Arrived(p, i, t) BY <1>2, <2>5, SegmentCarried
    <3>3. TooBig(p) <=> 40 + Transport(p.proto) + Segment(p) > gcfg.mtu
      BY <2>5 DEF TooBig, SegmentTooBig6
    <3>4. a <=> 40 + (Transport(p.proto) + Width(p, i)) > gcfg.mtu BY <1>3 DEF TooBig6
    <3>5. gcfg.mtu \in Nat BY RoomIs
    <3>6. (TooBig(p) /\ i = 1 => a) /\ (~TooBig(p) => ~a)
      BY <1>4, <1>5, <3>3, <3>4, <3>5
    <3>7. Refuses(p, A.writes) BY <1>11
    <3>8. E.writes = <<t>> BY DEF Effect
    <3>9. a \in BOOLEAN BY DEF TooBig6
    <3> HIDE DEF a, t, A, E, cs
    <3>10. y = IF a THEN A ELSE E BY <3>9, FirstOfOne
    <3>11. Plain(one) BY PlainOne
    <3> HIDE DEF one
    <3>12. FirstOf(cs \o one, E) = FirstOf(cs, y) BY <2>3, <3>11, FirstOfJoin
    <3>13. TooBig(p) /\ i = 1 => Refuses(p, y.writes)
      <4>1. TooBig(p) /\ i = 1 => y = A BY <3>6, <3>10
      <4> QED BY <3>7, <4>1
    <3>14. ~TooBig(p) => y.writes = <<t>>
      <4>1. ~TooBig(p) => y = E BY <3>6, <3>10
      <4> QED BY <3>8, <4>1
    <3>15. Refuses(p, y.writes) \/ y.writes = <<t>>
      <4>1. y = A \/ y = E BY <3>10
      <4> QED BY <3>7, <3>8, <4>1
    <3> HIDE DEF y
    <3> QED BY <3>1, <3>2, <3>12, <3>13, <3>14, <3>15
  <2> HIDE DEF cs
  <2>6. PICK y : /\ Handle(s) = FirstOf(cs, y)
                 /\ TooBig(p) /\ i = 1 => Refuses(p, y.writes)
                 /\ ~TooBig(p) => \E q : y.writes = <<q>> /\ Arrived(p, i, q)
                 /\ Refuses(p, y.writes) \/ \E q : y.writes = <<q>> /\ Arrived(p, i, q)
    BY <1>1, <2>4, <2>5
  <2>7. w = FirstOf(cs, y).writes BY <1>7, <2>6
  <2> HIDE DEF w
  <2>8. /\ ~Unmappable(p) => w = y.writes
        /\ Dropped(p) => w = <<>>
        /\ Unmappable(p) /\ ~Dropped(p) => Refuses(p, w)
    BY <2>3, <2>7
  <2>9. Apart(p, i, w) BY <1>12, <2>2, <2>6, <2>8 DEF Apart
  <2> QED BY <2>9
<1> QED BY <1>13, <1>14, <1>15

----------------------------------------------------------------------------
(* An aggregate that comes in one piece *)

\* What is written for p in one piece.
AtOnce(p, w) ==
  /\ Blocked(p) \/ TooBig(p) => Refuses(p, w) \/ (Silent(p) /\ w = <<>>)
  /\ ~Blocked(p) /\ ~TooBig(p) => Arrive(p, Leaves(w))

\* Conditions in three groups.
LEMMA ThreeJoined ==
  ASSUME NEW a, NEW b, NEW c, Plain(a), Plain(b), Plain(c), NEW else
  PROVE  FirstOf(a \o b \o c, else) = FirstOf(a, FirstOf(b, FirstOf(c, else)))
<1>1. Plain(a \o b) BY PlainJoin
<1>2. FirstOf((a \o b) \o c, else) = FirstOf(a \o b, FirstOf(c, else)) BY <1>1, FirstOfJoin
<1>3. FirstOf(a \o b, FirstOf(c, else)) = FirstOf(a, FirstOf(b, FirstOf(c, else))) BY FirstOfJoin
<1> QED BY <1>2, <1>3

\* Addresses, for a packet that is not too big and may go one hop more.
LEMMA AddressedAtOnce ==
  ASSUME NEW p, Handed(p), ~TooBig(p), p.hops # 1, NEW u, NEW r,
         NEW self, self = << <<p.to = Tayga, Answer(p, u, r, 0)>> >> \/ self = ToSelf6(p),
         NEW cs, cs = Unmapped4(p) \/ cs = Unmapped6(p),
         NEW x, ~Blocked(p) => Arrive(p, Leaves(x.writes))
  PROVE  AtOnce(p, FirstOf(self, FirstOf(cs, x)).writes)
<1> DEFINE y == FirstOf(cs, x)
           b == p.to = Tayga
<1>0. p.proto \notin {"error", "reply"} /\ b \in BOOLEAN BY HandedIs
<1>1. \E A : self = << <<b, A>> >> /\ Refuses(p, A.writes)
  <2>1. CASE self = ToSelf6(p) BY <1>0, <2>1, AnswerRefuses DEF ToSelf6
  <2>2. CASE self = << <<p.to = Tayga, Answer(p, u, r, 0)>> >> BY <1>0, <2>2, AnswerRefuses
  <2> QED BY <2>1, <2>2
<1>2. PICK A : self = << <<b, A>> >> /\ Refuses(p, A.writes) BY <1>1
<1>3. FirstOf(self, y) = IF b THEN A ELSE y
  <2> HIDE DEF y, b
  <2> QED BY <1>0, <1>2, FirstOfOne
<1>4. /\ ~Unmappable(p) => y = x
      /\ Dropped(p) => y.writes = <<>>
      /\ Unmappable(p) /\ ~Dropped(p) => Refuses(p, y.writes)
  BY <1>0, UnmappedFirst DEF Unmapped4, Unmapped6
<1>5. CASE b
  <2>1. FirstOf(self, y) = A BY <1>3, <1>5
  <2>2. Blocked(p) BY <1>5 DEF Blocked
  <2> QED BY <1>2, <2>1, <2>2 DEF AtOnce
<1>6. CASE ~b
  <2>1. FirstOf(self, y) = y BY <1>3, <1>6
  <2>2. (Blocked(p) <=> Unmappable(p)) /\ (Silent(p) <=> Dropped(p))
    BY <1>6 DEF Blocked, Silent
  <2> HIDE DEF y
  <2>3. AtOnce(p, y.writes) BY <1>4, <2>2 DEF AtOnce
  <2> QED BY <2>1, <2>3 DEF y
<1> QED BY <1>5, <1>6

\* An answer to a packet that may not go one hop more, or is too big.
LEMMA AnsweredAtOnce ==
  ASSUME NEW p, Handed(p), TooBig(p) \/ p.hops = 1, NEW type, NEW code, NEW word
  PROVE  AtOnce(p, Answer(p, type, code, word).writes)
<1>1. p.proto \notin {"error", "reply"} BY HandedIs
<1>2. Refuses(p, Answer(p, type, code, word).writes) BY <1>1, AnswerRefuses
<1>3. Blocked(p) \/ TooBig(p) BY DEF Blocked
<1> QED BY <1>2, <1>3 DEF AtOnce

LEMMA LastHop ==
  ASSUME NEW p, Handed(p)
  PROVE  p.hops <= 1 <=> p.hops = 1
<1>1. p.hops \in Nat /\ p.hops > 0 BY HandedIs
<1> QED BY <1>1

\* The handlers of aggregates, in the order they look at things.
LEMMA Tcp46AtOnce ==
  ASSUME NEW p, Handed(p), p.v = 4
  PROVE  AtOnce(p, Tcp46(p).writes)
<1> DEFINE a == SegmentTooBig4(p)
           b == p.hops <= 1
           A == Answer(p, 3, 4, gcfg.mtu - MtuAdj)
           B == Answer(p, 11, 0, 0)
           rest == Whole46(p)
           self == ToSelf4(p)
           cs == Unmapped4(p)
           y == FirstOf(self, FirstOf(cs, rest))
<1>0. p.proto \notin {"error", "reply"} /\ a \in BOOLEAN /\ b \in BOOLEAN
  <2>1. p.proto \in {"tcp", "udp"} BY HandedIs
  <2> QED BY <2>1 DEF SegmentTooBig4
<1>1. TooBig4(p) = << <<a, A>> >> /\ Expired4(p) = << <<b, B>> >> BY DEF TooBig4, Expired4
<1>2. Plain(TooBig4(p)) /\ Plain(Expired4(p)) /\ Plain(self) /\ Plain(cs)
  BY <1>0, PlainOne, UnmappedFirst DEF TooBig4, Expired4, ToSelf4, Unmapped4
<1>3. (a <=> TooBig(p)) /\ (b <=> p.hops = 1) BY LastHop DEF TooBig
<1>4. Arrive(p, Leaves(rest.writes)) BY Whole46Arrives
<1>5. AtOnce(p, A.writes) \/ ~a BY <1>3, AnsweredAtOnce
<1>6. AtOnce(p, B.writes) \/ ~b BY <1>3, AnsweredAtOnce
<1>7. AtOnce(p, y.writes) \/ a \/ b
  <2>1. self = << <<p.to = Tayga, Answer(p, 3, 2, 0)>> >> BY DEF ToSelf4
  <2> HIDE DEF a, b, self, rest
  <2> QED BY <1>3, <1>4, <2>1, AddressedAtOnce
<1>8. Tcp46(p) = FirstOf(TooBig4(p) \o Expired4(p) \o self \o cs, rest) BY DEF Tcp46
<1> HIDE DEF a, b, A, B, self, cs, rest, y
<1>9. Plain(TooBig4(p) \o Expired4(p)) BY <1>2, PlainJoin
<1>10. Tcp46(p) = FirstOf(TooBig4(p) \o Expired4(p), y)
  BY <1>2, <1>8, <1>9, ThreeJoined DEF y
<1>11. Tcp46(p) = FirstOf(TooBig4(p), FirstOf(Expired4(p), y)) BY <1>2, <1>10, FirstOfJoin
<1>12. FirstOf(Expired4(p), y) = IF b THEN B ELSE y BY <1>0, <1>1, FirstOfOne
<1>13. \A z : FirstOf(TooBig4(p), z) = IF a THEN A ELSE z BY <1>0, <1>1, FirstOfOne
<1>14. Tcp46(p) = IF a THEN A ELSE IF b THEN B ELSE y BY <1>11, <1>12, <1>13
<1> QED BY <1>5, <1>6, <1>7, <1>14

LEMMA HandedFits ==
  ASSUME NEW p, Handed(p), p.proto = "udp"
  PROVE  ~Unfit(p)
<1>1. Count(p) <= 128 /\ 8 + p.gso <= Length16 BY DEF Handed, WellFormed, MaxUdpSegments
<1>2. Count(p) \in Nat BY HandedIs, WidthIs
<1>3. p.gso \in Nat BY DEF Handed, Packet
<1> QED BY <1>1, <1>2, <1>3 DEF Unfit, Length16

LEMMA Udp46AtOnce ==
  ASSUME NEW p, Handed(p), p.v = 4, p.proto = "udp"
  PROVE  AtOnce(p, Udp46(p).writes)
<1> DEFINE a == SegmentTooBig4(p)
           b == p.hops <= 1
           c == Unfit(p)
           A == Answer(p, 3, 4, gcfg.mtu - MtuAdj)
           B == Answer(p, 11, 0, 0)
           many == << <<c, Drop>> >>
           rest == IF gcfg.uso THEN Whole46(p) ELSE Software46(p)
           self == ToSelf4(p)
           cs == Unmapped4(p)
           y == FirstOf(self, FirstOf(cs, rest))
<1>0. p.proto \notin {"error", "reply"} /\ a \in BOOLEAN /\ b \in BOOLEAN /\ c \in BOOLEAN
  BY DEF SegmentTooBig4, Unfit
<1>1. TooBig4(p) = << <<a, A>> >> /\ Expired4(p) = << <<b, B>> >> BY DEF TooBig4, Expired4
<1>2. Plain(TooBig4(p)) /\ Plain(Expired4(p)) /\ Plain(many) /\ Plain(self) /\ Plain(cs)
  BY <1>0, PlainOne, UnmappedFirst DEF TooBig4, Expired4, ToSelf4, Unmapped4
<1>3. (a <=> TooBig(p)) /\ (b <=> p.hops = 1) BY LastHop DEF TooBig
<1>4. Arrive(p, Leaves(rest.writes)) BY Whole46Arrives, Software46Arrives
<1>5. AtOnce(p, A.writes) \/ ~a BY <1>3, AnsweredAtOnce
<1>6. AtOnce(p, B.writes) \/ ~b BY <1>3, AnsweredAtOnce
<1>7. AtOnce(p, y.writes) \/ a \/ b
  <2>1. self = << <<p.to = Tayga, Answer(p, 3, 2, 0)>> >> BY DEF ToSelf4
  <2> HIDE DEF a, b, self, rest
  <2> QED BY <1>3, <1>4, <2>1, AddressedAtOnce
<1>8. Udp46(p) = FirstOf(Expired4(p) \o many \o TooBig4(p) \o self \o cs, rest) BY DEF Udp46
<1>9. ~c BY HandedFits
<1> DEFINE three == Expired4(p) \o many \o TooBig4(p)
<1>10. many = << <<c, Drop>> >> OBVIOUS
<1> HIDE DEF a, b, c, A, B, self, cs, rest, y, many
<1>11. Plain(three) BY <1>2, PlainJoin
<1>12. Udp46(p) = FirstOf(three, y)
  <2> HIDE DEF three
  <2>1. FirstOf(three \o self \o cs, rest) = FirstOf(three, FirstOf(self, FirstOf(cs, rest)))
    BY <1>2, <1>11, ThreeJoined
  <2> QED BY <1>8, <2>1 DEF three, y
<1>13. Udp46(p) = FirstOf(Expired4(p), FirstOf(many, FirstOf(TooBig4(p), y)))
  BY <1>2, <1>12, ThreeJoined
<1>14. \A z : FirstOf(Expired4(p), z) = IF b THEN B ELSE z BY <1>0, <1>1, FirstOfOne
<1>15. \A z : FirstOf(many, z) = z BY <1>0, <1>9, <1>10, FirstOfOne
<1>16. FirstOf(TooBig4(p), y) = IF a THEN A ELSE y BY <1>0, <1>1, FirstOfOne
<1>17. Udp46(p) = IF b THEN B ELSE IF a THEN A ELSE y BY <1>13, <1>14, <1>15, <1>16
<1> QED BY <1>5, <1>6, <1>7, <1>17

\* Cut by tayga, if the addresses allow it.
LEMMA Software64AtOnce ==
  ASSUME NEW p, Handed(p), p.v = 6, ~TooBig(p), p.hops # 1
  PROVE  AtOnce(p, FirstOf(ToSelf6(p), Software64(p)).writes)
<1> DEFINE x == Effect(Written64(p), Df0Segments(p))
           self == ToSelf6(p)
           cs == Unmapped6(p)
<1>1. Software64(p) = FirstOf(cs, x) BY DEF Software64, Written64
<1>2. x.writes = Written64(p) BY DEF Effect
<1>3. Arrive(p, Leaves(x.writes)) BY <1>2, Software64Arrives
<1> HIDE DEF x
<1>4. AtOnce(p, FirstOf(self, FirstOf(cs, x)).writes) BY <1>3, AddressedAtOnce
<1> QED BY <1>1, <1>4

LEMMA Tcp64AtOnce ==
  ASSUME NEW p, Handed(p), p.v = 6
  PROVE  AtOnce(p, Tcp64(p).writes)
<1> DEFINE a == SegmentTooBig6(p)
           b == p.hops <= 1
           c == 20 + p.len > Length16
           A == Answer(p, 2, 0, gcfg.mtu)
           B == Answer(p, 3, 0, 0)
           soft == FirstOf(ToSelf6(p), Software64(p))
           rest == IF Mixed(p) THEN Split64(p) ELSE Whole64(p)
           self == ToSelf6(p)
           cs == Unmapped6(p)
           y == FirstOf(self, FirstOf(cs, rest))
           one == << <<a, A>>, <<b, B>> >>
           two == << <<c, soft>> >>
           three == << <<a, A>>, <<b, B>>, <<c, soft>> >>
<1>0. p.proto \notin {"error", "reply"} /\ a \in BOOLEAN /\ b \in BOOLEAN /\ c \in BOOLEAN
  <2>1. p.proto \in {"tcp", "udp"} BY HandedIs
  <2> QED BY <2>1 DEF SegmentTooBig6
<1>1. Tcp64(p) = FirstOf(three \o self \o cs, rest) BY DEF Tcp64
<1>2. Plain(self) /\ Plain(cs) BY <1>0, PlainOne, UnmappedFirst DEF ToSelf6, Unmapped6
<1>3. (a <=> TooBig(p)) /\ (b <=> p.hops = 1)
  <2>1. p.v # 4 OBVIOUS
  <2> QED BY <2>1, LastHop DEF TooBig
<1>4. Arrive(p, Leaves(rest.writes)) BY Whole64Arrives, Split64Arrives
<1>5. AtOnce(p, A.writes) \/ ~a BY <1>3, AnsweredAtOnce
<1>6. AtOnce(p, B.writes) \/ ~b BY <1>3, AnsweredAtOnce
<1>7. AtOnce(p, soft.writes) \/ a \/ b BY <1>3, Software64AtOnce
<1>8. AtOnce(p, y.writes) \/ a \/ b
  <2> HIDE DEF a, b, rest
  <2> QED BY <1>3, <1>4, AddressedAtOnce
<1> HIDE DEF a, b, c, A, B, soft, self, cs, rest
<1>9. three = one \o two OBVIOUS
<1>10. Plain(one) /\ Plain(two) BY PlainOne, PlainTwo
<1>11. \A z : FirstOf(one, z) = IF a THEN A ELSE IF b THEN B ELSE z BY <1>0, FirstOfTwo
<1>12. FirstOf(two, y) = IF c THEN soft ELSE y BY <1>0, FirstOfOne
<1> HIDE DEF one, two, three, y
<1>13. Plain(three) BY <1>9, <1>10, PlainJoin
<1>14. FirstOf(three \o self \o cs, rest) = FirstOf(three, y) BY <1>2, <1>13, ThreeJoined DEF y
<1>15. FirstOf(three, y) = FirstOf(one, FirstOf(two, y)) BY <1>9, <1>10, FirstOfJoin
<1>16. Tcp64(p) = IF a THEN A ELSE IF b THEN B ELSE IF c THEN soft ELSE y
  BY <1>1, <1>11, <1>12, <1>14, <1>15
<1> QED BY <1>5, <1>6, <1>7, <1>8, <1>16

LEMMA Udp64AtOnce ==
  ASSUME Given, NEW p, Handed(p), p.v = 6, p.proto = "udp"
  PROVE  AtOnce(p, Udp64(p).writes)
<1> DEFINE a == SegmentTooBig6(p)
           b == p.hops <= 1
           c == Unfit(p)
           d == 28 + Segment(p) > Length16
           e == ~gcfg.uso \/ 20 + p.len > Length16 \/ Mixed(p)
           A == Answer(p, 2, 0, gcfg.mtu)
           B == Answer(p, 3, 0, 0)
           soft == FirstOf(ToSelf6(p), Software64(p))
           rest == Whole64(p)
           self == ToSelf6(p)
           cs == Unmapped6(p)
           y == FirstOf(self, FirstOf(cs, rest))
           one == << <<b, B>>, <<c, Drop>> >>
           two == << <<a, A>>, <<d, Drop>> >>
           soon == << <<e, soft>> >>
           four == one \o two
           five == << <<b, B>>, <<c, Drop>>, <<a, A>>, <<d, Drop>>, <<e, soft>> >>
<1>0. /\ p.proto \notin {"error", "reply"} /\ a \in BOOLEAN /\ b \in BOOLEAN /\ c \in BOOLEAN
      /\ d \in BOOLEAN /\ e \in BOOLEAN
  BY DEF SegmentTooBig6, Unfit
<1>1. Udp64(p) = FirstOf(five \o self \o cs, rest) BY DEF Udp64
<1>2. Plain(self) /\ Plain(cs) BY <1>0, PlainOne, UnmappedFirst DEF ToSelf6, Unmapped6
<1>3. (a <=> TooBig(p)) /\ (b <=> p.hops = 1)
  <2>1. p.v # 4 OBVIOUS
  <2> QED BY <2>1, LastHop DEF TooBig
<1>4. ~e => Arrive(p, Leaves(rest.writes)) BY Whole64Arrives
<1>5. AtOnce(p, A.writes) \/ ~a BY <1>3, AnsweredAtOnce
<1>6. AtOnce(p, B.writes) \/ ~b BY <1>3, AnsweredAtOnce
<1>7. AtOnce(p, soft.writes) \/ a \/ b BY <1>3, Software64AtOnce
<1>8. AtOnce(p, y.writes) \/ a \/ b \/ e
  <2> HIDE DEF a, b, e, rest
  <2> QED BY <1>3, <1>4, AddressedAtOnce
<1>9. ~c BY HandedFits
<1>10. ~a => ~d
  <2>1. Segment(p) \in Nat BY HandedIs, WidthIs
  <2>2. gcfg.mtu \in Nat /\ gcfg.mtu <= 65535 BY DEF Given, Length16
  <2>3. a <=> 40 + 8 + Segment(p) > gcfg.mtu BY DEF SegmentTooBig6, Transport
  <2> QED BY <2>1, <2>2, <2>3 DEF Length16
<1> HIDE DEF a, b, c, d, e, A, B, soft, self, cs, rest
<1>11. five = four \o soon OBVIOUS
<1>12. Plain(one) /\ Plain(two) /\ Plain(soon) BY PlainOne, PlainTwo
<1>13. \A z : FirstOf(one, z) = IF b THEN B ELSE IF c THEN Drop ELSE z BY <1>0, FirstOfTwo
<1>14. \A z : FirstOf(two, z) = IF a THEN A ELSE IF d THEN Drop ELSE z BY <1>0, FirstOfTwo
<1>15. FirstOf(soon, y) = IF e THEN soft ELSE y BY <1>0, FirstOfOne
<1> HIDE DEF one, two, soon, five, y
<1>16. Plain(four) BY <1>12, PlainJoin
<1>17. FirstOf(four \o soon, y) = FirstOf(one, FirstOf(two, FirstOf(soon, y)))
  BY <1>12, ThreeJoined DEF four
<1> HIDE DEF four
<1>18. Plain(five) BY <1>11, <1>12, <1>16, PlainJoin
<1>19. FirstOf(five \o self \o cs, rest) = FirstOf(five, y) BY <1>2, <1>18, ThreeJoined DEF y
<1>20. FirstOf(five, y) = FirstOf(one, FirstOf(two, FirstOf(soon, y))) BY <1>11, <1>17
<1>21. Udp64(p) = IF b THEN B ELSE IF a THEN A ELSE IF e THEN soft ELSE y
  BY <1>1, <1>9, <1>10, <1>13, <1>14, <1>15, <1>19, <1>20
<1> QED BY <1>5, <1>6, <1>7, <1>8, <1>21

LEMMA TranslateAtOnce ==
  ASSUME Given, NEW p, Handed(p)
  PROVE  AtOnce(p, Translate(p).writes)
<1>1. p.v \in {4, 6} /\ p.proto \in {"tcp", "udp"} /\ Aggregate(p) BY HandedIs DEF Handed
<1> QED BY <1>1, Tcp46AtOnce, Udp46AtOnce, Tcp64AtOnce, Udp64AtOnce DEF Translate

----------------------------------------------------------------------------
(* One by one and at once *)

\* Nothing leaves if nothing is written.
LEMMA LeavesNone == Leaves(<<>>) = <<>>
<1>1. [i \in DOMAIN <<>> |-> Leaving(<<>>[i])] = <<>>
  <2>1. DOMAIN <<>> = 1..0 OBVIOUS
  <2> QED BY <2>1, EmptySeq
<1>2. FlattenSeq(<<>>) = <<>> BY DEF FlattenSeq
<1> QED BY <1>1, <1>2 DEF Leaves

\* What goes in one piece is one error at most, if it goes no further.
LEMMA RefusedLeaves ==
  ASSUME NEW p, NEW w, Refuses(p, w)
  PROVE  /\ Leaves(w) = w /\ Len(w) = 1 /\ w # <<>>
         /\ \A e \in ToSet(w) : IsError(e) /\ e.to = p.from
<1>1. PICK e : w = <<e>> /\ IsError(e) /\ e.to = p.from BY DEF Refuses
<1>2. Leaves(<<e>>) = <<e>> BY <1>1, LeavesFew DEF Leaving
<1>3. ToSet(<<e>>) = {e} BY PlainOne
<1>4. Len(<<e>>) = 1 /\ <<e>> # <<>> OBVIOUS
<1> QED BY <1>1, <1>2, <1>3, <1>4

\* What the segments become, one after the other.
LEMMA ApartTogether ==
  ASSUME Given, NEW p, Handed(p), Comparable(p)
  PROVE  LET a == FlattenSeq([i \in 1..Count(p) |-> Translate(Segments(p)[i]).writes])
         IN /\ Silent(p) => a = <<>>
            /\ (Blocked(p) /\ ~Silent(p)) \/ (~Blocked(p) /\ TooBig(p)) => a # <<>> /\ IsError(a[1])
            /\ ~Blocked(p) /\ ~TooBig(p) => Arrive(p, a)
<1> DEFINE n == Count(p)
           W(i) == Translate(Segments(p)[i]).writes
           s == [i \in 1..n |-> W(i)]
<1>1. n \in Nat \ {0} BY HandedIs, WidthIs
<1>2. \A i \in 1..n : Apart(p, i, W(i)) BY SegmentApart
<1>3. Silent(p) => Blocked(p) BY DEF Silent, Blocked, Dropped, Unmappable
<1>4. FlattenSeq([i \in 1..Count(p) |-> Translate(Segments(p)[i]).writes]) = FlattenSeq(s)
  OBVIOUS
<1> HIDE DEF W
<1>5. DOMAIN s = 1..n /\ \A i \in 1..n : s[i] = W(i) OBVIOUS
<1> DEFINE S == UNION {{x[1]} : x \in {W(i) : i \in 1..n}}
<1>6. ASSUME NEW i \in 1..n PROVE W(i) \in Seq(S)
  <2>1. W(i) = <<>> \/ \E q : W(i) = <<q>> BY <1>2, <1>3 DEF Apart, Refuses
  <2>2. W(i)[1] \in S OBVIOUS
  <2> HIDE DEF S
  <2>3. CASE W(i) = <<>> BY <2>3
  <2>4. CASE \E q : W(i) = <<q>>
    <3>1. PICK q : W(i) = <<q>> BY <2>4
    <3>2. q \in S BY <2>2, <3>1
    <3> QED BY <3>1, <3>2
  <2> QED BY <2>1, <2>3, <2>4
<1> HIDE DEF S
<1>7. s \in [1..n -> Seq(S)] BY <1>5, <1>6
<1>9. 1 \in 1..n BY <1>1
<1> HIDE DEF s, n
<1>10. /\ s[1] # <<>> => FlattenSeq(s) # <<>> /\ FlattenSeq(s)[1] = s[1][1]
       /\ (\A i \in 1..n : s[i] = <<>>) => FlattenSeq(s) = <<>>
  BY <1>1, <1>7, FlattenStart
<1>11. Silent(p) => FlattenSeq(s) = <<>>
  <2>1. ASSUME Silent(p), NEW i \in 1..n PROVE s[i] = <<>> BY <1>2, <1>5, <2>1 DEF Apart
  <2> QED BY <1>10, <2>1
<1>12. ASSUME (Blocked(p) /\ ~Silent(p)) \/ (~Blocked(p) /\ TooBig(p))
       PROVE  FlattenSeq(s) # <<>> /\ IsError(FlattenSeq(s)[1])
  <2>1. Refuses(p, W(1))
    <3>1. Apart(p, 1, W(1)) BY <1>2, <1>9
    <3> QED BY <1>12, <3>1 DEF Apart
  <2>2. PICK e : s[1] = <<e>> /\ IsError(e) BY <1>5, <1>9, <2>1 DEF Refuses
  <2>3. s[1] # <<>> /\ s[1][1] = e BY <2>2
  <2> QED BY <1>10, <2>2, <2>3
<1>13. ASSUME ~Blocked(p), ~TooBig(p) PROVE Arrive(p, FlattenSeq(s))
  <2> DEFINE x == FlattenSeq(s)
  <2>1. ASSUME NEW i \in 1..n PROVE \E q : s[i] = <<q>> /\ Arrived(p, i, q)
    <3>1. Apart(p, i, W(i)) BY <1>2
    <3>2. \E q : W(i) = <<q>> /\ Arrived(p, i, q) BY <1>13, <3>1 DEF Apart
    <3> QED BY <1>5, <3>2
  <2>2. \A i \in 1..n : Len(s[i]) = 1 BY <2>1
  <2>3. x \in [1..n -> S] /\ \A i \in 1..n : s[i] = <<x[i]>> BY <1>1, <1>7, <2>2, FlattenOnes, SMTT(30)
  <2> HIDE DEF x
  <2>4. ASSUME NEW i \in 1..n PROVE Arrived(p, i, x[i])
    <3>1. PICK q : s[i] = <<q>> /\ Arrived(p, i, q) BY <2>1
    <3>2. <<x[i]>> = <<q>> BY <2>3, <3>1
    <3>3. x[i] = q BY <3>2
    <3> QED BY <3>1, <3>3
  <2>5. x = [i \in 1..n |-> x[i]] BY <2>3
  <2> QED BY <2>4, <2>5 DEF Arrive, n, x
<1> QED BY <1>4, <1>11, <1>12, <1>13

\* An aggregate the kernel may hand over goes as its segments would.
LEMMA SegmentsMatched ==
  ASSUME Given, NEW p, Handed(p), Comparable(p)
  PROVE  LikeSegments(p)
<1> DEFINE n == Count(p)
           w == Translate(p).writes
           a == FlattenSeq([i \in 1..n |-> Translate(Segments(p)[i]).writes])
           b == Leaves(w)
<1>0. p.v \in {4, 6} /\ n \in Nat \ {0} BY HandedIs, WidthIs
<1>1. /\ Silent(p) => a = <<>>
      /\ (Blocked(p) /\ ~Silent(p)) \/ (~Blocked(p) /\ TooBig(p)) => a # <<>> /\ IsError(a[1])
      /\ ~Blocked(p) /\ ~TooBig(p) => Arrive(p, a)
  BY ApartTogether
<1>2. AtOnce(p, w) BY TranslateAtOnce
<1>3. LikeSegments(p) <=>
        IF a # <<>> /\ ~IsError(a[1])
        THEN Len(b) = Len(a) /\ \A i \in DOMAIN a : Anonymous(b[i]) = Anonymous(a[i])
        ELSE /\ Len(b) <= 1 /\ (a # <<>> => b # <<>>)
             /\ \A e \in ToSet(b) : IsError(e) /\ e.to = p.from
  BY DEF LikeSegments, Leaves, Leaving
<1> HIDE DEF a, w
<1>4. CASE Blocked(p) \/ TooBig(p)
  <2>1. ~(a # <<>> /\ ~IsError(a[1])) BY <1>1, <1>4
  <2>2. CASE Refuses(p, w)
    <3>1. Len(b) = 1 /\ b # <<>> /\ \A e \in ToSet(b) : IsError(e) /\ e.to = p.from
      BY <2>2, RefusedLeaves
    <3> HIDE DEF b
    <3> QED BY <1>3, <2>1, <3>1
  <2>3. CASE Silent(p) /\ w = <<>>
    <3>1. b = <<>> /\ a = <<>> BY <1>1, <2>3, LeavesNone
    <3>2. ToSet(<<>>) = {} /\ Len(<<>>) = 0 BY PlainNone
    <3> HIDE DEF b
    <3> QED BY <1>3, <2>1, <3>1, <3>2
  <2> QED BY <1>2, <1>4, <2>2, <2>3 DEF AtOnce
<1>5. CASE ~Blocked(p) /\ ~TooBig(p)
  <2>1. Arrive(p, a) /\ Arrive(p, b) BY <1>1, <1>2, <1>5 DEF AtOnce
  <2> HIDE DEF b
  <2>2. a = [i \in 1..n |-> a[i]] /\ b = [i \in 1..n |-> b[i]] BY <2>1 DEF Arrive
  <2>3. DOMAIN a = 1..n /\ DOMAIN b = 1..n BY <2>2
  <2>4. Len(a) = n /\ Len(b) = n
    <3>1. n \in Nat BY <1>0
    <3> HIDE DEF n
    <3> QED BY <2>2, <2>3, <3>1
  <2>5. \A i \in DOMAIN a : Anonymous(b[i]) = Anonymous(a[i])
    <3>1. ASSUME NEW i \in 1..n PROVE Anonymous(b[i]) = Anonymous(a[i])
      <4>1. Arrived(p, i, a[i]) /\ Arrived(p, i, b[i]) BY <2>1 DEF Arrive
      <4> QED BY <1>0, <4>1, ArrivedSame
    <3> QED BY <2>3, <3>1
  <2>6. a # <<>> /\ ~IsError(a[1])
    <3>1. 1 \in 1..n BY <1>0
    <3>2. Arrived(p, 1, a[1]) BY <2>1, <3>1 DEF Arrive
    <3>3. ~IsError(a[1]) BY <3>2, NoError
    <3>4. a # <<>>
      <4>1. DOMAIN <<>> = {} OBVIOUS
      <4>2. 1 \in DOMAIN a BY <2>3, <3>1
      <4> QED BY <4>1, <4>2
    <3> QED BY <3>3, <3>4
  <2> QED BY <1>3, <2>4, <2>5, <2>6
<1> QED BY <1>4, <1>5

----------------------------------------------------------------------------
(* The theorems *)

LEMMA PathStep == PathInv /\ [Next]_vars => PathInv'
<1> SUFFICES ASSUME PathInv, [Next]_vars PROVE PathInv' OBVIOUS
<1>1. ASSUME NEW f \in Flows, Send(f) PROVE PathInv' BY <1>1, SendKeeps
<1>2. CASE Learn BY <1>2, LearnKeeps
<1>3. CASE Deliver BY <1>3, DeliverKeeps
<1>4. CASE Expire BY <1>4, ExpireKeeps
<1>5. ASSUME NEW w \in Workers, Take(w) PROVE PathInv' BY <1>5, TakeKeeps
<1>6. ASSUME NEW w \in Workers, Write(w) PROVE PathInv' BY <1>6, WriteKeeps
<1>7. ASSUME NEW w \in Workers, Lose(w) PROVE PathInv' BY <1>7, LoseKeeps
<1>8. ASSUME UNCHANGED vars PROVE PathInv'
  <2>1. UNCHANGED <<gcfg, path, flow, tunq, out, net, mail>> BY <1>8 DEF vars
  <2>2. /\ Plain(tunq') /\ \A q \in ToSet(tunq') : Asked(q)
        /\ DOMAIN out' = Workers
        /\ \A w \in Workers : Plain(out'[w]) /\ \A q \in ToSet(out'[w]) : Made(q)
        /\ \A q \in net' : q.what.len \in Int /\ InPlace(q)
        /\ Plain(mail') /\ \A d \in ToSet(mail') : IsError(d) /\ About(d) /\ d.quote.what.flow \in Flows
    BY <2>1 DEF PathInv
  <2> QED BY <2>1, <2>2, HostsStay, PathStays
<1> QED BY <1>1, <1>2, <1>3, <1>4, <1>5, <1>6, <1>7, <1>8 DEF Next, Settled

\* PathInv holds of every state that the hosts, the links and tayga reach.
LEMMA PathAlways == Spec => []PathInv
BY PathStart, PathStep, PTL DEF Spec

\* A host never believes that less fits the path than does (xlate_4to6_icmp_error,
\* xlate_6to4_icmp_error, the errors of xlate_4to6_data, xlate_6to4_data and gso.c).
THEOREM EstimateJustifiedAlways == Spec => []EstimateJustified
<1>1. PathInv => EstimateJustified BY DEF PathInv, Flowing, EstimateJustified
<1> QED BY <1>1, PathAlways, PTL

\* No error is about an error or a reply, and a translated one says of the packet it
\* quotes what the original said (Answer, ErrorTo6, ErrorTo4).
THEOREM ErrorsKeepMeaningAlways == Spec => []ErrorsKeepMeaning
BY KeepsMeaning, PathAlways, PTL

\* Whatever is in the network lies where it says in the packet whose part it is, in
\* units of 8 bytes, and only the last part of a packet reaches its end: also parts
\* of parts, cut by a host, by tayga and by a router (xlate_4to6_data, gso.c).
THEOREM AllInPlaceAlways == Spec => []AllInPlace
<1>1. PathInv => AllInPlace BY DEF PathInv, AllInPlace
<1> QED BY <1>1, PathAlways, PTL

\* An aggregate the kernel hands over leaves tayga, and is cut by the kernel, as its
\* segments would if they came one by one, whatever gso_translate_tcp_4to6,
\* gso_translate_udp_4to6, gso_translate_tcp_6to4 and gso_translate_udp_6to4 choose:
\* one header for all, the last segment apart, or segments cut in software.
THEOREM LikePacketsAlways == Spec => []LikePackets
<1>1. PathInv => LikePackets
  <2> SUFFICES ASSUME PathInv, tunq # <<>>, Aggregate(Head(tunq)), Comparable(Head(tunq))
               PROVE  LikeSegments(Head(tunq))
    BY DEF LikePackets
  <2> DEFINE p == Head(tunq)
  <2>1. Given /\ Asked(p) /\ Aggregate(p) /\ Comparable(p) BY PlainTail DEF PathInv
  <2> HIDE DEF p
  <2>2. Handed(p) BY <2>1, AskedPlaced DEF Handed, Aggregate
  <2>3. LikeSegments(p) BY <2>1, <2>2, SegmentsMatched
  <2> QED BY <2>3 DEF p
<1>2. Spec => []PathInv BY PathAlways
<1> QED BY <1>1, <1>2, PTL
=============================================================================
