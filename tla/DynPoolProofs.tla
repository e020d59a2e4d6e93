--------------------------- MODULE DynPoolProofs ---------------------------
(***************************************************************************)
(* What is proved of the dynamic pool and of its database.                 *)
(***************************************************************************)
EXTENDS DynDatabase, SequenceLemmas

----------------------------------------------------------------------------
(* free_list *)

Nodes == [addr : 0 .. N - 1, count : 0 .. N - 1]

\* Runs that follow one another from free_head to the end of the pool, one for
\* free_head and one for each of the leases A.
Chain(q, A) ==
  /\ q \in Seq(Nodes) /\ q # <<>>
  /\ q[1].addr = 0
  /\ A = {q[i].addr : i \in 2 .. Len(q)}
  /\ \A i \in 1 .. Len(q) :
       q[i].addr + q[i].count + 1 = IF i = Len(q) THEN N ELSE q[i + 1].addr
  /\ \A i, j \in 1 .. Len(q) : i < j => q[i].addr + q[i].count < q[j].addr

LEMMA ChainIs ==
  ASSUME NEW q, NEW A, Chain(q, A)
  PROVE  /\ Len(q) \in Nat \ {0} /\ DOMAIN q = 1 .. Len(q)
         /\ N \in Nat /\ N > 1
         /\ \A i \in 1 .. Len(q) :
              /\ q[i] \in Nodes /\ q[i].addr \in 0 .. N - 1 /\ q[i].count \in 0 .. N - 1
              /\ q[i].addr + q[i].count <= N - 1
              /\ i # 1 => q[i].addr # 0
         /\ A \subseteq Addrs
<1>1. q \in Seq(Nodes) /\ Len(q) \in Nat \ {0} /\ N \in Nat /\ N > 1
  BY LenProperties, EmptySeq, Sizes DEF Chain
<1>2. \A i \in 1 .. Len(q) : q[i] \in Nodes /\ q[i].addr \in 0 .. N - 1 /\ q[i].count \in 0 .. N - 1
  <2>1. \A i \in 1 .. Len(q) : q[i] \in Nodes BY <1>1, ElementOfSeq
  <2> QED BY <2>1 DEF Nodes
<1>3. ASSUME NEW i \in 1 .. Len(q) PROVE q[i].addr + q[i].count <= N - 1
  <2>1. q[i].addr + q[i].count + 1 = IF i = Len(q) THEN N ELSE q[i + 1].addr BY DEF Chain
  <2>2. i # Len(q) => q[i + 1].addr \in 0 .. N - 1 BY <1>1, <1>2
  <2> QED BY <1>1, <1>2, <2>1, <2>2
<1>4. ASSUME NEW i \in 1 .. Len(q), i # 1 PROVE q[i].addr # 0
  <2>1. 1 \in 1 .. Len(q) /\ 1 < i BY <1>1, <1>4
  <2>2. q[1].addr + q[1].count < q[i].addr BY <2>1 DEF Chain
  <2> QED BY <1>1, <1>2, <2>1, <2>2
<1>5. A \subseteq Addrs
  <2>1. \A i \in 2 .. Len(q) : q[i].addr \in Addrs BY <1>1, <1>2, <1>4 DEF Addrs
  <2> QED BY <2>1 DEF Chain
<1> QED BY <1>1, <1>2, <1>3, <1>4, <1>5

\* An address is that of a node, or in one node's run.
LEMMA ChainCovers ==
  ASSUME NEW q, NEW A, Chain(q, A)
  PROVE  /\ \A i \in 1 .. Len(q) : \A a \in Covers(q[i]) : a \in Addrs \ A
         /\ \A a \in Addrs \ A : \E i \in 1 .. Len(q) : a \in Covers(q[i])
<1>1. /\ Len(q) \in Nat \ {0} /\ N \in Nat /\ N > 1
      /\ \A i \in 1 .. Len(q) :
              /\ q[i].addr \in 0 .. N - 1 /\ q[i].count \in 0 .. N - 1
              /\ q[i].addr + q[i].count <= N - 1
  BY ChainIs
<1>2. /\ q[1].addr = 0
      /\ A = {q[i].addr : i \in 2 .. Len(q)}
      /\ \A i \in 1 .. Len(q) :
           q[i].addr + q[i].count + 1 = IF i = Len(q) THEN N ELSE q[i + 1].addr
      /\ \A i, j \in 1 .. Len(q) : i < j => q[i].addr + q[i].count < q[j].addr
  BY DEF Chain
<1>3. ASSUME NEW i \in 1 .. Len(q), NEW a \in Covers(q[i]) PROVE a \in Addrs \ A
  <2>1. a \in q[i].addr + 1 .. q[i].addr + q[i].count BY DEF Covers
  <2>2. a \in Addrs BY <1>1, <2>1 DEF Addrs
  <2>3. ASSUME NEW j \in 2 .. Len(q), q[j].addr = a PROVE FALSE
    <3>1. CASE i < j
      <4>1. q[i].addr + q[i].count < q[j].addr BY <1>1, <1>2, <3>1
      <4> QED BY <1>1, <2>1, <2>3, <4>1
    <3>2. CASE j < i
      <4>1. q[j].addr + q[j].count < q[i].addr BY <1>1, <1>2, <3>2
      <4> QED BY <1>1, <2>1, <2>3, <4>1
    <3>3. CASE i = j BY <1>1, <2>1, <2>3, <3>3
    <3> QED BY <1>1, <3>1, <3>2, <3>3
  <2> QED BY <1>2, <2>2, <2>3
<1>4. ASSUME NEW a \in Addrs \ A PROVE \E i \in 1 .. Len(q) : a \in Covers(q[i])
  <2> DEFINE S == {i \in 1 .. Len(q) : q[i].addr <= a}
  <2>1. a \in 1 .. N - 1 BY DEF Addrs
  <2>2. 1 \in S BY <1>1, <1>2, <2>1
  <2>3. PICK i \in S : \A j \in S : j <= i
    <3>1. S \subseteq 1 .. Len(q) OBVIOUS
    <3>2. S # {} BY <2>2
    <3>3. 1 \in Int /\ Len(q) \in Int BY <1>1
    <3> HIDE DEF S
    <3> QED BY <3>1, <3>2, <3>3, GreatestOf
  <2>4. i \in 1 .. Len(q) /\ q[i].addr <= a OBVIOUS
  <2>5. q[i].addr # a
    <3>1. i \in 2 .. Len(q) => q[i].addr \in A BY <1>2
    <3> QED BY <1>1, <1>2, <2>1, <2>4, <3>1
  <2>6. a <= q[i].addr + q[i].count
    <3>1. CASE i = Len(q)
      <4>1. q[i].addr + q[i].count + 1 = N BY <1>2, <2>4, <3>1
      <4> QED BY <1>1, <2>1, <2>4, <4>1
    <3>2. CASE i # Len(q)
      <4>1. i + 1 \in 1 .. Len(q) /\ ~ (i + 1 <= i) BY <1>1, <2>4, <3>2
      <4>2. i + 1 \notin S BY <2>3, <4>1
      <4>3. ~ (q[i + 1].addr <= a) BY <4>1, <4>2
      <4>4. q[i].addr + q[i].count + 1 = q[i + 1].addr BY <1>2, <2>4, <3>2
      <4> QED BY <1>1, <2>1, <2>4, <4>1, <4>3, <4>4
    <3> QED BY <3>1, <3>2
  <2>7. a \in Covers(q[i]) BY <1>1, <2>1, <2>4, <2>5, <2>6 DEF Covers
  <2> QED BY <2>4, <2>7
<1> QED BY <1>3, <1>4

\* Cutting a run at a free address makes it a lease.
LEMMA SplitKeeps ==
  ASSUME NEW q, NEW A, Chain(q, A), NEW i \in 1 .. Len(q), NEW a \in Covers(q[i])
  PROVE  Chain(Split(q, i, a), A \cup {a})
<1> DEFINE n == Len(q)
           From(k) == q[k].addr
           To(k) == q[k].addr + q[k].count
<1>1. /\ n \in Nat /\ n # 0 /\ N \in Nat /\ N > 1 /\ i \in 1 .. n /\ i \in Int
      /\ q \in Seq(Nodes)
      /\ \A k \in 1 .. n : q[k] \in Nodes /\ q[k].addr \in Int /\ q[k].count \in Int
      /\ q[i].addr >= 0 /\ q[i].addr + q[i].count <= N - 1
  <2>1. Chain(q, A) OBVIOUS
  <2>2. /\ Len(q) \in Nat \ {0} /\ N \in Nat /\ N > 1
        /\ \A k \in 1 .. Len(q) :
             /\ q[k] \in Nodes /\ q[k].addr \in 0 .. N - 1 /\ q[k].count \in 0 .. N - 1
             /\ q[k].addr + q[k].count <= N - 1
    BY <2>1, ChainIs
  <2>3. q \in Seq(Nodes) BY DEF Chain
  <2>4. \A k \in 1 .. Len(q) : q[k].addr \in Int /\ q[k].count \in Int BY <2>2
  <2>5. q[i].addr >= 0 /\ q[i].addr + q[i].count <= N - 1 /\ i \in Int BY <2>2
  <2> QED BY <2>2, <2>3, <2>4, <2>5
<1>2. \A k \in 1 .. n : From(k) \in Int /\ To(k) \in Int BY <1>1
<1>3. /\ From(1) = 0
      /\ A = {From(k) : k \in 2 .. n}
      /\ \A k \in 1 .. n : To(k) + 1 = IF k = n THEN N ELSE From(k + 1)
      /\ \A k, j \in 1 .. n : k < j => To(k) < From(j)
  BY DEF Chain
<1>4. a \in Int /\ From(i) < a /\ a <= To(i) BY <1>1 DEF Covers
<1> DEFINE f == q[i]
           before == Node(f.addr, a - f.addr - 1)
           after == Node(a, f.count - (a - f.addr))
           r == ReplaceAt(q, i, before)
           s == InsertAt(r, i + 1, after)
<1>5. /\ before \in Nodes /\ before.addr = From(i) /\ before.addr + before.count = a - 1
      /\ after \in Nodes /\ after.addr = a /\ after.addr + after.count = To(i)
  <2>1. From(i) \in Int /\ From(i) >= 0 /\ f.count \in Int /\ To(i) = From(i) + f.count /\ To(i) <= N - 1
    BY <1>1
  <2>2. before = [addr |-> From(i), count |-> a - From(i) - 1] BY DEF Node
  <2>3. after = [addr |-> a, count |-> f.count - (a - From(i))] BY DEF Node
  <2> HIDE DEF before, after, From, To, f
  <2>4. /\ before.addr = From(i) /\ before.count = a - From(i) - 1
        /\ after.addr = a /\ after.count = f.count - (a - From(i))
    BY <2>2, <2>3
  <2>5. /\ From(i) \in 0 .. N - 1 /\ a - From(i) - 1 \in 0 .. N - 1
        /\ a \in 0 .. N - 1 /\ f.count - (a - From(i)) \in 0 .. N - 1
    <3>1. N \in Int BY <1>1
    <3> QED BY <1>4, <2>1, <3>1
  <2>6. before \in Nodes /\ after \in Nodes BY <2>2, <2>3, <2>5 DEF Nodes
  <2>7. before.addr + before.count = a - 1 /\ after.addr + after.count = To(i)
    BY <1>4, <2>1, <2>4
  <2> QED BY <2>4, <2>6, <2>7
<1>6. Split(q, i, a) = s BY DEF Split
<1> HIDE DEF before, after
<1>7. /\ r \in Seq(Nodes) /\ Len(r) = n
      /\ \A k \in 1 .. n : r[k] = IF k = i THEN before ELSE q[k]
  BY <1>1, <1>5 DEF ReplaceAt
<1> HIDE DEF r, f
<1>8. /\ s \in Seq(Nodes) /\ Len(s) = n + 1
      /\ \A k \in 1 .. n + 1 :
           s[k] = IF k < i + 1 THEN r[k] ELSE IF k = i + 1 THEN after ELSE r[k - 1]
  <2>1. i + 1 \in 1 .. Len(r) + 1 /\ r \in Seq(Nodes) /\ after \in Nodes BY <1>1, <1>5, <1>7
  <2> DEFINE g == i + 1
  <2>2. g \in 1 .. Len(r) + 1 BY <2>1
  <2> HIDE DEF g
  <2>3. /\ InsertAt(r, g, after) \in Seq(Nodes) /\ Len(InsertAt(r, g, after)) = Len(r) + 1
        /\ \A k \in 1 .. Len(r) + 1 :
             InsertAt(r, g, after)[k] = IF k < g THEN r[k] ELSE IF k = g THEN after ELSE r[k - 1]
    BY <2>1, <2>2, InsertAtIs
  <2> QED BY <1>7, <2>3 DEF g
<1> HIDE DEF s
<1> DEFINE Old(k) == IF k < i + 1 THEN k ELSE k - 1
           From2(k) == s[k].addr
           To2(k) == s[k].addr + s[k].count
<1>9. \A k \in 1 .. n + 1 :
        /\ From2(k) = IF k = i + 1 THEN a ELSE From(Old(k))
        /\ To2(k) = IF k = i THEN a - 1 ELSE To(Old(k))
  <2> SUFFICES ASSUME NEW k \in 1 .. n + 1
               PROVE  /\ From2(k) = IF k = i + 1 THEN a ELSE From(Old(k))
                      /\ To2(k) = IF k = i THEN a - 1 ELSE To(Old(k))
    OBVIOUS
  <2>1. CASE k = i
    <3>1. k < i + 1 /\ k # i + 1 BY <1>1, <2>1
    <3>2. s[k] = before BY <1>1, <1>7, <1>8, <2>1, <3>1
    <3> QED BY <1>5, <2>1, <3>1, <3>2
  <2>2. CASE k = i + 1
    <3>1. ~ (k < i + 1) /\ k # i /\ Old(k) = i BY <1>1, <2>2
    <3>2. s[k] = after BY <1>8, <2>2, <3>1
    <3> HIDE DEF Old
    <3> QED BY <1>5, <2>2, <3>1, <3>2
  <2>3. CASE k < i
    <3>1. k < i + 1 /\ k # i + 1 /\ k # i /\ k \in 1 .. n BY <1>1, <2>3
    <3> QED BY <1>7, <1>8, <3>1
  <2>4. CASE k > i + 1
    <3>1. ~ (k < i + 1) /\ k # i + 1 /\ k # i /\ k - 1 # i /\ k - 1 \in 1 .. n BY <1>1, <2>4
    <3> QED BY <1>7, <1>8, <3>1
  <2> QED BY <1>1, <2>1, <2>2, <2>3, <2>4
<1>10. /\ \A k \in 1 .. n + 1 : k # i + 1 => Old(k) \in 1 .. n
       /\ \A k \in 1 .. n + 1 : k # i => Old(k) \in 1 .. n
       /\ Old(i) = i /\ Old(i + 1) = i
  BY <1>1
<1>11. s # <<>> /\ From2(1) = 0
  <2>1. 1 \in 1 .. n + 1 /\ 1 # i + 1 /\ Old(1) = 1 /\ Len(s) # 0 BY <1>1, <1>8
  <2>2. From2(1) = From(1)
    <3> HIDE DEF From, From2, Old, To, To2
    <3> QED BY <1>9, <2>1
  <2>3. s # <<>> BY <2>1
  <2> QED BY <1>3, <2>2, <2>3
<1> HIDE DEF From, To, From2, To2, n, Old
<1>12. A \cup {a} = {From2(k) : k \in 2 .. n + 1}
  <2>1. ASSUME NEW k \in 2 .. n PROVE \E j \in 2 .. n + 1 : From2(j) = From(k)
    <3>1. CASE k <= i
      <4>1. k \in 2 .. n + 1 /\ k \in 1 .. n + 1 /\ k # i + 1 /\ Old(k) = k BY <1>1, <3>1 DEF Old
      <4> QED BY <1>9, <4>1
    <3>2. CASE k > i
      <4>1. k + 1 \in 2 .. n + 1 /\ k + 1 \in 1 .. n + 1 /\ k + 1 # i + 1 /\ Old(k + 1) = k
        BY <1>1, <3>2 DEF Old
      <4> QED BY <1>9, <4>1
    <3>3. k <= i \/ k > i BY <1>1
    <3> QED BY <3>1, <3>2, <3>3
  <2>2. i + 1 \in 2 .. n + 1 /\ From2(i + 1) = a
    <3>1. i + 1 \in 2 .. n + 1 /\ i + 1 \in 1 .. n + 1 BY <1>1
    <3> QED BY <1>9, <3>1
  <2>3. ASSUME NEW k \in 2 .. n + 1, k # i + 1 PROVE Old(k) \in 2 .. n /\ From2(k) = From(Old(k))
    <3>1. Old(k) \in 2 .. n /\ k \in 1 .. n + 1 BY <1>1, <2>3 DEF Old
    <3> QED BY <1>9, <2>3, <3>1
  <2> QED BY <1>3, <2>1, <2>2, <2>3
<1>13. ASSUME NEW k \in 1 .. n + 1
       PROVE  To2(k) + 1 = IF k = n + 1 THEN N ELSE From2(k + 1)
  <2>1. CASE k = i
    <3>1. k # n + 1 /\ k + 1 \in 1 .. n + 1 BY <1>1, <2>1
    <3>2. From2(k + 1) = a /\ To2(k) = a - 1 BY <1>9, <2>1, <3>1
    <3> QED BY <1>4, <3>1, <3>2
  <2>2. CASE k # i
    <3>1. /\ Old(k) \in 1 .. n
          /\ Old(k) = n <=> k = n + 1
          /\ k # n + 1 => k + 1 \in 1 .. n + 1 /\ k + 1 # i + 1 /\ Old(k + 1) = Old(k) + 1
      BY <1>1, <2>2 DEF Old
    <3>2. To2(k) = To(Old(k)) /\ (k # n + 1 => From2(k + 1) = From(Old(k + 1))) BY <1>9, <2>2, <3>1
    <3> QED BY <1>3, <3>1, <3>2
  <2> QED BY <2>1, <2>2
<1>14. ASSUME NEW k \in 1 .. n + 1, NEW j \in 1 .. n + 1, k < j
       PROVE  To2(k) < From2(j)
  <2>1. CASE k = i /\ j = i + 1
    <3>1. To2(k) = a - 1 /\ From2(j) = a BY <1>9, <2>1
    <3> QED BY <1>4, <3>1
  <2>2. CASE k = i /\ j # i + 1
    <3>1. To2(k) = a - 1 /\ From2(j) = From(Old(j)) BY <1>9, <2>2
    <3>2. Old(j) \in 1 .. n /\ i < Old(j) BY <1>1, <1>14, <2>2 DEF Old
    <3>3. To(i) < From(Old(j)) /\ To(i) \in Int /\ From(Old(j)) \in Int BY <1>1, <1>2, <1>3, <3>2
    <3> QED BY <1>4, <3>1, <3>3
  <2>3. CASE k # i /\ j = i + 1
    <3>1. To2(k) = To(Old(k)) /\ From2(j) = a BY <1>9, <2>3
    <3>2. Old(k) \in 1 .. n /\ Old(k) < i BY <1>1, <1>14, <2>3 DEF Old
    <3>3. To(Old(k)) < From(i) /\ To(Old(k)) \in Int /\ From(i) \in Int BY <1>1, <1>2, <1>3, <3>2
    <3> QED BY <1>4, <3>1, <3>3
  <2>4. CASE k # i /\ j # i + 1
    <3>1. To2(k) = To(Old(k)) /\ From2(j) = From(Old(j)) BY <1>9, <2>4
    <3>2. Old(k) \in 1 .. n /\ Old(j) \in 1 .. n /\ Old(k) < Old(j) BY <1>1, <1>14, <2>4 DEF Old
    <3> QED BY <1>3, <3>1, <3>2
  <2> QED BY <2>1, <2>2, <2>3, <2>4
<1>15. Chain(s, A \cup {a})
  <2>1. s \in Seq(Nodes) /\ Len(s) = n + 1 BY <1>8
  <2> QED BY <2>1, <1>11, <1>12, <1>13, <1>14 DEF Chain, From2, To2
<1> QED BY <1>6, <1>15

\* A lease is given back: its run, and its own address, go to the node before.
LEMMA MergeKeeps ==
  ASSUME NEW q, NEW A, Chain(q, A), NEW a \in A
  PROVE  Chain(Merge(q, a), A \ {a})
<1> DEFINE n == Len(q)
           From(k) == q[k].addr
           To(k) == q[k].addr + q[k].count
<1>1. /\ n \in Nat /\ n # 0 /\ N \in Nat /\ N > 1 /\ DOMAIN q = 1 .. n
      /\ q \in Seq(Nodes)
      /\ \A k \in 1 .. n : /\ q[k] \in Nodes /\ q[k].addr \in 0 .. N - 1 /\ q[k].count \in 0 .. N - 1
                           /\ q[k].addr + q[k].count <= N - 1
  <2>1. Chain(q, A) OBVIOUS
  <2>2. /\ Len(q) \in Nat \ {0} /\ N \in Nat /\ N > 1 /\ DOMAIN q = 1 .. Len(q)
        /\ \A k \in 1 .. Len(q) :
             /\ q[k] \in Nodes /\ q[k].addr \in 0 .. N - 1 /\ q[k].count \in 0 .. N - 1
             /\ q[k].addr + q[k].count <= N - 1
    BY <2>1, ChainIs
  <2>3. q \in Seq(Nodes) BY DEF Chain
  <2> QED BY <2>2, <2>3
<1>2. \A k \in 1 .. n : From(k) \in Int /\ To(k) \in Int BY <1>1
<1>3. /\ From(1) = 0
      /\ A = {From(k) : k \in 2 .. n}
      /\ \A k \in 1 .. n : To(k) + 1 = IF k = n THEN N ELSE From(k + 1)
      /\ \A k, j \in 1 .. n : k < j => To(k) < From(j)
  BY DEF Chain
<1>4. \A k, j \in 1 .. n : k < j => From(k) < From(j)
  <2>1. \A k \in 1 .. n : From(k) <= To(k) BY <1>1
  <2> HIDE DEF From, To
  <2> QED BY <1>2, <1>3, <2>1
<1>5. PICK i \in 2 .. n : /\ From(i) = a
                          /\ i = CHOOSE j \in DOMAIN q : q[j].addr = a
  <2>1. PICK k \in 2 .. n : From(k) = a BY <1>3
  <2>2. k \in DOMAIN q BY <1>1
  <2> DEFINE j == CHOOSE j \in DOMAIN q : q[j].addr = a
  <2>3. j \in DOMAIN q /\ From(j) = a BY <2>1, <2>2
  <2> HIDE DEF From, j
  <2>4. j = k
    <3>1. j \in 1 .. n /\ k \in 1 .. n /\ From(j) = From(k) BY <1>1, <2>1, <2>2, <2>3
    <3>2. ~ (j < k) /\ ~ (k < j) BY <1>2, <1>4, <3>1
    <3> QED BY <1>1, <3>1, <3>2
  <2> QED BY <2>1, <2>4 DEF j, From
<1>6. /\ i \in 1 .. n /\ i - 1 \in 1 .. n /\ i \in Int /\ i - 1 # i /\ i - 1 # n /\ i - 1 + 1 = i
      /\ To(i - 1) + 1 = From(i)
  <2>1. i \in 1 .. n /\ i - 1 \in 1 .. n /\ i \in Int /\ i - 1 # i /\ i - 1 # n /\ i - 1 + 1 = i
    BY <1>1
  <2> HIDE DEF n, From, To
  <2> QED BY <1>3, <2>1
<1> DEFINE both == Node(q[i - 1].addr, q[i - 1].count + q[i].count + 1)
           r == ReplaceAt(q, i - 1, both)
           s == RemoveAt(r, i)
<1>7. Merge(q, a) = s BY <1>5 DEF Merge
<1>8. both \in Nodes /\ both.addr = From(i - 1) /\ both.addr + both.count = To(i)
  <2> DEFINE c == q[i - 1].count
             d == q[i].count
  <2>1. /\ From(i - 1) \in 0 .. N - 1 /\ c \in 0 .. N - 1 /\ d \in 0 .. N - 1
        /\ To(i) <= N - 1 /\ To(i) \in Int
        /\ To(i) = From(i) + d /\ From(i) = From(i - 1) + c + 1
    BY <1>1, <1>6
  <2>2. both = [addr |-> From(i - 1), count |-> c + d + 1] BY DEF Node
  <2> HIDE DEF both, c, d, From, To
  <2>3. both.addr = From(i - 1) /\ both.count = c + d + 1 BY <2>2
  <2>4. c + d + 1 \in 0 .. N - 1
    <3>1. N \in Int BY <1>1
    <3> QED BY <2>1, <3>1
  <2>5. both \in Nodes BY <2>1, <2>2, <2>4 DEF Nodes
  <2>6. both.addr + both.count = To(i) BY <2>1, <2>3
  <2> QED BY <2>3, <2>5, <2>6
<1> HIDE DEF both
<1>9. /\ r \in Seq(Nodes) /\ Len(r) = n
      /\ \A k \in 1 .. n : r[k] = IF k = i - 1 THEN both ELSE q[k]
  BY <1>1, <1>6, <1>8 DEF ReplaceAt
<1> HIDE DEF r
<1>10. /\ s \in Seq(Nodes) /\ Len(s) = n - 1
       /\ \A k \in 1 .. n - 1 : s[k] = IF k < i THEN r[k] ELSE r[k + 1]
  <2>1. i \in 1 .. Len(r) /\ r \in Seq(Nodes) BY <1>6, <1>9
  <2>2. /\ s \in Seq(Nodes) /\ Len(s) = Len(r) - 1
        /\ \A k \in 1 .. Len(r) - 1 : s[k] = IF k < i THEN r[k] ELSE r[k + 1]
    BY <2>1, RemoveAtIs
  <2> QED BY <1>9, <2>2
<1> HIDE DEF s
<1> DEFINE Old(k) == IF k < i THEN k ELSE k + 1
           From2(k) == s[k].addr
           To2(k) == s[k].addr + s[k].count
<1>11. \A k \in 1 .. n - 1 :
         /\ From2(k) = From(Old(k))
         /\ To2(k) = IF k = i - 1 THEN To(i) ELSE To(Old(k))
  <2> SUFFICES ASSUME NEW k \in 1 .. n - 1
               PROVE  /\ From2(k) = From(Old(k))
                      /\ To2(k) = IF k = i - 1 THEN To(i) ELSE To(Old(k))
    OBVIOUS
  <2>1. CASE k = i - 1
    <3>1. k < i /\ k \in 1 .. n BY <1>1, <1>6, <2>1
    <3>2. s[k] = both BY <1>9, <1>10, <2>1, <3>1
    <3> QED BY <1>8, <2>1, <3>1, <3>2
  <2>2. CASE k # i - 1
    <3>1. Old(k) \in 1 .. n /\ Old(k) # i - 1 BY <1>1, <1>6, <2>2
    <3>2. s[k] = r[Old(k)] BY <1>10
    <3> HIDE DEF Old
    <3>3. s[k] = q[Old(k)] BY <1>9, <3>1, <3>2
    <3> QED BY <2>2, <3>3
  <2> QED BY <2>1, <2>2
<1>12. n # 1 /\ n - 1 \in Nat /\ Old(1) = 1 BY <1>1, <1>6
<1>13. s # <<>> /\ From2(1) = 0
  <2>1. Len(s) # 0 /\ 1 \in 1 .. n - 1 BY <1>1, <1>10, <1>12
  <2>2. From2(1) = From(1)
    <3> HIDE DEF From, From2, Old, To, To2
    <3> QED BY <1>11, <1>12, <2>1
  <2>3. s # <<>> BY <2>1
  <2> QED BY <1>3, <2>2, <2>3
<1> HIDE DEF From, To, From2, To2, n, Old
<1>14. A \ {a} = {From2(k) : k \in 2 .. n - 1}
  <2>1. ASSUME NEW k \in 2 .. n, From(k) # a PROVE \E j \in 2 .. n - 1 : From2(j) = From(k)
    <3>1. k # i BY <1>5, <2>1
    <3>2. CASE k < i
      <4>1. k \in 2 .. n - 1 /\ k \in 1 .. n - 1 /\ Old(k) = k BY <1>1, <1>6, <3>2 DEF Old
      <4> QED BY <1>11, <4>1
    <3>3. CASE k > i
      <4>1. k - 1 \in 2 .. n - 1 /\ k - 1 \in 1 .. n - 1 /\ Old(k - 1) = k
        BY <1>1, <1>6, <3>3 DEF Old
      <4> QED BY <1>11, <4>1
    <3>4. k < i \/ k > i BY <1>1, <1>6, <3>1
    <3> QED BY <3>2, <3>3, <3>4
  <2>2. ASSUME NEW k \in 2 .. n - 1 PROVE Old(k) \in 2 .. n /\ From2(k) = From(Old(k)) /\ From(Old(k)) # a
    <3>1. Old(k) \in 2 .. n /\ Old(k) \in 1 .. n /\ k \in 1 .. n - 1 /\ Old(k) # i BY <1>1, <1>6 DEF Old
    <3>2. Old(k) < i \/ i < Old(k) BY <1>1, <1>6, <3>1
    <3>3. From(Old(k)) < From(i) \/ From(i) < From(Old(k)) BY <1>4, <1>6, <3>1, <3>2
    <3>4. From(Old(k)) # From(i) BY <1>2, <1>6, <3>1, <3>3
    <3> QED BY <1>5, <1>11, <3>1, <3>4
  <2> QED BY <1>3, <2>1, <2>2
<1>15. ASSUME NEW k \in 1 .. n - 1
       PROVE  To2(k) + 1 = IF k = n - 1 THEN N ELSE From2(k + 1)
  <2>1. CASE k = i - 1
    <3>1. k = n - 1 <=> i = n BY <1>1, <1>6, <2>1
    <3>2. To2(k) = To(i) BY <1>11, <2>1
    <3>3. k # n - 1 => From2(k + 1) = From(i + 1)
      <4>1. k # n - 1 => k + 1 \in 1 .. n - 1 /\ Old(k + 1) = i + 1 BY <1>1, <1>6, <2>1 DEF Old
      <4> QED BY <1>11, <4>1
    <3> QED BY <1>3, <1>6, <3>1, <3>2, <3>3
  <2>2. CASE k # i - 1
    <3>1. /\ Old(k) \in 1 .. n
          /\ Old(k) = n <=> k = n - 1
          /\ k # n - 1 => k + 1 \in 1 .. n - 1 /\ Old(k + 1) = Old(k) + 1
      BY <1>1, <1>6, <2>2 DEF Old
    <3>2. To2(k) = To(Old(k)) /\ (k # n - 1 => From2(k + 1) = From(Old(k + 1))) BY <1>11, <2>2, <3>1
    <3> QED BY <1>3, <3>1, <3>2
  <2> QED BY <2>1, <2>2
<1>16. ASSUME NEW k \in 1 .. n - 1, NEW j \in 1 .. n - 1, k < j
       PROVE  To2(k) < From2(j)
  <2>1. From2(j) = From(Old(j)) BY <1>11
  <2>2. CASE k = i - 1
    <3>1. To2(k) = To(i) BY <1>11, <2>2
    <3>2. Old(j) \in 1 .. n /\ i < Old(j) BY <1>1, <1>6, <1>16, <2>2 DEF Old
    <3> QED BY <1>3, <1>6, <2>1, <3>1, <3>2
  <2>3. CASE k # i - 1
    <3>1. To2(k) = To(Old(k)) BY <1>11, <2>3
    <3>2. Old(k) \in 1 .. n /\ Old(j) \in 1 .. n /\ Old(k) < Old(j) BY <1>1, <1>6, <1>16, <2>3 DEF Old
    <3> QED BY <1>3, <2>1, <3>1, <3>2
  <2> QED BY <2>2, <2>3
<1>17. Chain(s, A \ {a})
  <2>1. s \in Seq(Nodes) /\ Len(s) = n - 1 BY <1>10
  <2> QED BY <2>1, <1>13, <1>14, <1>15, <1>16 DEF Chain, From2, To2
<1> QED BY <1>7, <1>17

----------------------------------------------------------------------------
(* mapped_list and dormant_list *)

\* Most recently used first, by the last uses use.
Descending(use, q) == \A i, j \in 1 .. Len(q) : i < j => use[q[i]] >= use[q[j]]

\* A lease that joins dormant_list takes its place by its last use.
LEMMA FiledByKeeps ==
  ASSUME NEW use \in [Addrs -> Int], NEW q, NEW a \in Addrs,
         Distinct(q, Addrs), Descending(use, q), a \notin ToSet(q)
  PROVE  /\ Distinct(FiledBy(use, q, a), Addrs)
         /\ ToSet(FiledBy(use, q, a)) = ToSet(q) \cup {a}
         /\ Descending(use, FiledBy(use, q, a))
<1> DEFINE n == Len(q)
<1>1. /\ q \in Seq(Addrs) /\ n \in Nat /\ \A k \in 1 .. n : q[k] \in Addrs
      /\ q # <<>> => n # 0
  BY ElementOfSeq, EmptySeq DEF Distinct
<1>2. use[a] \in Int /\ \A k \in 1 .. n : use[q[k]] \in Int BY <1>1
<1>3. \A k, j \in 1 .. n : k < j => use[q[k]] >= use[q[j]] BY DEF Descending
<1>4. CASE q = <<>> \/ use[Last(q)] >= use[a]
  <2> DEFINE s == Append(q, a)
  <2>1. FiledBy(use, q, a) = s BY <1>4 DEF FiledBy
  <2>2. Distinct(s, Addrs) /\ ToSet(s) = ToSet(q) \cup {a} /\ Len(s) = n + 1 BY DistinctAppend
  <2>3. \A k \in 1 .. n + 1 : s[k] = IF k <= n THEN q[k] ELSE a BY <1>1, AppendProperties
  <2>4. \A k \in 1 .. n : use[q[k]] >= use[a]
    <3> SUFFICES ASSUME NEW k \in 1 .. n PROVE use[q[k]] >= use[a] OBVIOUS
    <3>1. n \in 1 .. n /\ q # <<>> BY <1>1, EmptySeq
    <3>2. use[q[n]] >= use[a] BY <1>4, <3>1 DEF Last
    <3>3. k = n \/ k < n BY <1>1
    <3>4. use[q[k]] >= use[q[n]] BY <1>2, <1>3, <3>1, <3>3
    <3> QED BY <1>2, <3>1, <3>2, <3>4
  <2> HIDE DEF s
  <2>5. ASSUME NEW k \in 1 .. n + 1, NEW j \in 1 .. n + 1, k < j PROVE use[s[k]] >= use[s[j]]
    <3>1. k \in 1 .. n /\ k <= n /\ (j <= n => j \in 1 .. n) BY <1>1, <2>5
    <3> QED BY <1>3, <2>3, <2>4, <2>5, <3>1
  <2>6. Descending(use, s) BY <2>2, <2>5 DEF Descending
  <2> QED BY <2>1, <2>2, <2>6
<1>5. CASE ~ (q = <<>> \/ use[Last(q)] >= use[a])
  <2> DEFINE I == {k \in 1 .. n : use[q[k]] < use[a]}
             i == SelectInSeq(q, LAMBDA b : use[b] < use[a])
             s == InsertAt(q, i, a)
  <2>1. FiledBy(use, q, a) = s BY <1>5 DEF FiledBy
  <2>2. n \in I
    <3>1. n \in 1 .. n BY <1>1, <1>5
    <3>2. use[q[n]] < use[a] BY <1>2, <1>5, <3>1 DEF Last
    <3> QED BY <3>1, <3>2
  <2>3. i = Min(I) BY <2>2 DEF SelectInSeq
  <2> HIDE DEF i
  <2>4. i \in I /\ \A k \in I : i <= k
    <3>1. I \subseteq 1 .. n /\ I # {} BY <2>2
    <3>2. 1 \in Int /\ n \in Int BY <1>1
    <3> HIDE DEF I
    <3>3. Min(I) \in I /\ \A k \in I : Min(I) <= k BY <3>1, <3>2, MinIs
    <3> QED BY <2>3, <3>3
  <2>5. i \in 1 .. n /\ i \in 1 .. n + 1 /\ i \in Int BY <1>1, <2>4
  <2>6. \A k \in 1 .. n : IF k < i THEN use[q[k]] >= use[a] ELSE use[q[k]] <= use[a]
    <3> SUFFICES ASSUME NEW k \in 1 .. n
                 PROVE  IF k < i THEN use[q[k]] >= use[a] ELSE use[q[k]] <= use[a]
      OBVIOUS
    <3>1. CASE k < i
      <4>1. k \notin I BY <2>4, <2>5, <3>1
      <4> QED BY <1>2, <3>1, <4>1
    <3>2. CASE ~ (k < i)
      <4>1. use[q[i]] < use[a] BY <2>4
      <4>2. k = i \/ i < k BY <2>5, <3>2
      <4>3. use[q[i]] >= use[q[k]] BY <1>2, <1>3, <2>5, <4>2
      <4> QED BY <1>2, <2>5, <3>2, <4>1, <4>3
    <3> QED BY <3>1, <3>2
  <2> HIDE DEF I
  <2>7. Distinct(s, Addrs) /\ ToSet(s) = ToSet(q) \cup {a} BY <2>5, DistinctInsert
  <2>8. /\ s \in Seq(Addrs) /\ Len(s) = n + 1
        /\ \A k \in 1 .. n + 1 : s[k] = IF k < i THEN q[k] ELSE IF k = i THEN a ELSE q[k - 1]
    BY <1>1, <2>5, InsertAtIs
  <2> HIDE DEF s
  <2>9. ASSUME NEW k \in 1 .. n + 1, NEW j \in 1 .. n + 1, k < j PROVE use[s[k]] >= use[s[j]]
    <3>1. /\ k < i => k \in 1 .. n /\ s[k] = q[k]
          /\ k = i => s[k] = a
          /\ k > i => k - 1 \in 1 .. n /\ s[k] = q[k - 1] /\ ~ (k - 1 < i)
      BY <1>1, <2>5, <2>8
    <3>2. /\ j < i => j \in 1 .. n /\ s[j] = q[j]
          /\ j = i => s[j] = a
          /\ j > i => j - 1 \in 1 .. n /\ s[j] = q[j - 1] /\ ~ (j - 1 < i)
      BY <1>1, <2>5, <2>8
    <3>3. CASE k < i /\ j < i BY <1>3, <2>9, <3>1, <3>2, <3>3
    <3>4. CASE k < i /\ j = i BY <2>6, <3>1, <3>2, <3>4
    <3>5. CASE k < i /\ j > i
      <4>1. k < j - 1 BY <2>5, <3>5
      <4> QED BY <1>3, <3>1, <3>2, <3>5, <4>1
    <3>6. CASE k = i /\ j > i
      <4>1. use[q[j - 1]] <= use[a] BY <2>6, <3>2, <3>6
      <4> QED BY <1>2, <3>1, <3>2, <3>6, <4>1
    <3>7. CASE k > i /\ j > i
      <4>1. k - 1 < j - 1 BY <2>5, <2>9
      <4> QED BY <1>3, <3>1, <3>2, <3>7, <4>1
    <3>8. \/ k < i /\ (j < i \/ j = i \/ j > i)
          \/ (k = i \/ k > i) /\ j > i
      BY <2>5, <2>9
    <3> QED BY <3>3, <3>4, <3>5, <3>6, <3>7, <3>8
  <2>10. Descending(use, s) BY <2>8, <2>9 DEF Descending
  <2> QED BY <2>1, <2>7, <2>10
<1> QED BY <1>4, <1>5

\* Those(q, A) is the part of q that is in A.
LEMMA ThoseKeeps ==
  ASSUME NEW q, NEW A, Distinct(q, Addrs)
  PROVE  Distinct(Those(q, A), Addrs) /\ ToSet(Those(q, A)) = ToSet(q) \cap A
<1> DEFINE n == Len(q)
           Op(r, i) == IF q[i] \in A THEN Append(r, q[i]) ELSE r
           Ok(r, i) == Distinct(r, Addrs) /\ ToSet(r) = Firsts(q, i) \cap A
           In == [i \in 0 .. n |-> {r \in Seq(Addrs) : Ok(r, i)}]
           step == [i \in 1 .. n |-> [r \in In[i - 1] |-> Op(r, i)]]
           Is(f) == f = [i \in 0 .. n |-> IF i = 0 THEN <<>> ELSE Op(f[i - 1], i)]
<1>1. n \in Nat /\ q \in Seq(Addrs) /\ IsInjective(q) BY LenProperties DEF Distinct
<1>2. \A i \in 1 .. n : /\ i - 1 \in 0 .. n /\ i \in 0 .. n /\ q[i] \in Addrs
                        /\ Firsts(q, i) = Firsts(q, i - 1) \cup {q[i]}
                        /\ q[i] \notin Firsts(q, i - 1)
  BY <1>1, FirstsNext
<1>3. \E g : Iteration(n, In, <<>>, step, g)
  <2>1. ASSUME NEW i \in 1 .. n, NEW r \in In[i - 1] PROVE step[i][r] \in In[i]
    <3>1. r \in Seq(Addrs) /\ Ok(r, i - 1) BY <1>2
    <3>2. Ok(Op(r, i), i)
      <4>1. CASE q[i] \in A
        <5>1. q[i] \notin ToSet(r) /\ q[i] \in Addrs /\ Distinct(r, Addrs) BY <1>2, <3>1
        <5>2. Distinct(Append(r, q[i]), Addrs) /\ ToSet(Append(r, q[i])) = ToSet(r) \cup {q[i]}
          BY <5>1, DistinctAppend
        <5> QED BY <1>2, <3>1, <4>1, <5>2
      <4>2. CASE q[i] \notin A BY <1>2, <3>1, <4>2
      <4> QED BY <4>1, <4>2
    <3>3. Op(r, i) \in Seq(Addrs) BY <3>2 DEF Distinct
    <3>4. step[i][r] = Op(r, i) OBVIOUS
    <3> QED BY <1>2, <3>2, <3>3, <3>4
  <2>2. <<>> \in In[0]
    <3>1. Ok(<<>>, 0) BY DistinctEmpty, FirstsNone
    <3>2. <<>> \in Seq(Addrs) OBVIOUS
    <3>3. 0 \in 0 .. n BY <1>1
    <3> HIDE DEF Ok
    <3> QED BY <3>1, <3>2, <3>3
  <2> HIDE DEF In, step, n
  <2> QED BY <1>1, <2>1, <2>2, Iterates
<1>4. PICK g : Is(g) /\ g[n] \in In[n]
  <2>0. PICK g : Iteration(n, In, <<>>, step, g) BY <1>3
  <2>1. \A i \in 1 .. n : g[i] = Op(g[i - 1], i)
    <3> SUFFICES ASSUME NEW i \in 1 .. n PROVE g[i] = Op(g[i - 1], i) OBVIOUS
    <3>1. g[i - 1] \in In[i - 1] BY <1>2, <2>0 DEF Iteration
    <3>2. g[i] = step[i][g[i - 1]] BY <2>0 DEF Iteration
    <3> HIDE DEF Op, In
    <3> QED BY <3>1, <3>2
  <2>2. \A i \in 0 .. n : i # 0 => i \in 1 .. n BY <1>1
  <2>3. g = [i \in 0 .. n |-> g[i]] /\ g[0] = <<>> /\ g[n] \in In[n]
    BY <1>1, <2>0 DEF Iteration
  <2> HIDE DEF Op, In
  <2>4. Is(g) BY <2>1, <2>2, <2>3
  <2> HIDE DEF Is
  <2> QED BY <2>3, <2>4
<1> DEFINE f == CHOOSE f : Is(f)
<1>5. Is(f) BY <1>4
<1>6. Those(q, A) = f[n] BY DEF Those
<1>7. f[n] = g[n]
  <2> HIDE DEF Op, f, In
  <2>1. \A h : Is(h) => h[0] = <<>> /\ \A i \in 1 .. n : h[i] = Op(h[i - 1], i)
    <3>1. 0 \in 0 .. n /\ \A i \in 1 .. n : i \in 0 .. n /\ i # 0 BY <1>1
    <3> QED BY <3>1
  <2> HIDE DEF Is
  <2>2. f[0] = g[0] /\ \A i \in 1 .. n : f[i] = Op(f[i - 1], i) /\ g[i] = Op(g[i - 1], i)
    BY <1>4, <1>5, <2>1
  <2> HIDE DEF n
  <2> QED BY <1>1, <2>2, SameEnd
<1>8. Ok(Those(q, A), n)
  <2> HIDE DEF f, Is, Ok
  <2> QED BY <1>1, <1>4, <1>6, <1>7
<1>9. Firsts(q, n) \cap A = ToSet(q) \cap A
  <2>1. ToSet(q) = {q[k] : k \in 1 .. n} BY <1>1, ElementsOf
  <2> QED BY <2>1 DEF Firsts
<1> QED BY <1>8, <1>9

\* The leases of q join dormant_list.
LEMMA FiledKeeps ==
  ASSUME NEW q, Distinct(q, Addrs), Distinct(dormant, Addrs),
         ToSet(q) \cap ToSet(dormant) = {},
         last \in [Addrs -> Int], Descending(last, dormant)
  PROVE  /\ Distinct(Filed(q), Addrs)
         /\ ToSet(Filed(q)) = ToSet(dormant) \cup ToSet(q)
         /\ Descending(last, Filed(q))
<1> DEFINE n == Len(q)
           Op(r, i) == FiledBy(last, r, q[i])
           Ok(r, i) == /\ Distinct(r, Addrs)
                       /\ ToSet(r) = ToSet(dormant) \cup Firsts(q, i)
                       /\ Descending(last, r)
           In == [i \in 0 .. n |-> {r \in Seq(Addrs) : Ok(r, i)}]
           step == [i \in 1 .. n |-> [r \in In[i - 1] |-> Op(r, i)]]
           Is(f) == f = [i \in 0 .. n |-> IF i = 0 THEN dormant ELSE Op(f[i - 1], i)]
<1>1. n \in Nat /\ q \in Seq(Addrs) /\ IsInjective(q) BY LenProperties DEF Distinct
<1>2. \A i \in 1 .. n : /\ i - 1 \in 0 .. n /\ i \in 0 .. n /\ q[i] \in Addrs
                        /\ Firsts(q, i) = Firsts(q, i - 1) \cup {q[i]}
                        /\ q[i] \notin Firsts(q, i - 1)
  BY <1>1, FirstsNext
<1>3. \E g : Iteration(n, In, dormant, step, g)
  <2>1. ASSUME NEW i \in 1 .. n, NEW r \in In[i - 1] PROVE step[i][r] \in In[i]
    <3>1. r \in Seq(Addrs) /\ Ok(r, i - 1) BY <1>2
    <3>2. Ok(Op(r, i), i) /\ Op(r, i) \in Seq(Addrs)
      <4>1. q[i] \in ToSet(q)
        <5>1. ToSet(q) = {q[k] : k \in 1 .. n} BY <1>1, ElementsOf
        <5> QED BY <5>1
      <4>2. q[i] \notin ToSet(r) BY <1>2, <3>1, <4>1
      <4>3. q[i] \in Addrs /\ Distinct(r, Addrs) /\ Descending(last, r) BY <1>2, <3>1
      <4>4. /\ Distinct(FiledBy(last, r, q[i]), Addrs)
            /\ ToSet(FiledBy(last, r, q[i])) = ToSet(r) \cup {q[i]}
            /\ Descending(last, FiledBy(last, r, q[i]))
        BY <4>2, <4>3, FiledByKeeps
      <4>5. FiledBy(last, r, q[i]) \in Seq(Addrs) BY <4>4 DEF Distinct
      <4> QED BY <1>2, <3>1, <4>4, <4>5
    <3>3. step[i][r] = Op(r, i) OBVIOUS
    <3> HIDE DEF Ok, Op
    <3> QED BY <1>2, <3>2, <3>3
  <2>2. dormant \in In[0]
    <3>1. Ok(dormant, 0) BY FirstsNone
    <3>2. dormant \in Seq(Addrs) BY DEF Distinct
    <3>3. 0 \in 0 .. n BY <1>1
    <3> HIDE DEF Ok
    <3> QED BY <3>1, <3>2, <3>3
  <2> HIDE DEF In, step, n
  <2> QED BY <1>1, <2>1, <2>2, Iterates
<1>4. PICK g : Is(g) /\ g[n] \in In[n]
  <2>0. PICK g : Iteration(n, In, dormant, step, g) BY <1>3
  <2>1. \A i \in 1 .. n : g[i] = Op(g[i - 1], i)
    <3> SUFFICES ASSUME NEW i \in 1 .. n PROVE g[i] = Op(g[i - 1], i) OBVIOUS
    <3>1. g[i - 1] \in In[i - 1] BY <1>2, <2>0 DEF Iteration
    <3>2. g[i] = step[i][g[i - 1]] BY <2>0 DEF Iteration
    <3> HIDE DEF Op, In
    <3> QED BY <3>1, <3>2
  <2>2. \A i \in 0 .. n : i # 0 => i \in 1 .. n BY <1>1
  <2>3. g = [i \in 0 .. n |-> g[i]] /\ g[0] = dormant /\ g[n] \in In[n]
    BY <1>1, <2>0 DEF Iteration
  <2> HIDE DEF Op, In
  <2>4. Is(g) BY <2>1, <2>2, <2>3
  <2> HIDE DEF Is
  <2> QED BY <2>3, <2>4
<1> DEFINE f == CHOOSE f : Is(f)
<1>5. Is(f) BY <1>4
<1>6. Filed(q) = f[n] BY DEF Filed
<1>7. f[n] = g[n]
  <2> HIDE DEF Op, f, In
  <2>1. \A h : Is(h) => h[0] = dormant /\ \A i \in 1 .. n : h[i] = Op(h[i - 1], i)
    <3>1. 0 \in 0 .. n /\ \A i \in 1 .. n : i \in 0 .. n /\ i # 0 BY <1>1
    <3> QED BY <3>1
  <2> HIDE DEF Is
  <2>2. f[0] = g[0] /\ \A i \in 1 .. n : f[i] = Op(f[i - 1], i) /\ g[i] = Op(g[i - 1], i)
    BY <1>4, <1>5, <2>1
  <2> HIDE DEF n
  <2> QED BY <1>1, <2>2, SameEnd
<1>8. Ok(Filed(q), n)
  <2> HIDE DEF f, Is, Ok
  <2> QED BY <1>1, <1>4, <1>6, <1>7
<1>9. Firsts(q, n) = ToSet(q)
  <2>1. ToSet(q) = {q[k] : k \in 1 .. n} BY <1>1, ElementsOf
  <2> QED BY <2>1 DEF Firsts
<1> QED BY <1>8, <1>9

\* The runs of the leases of q are given back.
LEMMA FreedKeeps ==
  ASSUME NEW q, NEW A, Distinct(q, Addrs), Chain(free, A), ToSet(q) \subseteq A
  PROVE  Chain(Freed(q), A \ ToSet(q))
<1> DEFINE n == Len(q)
           Op(r, i) == Merge(r, q[i])
           Ok(r, i) == Chain(r, A \ Firsts(q, i))
           In == [i \in 0 .. n |-> {r \in Seq(Nodes) : Ok(r, i)}]
           step == [i \in 1 .. n |-> [r \in In[i - 1] |-> Op(r, i)]]
           Is(f) == f = [i \in 0 .. n |-> IF i = 0 THEN free ELSE Op(f[i - 1], i)]
<1>1. n \in Nat /\ q \in Seq(Addrs) /\ IsInjective(q) BY LenProperties DEF Distinct
<1>2. \A i \in 1 .. n : /\ i - 1 \in 0 .. n /\ i \in 0 .. n /\ q[i] \in Addrs
                        /\ Firsts(q, i) = Firsts(q, i - 1) \cup {q[i]}
                        /\ q[i] \notin Firsts(q, i - 1)
  BY <1>1, FirstsNext
<1>3. \E g : Iteration(n, In, free, step, g)
  <2>1. ASSUME NEW i \in 1 .. n, NEW r \in In[i - 1] PROVE step[i][r] \in In[i]
    <3>1. r \in Seq(Nodes) /\ Ok(r, i - 1) BY <1>2
    <3>2. Ok(Op(r, i), i) /\ Op(r, i) \in Seq(Nodes)
      <4>1. q[i] \in ToSet(q)
        <5>1. ToSet(q) = {q[k] : k \in 1 .. n} BY <1>1, ElementsOf
        <5> QED BY <5>1
      <4>2. q[i] \in A \ Firsts(q, i - 1) BY <1>2, <4>1
      <4>3. Chain(r, A \ Firsts(q, i - 1)) BY <3>1
      <4>4. Chain(Merge(r, q[i]), (A \ Firsts(q, i - 1)) \ {q[i]}) BY <4>2, <4>3, MergeKeeps
      <4>5. (A \ Firsts(q, i - 1)) \ {q[i]} = A \ Firsts(q, i) BY <1>2
      <4>6. Chain(Merge(r, q[i]), A \ Firsts(q, i)) BY <4>4, <4>5
      <4>7. Merge(r, q[i]) \in Seq(Nodes) BY <4>6 DEF Chain
      <4> QED BY <4>6, <4>7
    <3>3. step[i][r] = Op(r, i) OBVIOUS
    <3> HIDE DEF Ok, Op
    <3> QED BY <1>2, <3>2, <3>3
  <2>2. free \in In[0]
    <3>1. Ok(free, 0)
      <4>1. A \ Firsts(q, 0) = A BY FirstsNone
      <4> QED BY <4>1
    <3>2. free \in Seq(Nodes) BY DEF Chain
    <3>3. 0 \in 0 .. n BY <1>1
    <3> HIDE DEF Ok
    <3> QED BY <3>1, <3>2, <3>3
  <2> HIDE DEF In, step, n
  <2> QED BY <1>1, <2>1, <2>2, Iterates
<1>4. PICK g : Is(g) /\ g[n] \in In[n]
  <2>0. PICK g : Iteration(n, In, free, step, g) BY <1>3
  <2>1. \A i \in 1 .. n : g[i] = Op(g[i - 1], i)
    <3> SUFFICES ASSUME NEW i \in 1 .. n PROVE g[i] = Op(g[i - 1], i) OBVIOUS
    <3>1. g[i - 1] \in In[i - 1] BY <1>2, <2>0 DEF Iteration
    <3>2. g[i] = step[i][g[i - 1]] BY <2>0 DEF Iteration
    <3> HIDE DEF Op, In
    <3> QED BY <3>1, <3>2
  <2>2. \A i \in 0 .. n : i # 0 => i \in 1 .. n BY <1>1
  <2>3. g = [i \in 0 .. n |-> g[i]] /\ g[0] = free /\ g[n] \in In[n]
    BY <1>1, <2>0 DEF Iteration
  <2> HIDE DEF Op, In
  <2>4. Is(g) BY <2>1, <2>2, <2>3
  <2> HIDE DEF Is
  <2> QED BY <2>3, <2>4
<1> DEFINE f == CHOOSE f : Is(f)
<1>5. Is(f) BY <1>4
<1>6. Freed(q) = f[n] BY DEF Freed
<1>7. f[n] = g[n]
  <2> HIDE DEF Op, f, In
  <2>1. \A h : Is(h) => h[0] = free /\ \A i \in 1 .. n : h[i] = Op(h[i - 1], i)
    <3>1. 0 \in 0 .. n /\ \A i \in 1 .. n : i \in 0 .. n /\ i # 0 BY <1>1
    <3> QED BY <3>1
  <2> HIDE DEF Is
  <2>2. f[0] = g[0] /\ \A i \in 1 .. n : f[i] = Op(f[i - 1], i) /\ g[i] = Op(g[i - 1], i)
    BY <1>4, <1>5, <2>1
  <2> HIDE DEF n
  <2> QED BY <1>1, <2>2, SameEnd
<1>8. Ok(Freed(q), n)
  <2> HIDE DEF f, Is, Ok
  <2> QED BY <1>1, <1>4, <1>6, <1>7
<1>9. Firsts(q, n) = ToSet(q)
  <2>1. ToSet(q) = {q[k] : k \in 1 .. n} BY <1>1, ElementsOf
  <2> QED BY <2>1 DEF Firsts
<1> QED BY <1>8, <1>9

----------------------------------------------------------------------------
(* The inductive invariant *)

\* A lease is in one of the lists, once.
ListsApart ==
  /\ Distinct(mapped, Addrs) /\ Distinct(dormant, Addrs)
  /\ ToSet(mapped) \cap ToSet(dormant) = {}

\* The leases are the addresses with a host, and a host has no two of them.
Holders ==
  /\ host \in [Addrs -> Hosts \cup {NoHost}]
  /\ \A a \in Addrs : a \in Leased <=> host[a] # NoHost
  /\ \A a, b \in Leased : host[a] = host[b] => a = b

\* Nothing was used in the future, or less recently than the lease itself says;
\* only a mapped lease has a cache entry.
Clocks ==
  /\ last \in [Addrs -> Time] /\ entry \in [Addrs -> Time \cup {NoEntry}]
  /\ \A a \in Addrs :
       /\ last[a] <= now
       /\ a \notin Leased => last[a] = 0
       /\ entry[a] # NoEntry => a \in ToSet(mapped) /\ last[a] <= entry[a] /\ entry[a] <= now

PoolInv ==
  /\ conf \in Configs /\ now \in Time /\ pending \in BOOLEAN
  /\ Chain(free, Leased) /\ ListsApart /\ Holders /\ Clocks /\ Descending(last, dormant)

\* Times are numbers, and NoEntry is none.
LEMMA Clock == Time \subseteq Int /\ Time \subseteq Nat /\ NoEntry \notin Time /\ NoHost \notin Hosts /\ 0 \in Time
<1>1. MaxTime \in Nat /\ NoEntry \notin Int BY Sizes, Names
<1> QED BY <1>1, Names DEF Time

LEMMA PoolInit == Init => PoolInv
<1> SUFFICES ASSUME Init PROVE PoolInv OBVIOUS
<1> USE DEF Init
<1>1. now \in Time /\ conf \in Configs /\ pending \in BOOLEAN BY Names
<1>2. mapped = <<>> /\ dormant = <<>> /\ Leased = {}
  <2>1. mapped = <<>> /\ dormant = <<>> BY DEF EmptyPool
  <2> QED BY <2>1, DistinctEmpty DEF Leased
<1>3. ListsApart BY <1>2, DistinctEmpty DEF ListsApart
<1>4. Descending(last, dormant) BY <1>2 DEF Descending
<1>5. Holders
  <2>1. host = [a \in Addrs |-> NoHost] BY DEF EmptyPool
  <2> QED BY <1>2, <2>1 DEF Holders
<1>6. Clocks
  <2>1. last = [a \in Addrs |-> 0] /\ entry = [a \in Addrs |-> NoEntry] BY DEF EmptyPool
  <2>2. now >= 0 BY <1>1, Clock DEF Time
  <2> QED BY <1>1, <1>2, <2>1, <2>2, Clock DEF Clocks
<1>7. Chain(free, Leased)
  <2>1. free = <<[addr |-> 0, count |-> N - 1]>> BY DEF EmptyPool, Node
  <2> DEFINE node == [addr |-> 0, count |-> N - 1]
  <2>2. N \in Nat /\ N > 1 BY Sizes
  <2>3. node \in Nodes /\ node.addr = 0 /\ node.count = N - 1 BY <2>2 DEF Nodes
  <2> HIDE DEF node
  <2>4. free = <<node>> BY <2>1 DEF node
  <2>5. free \in Seq(Nodes) /\ Len(free) = 1 /\ free[1] = node /\ free # <<>> BY <2>3, <2>4
  <2>6. {free[i].addr : i \in 2 .. Len(free)} = {} BY <2>5
  <2>7. \A i \in 1 .. Len(free) :
          free[i].addr + free[i].count + 1 = IF i = Len(free) THEN N ELSE free[i + 1].addr
    BY <2>2, <2>3, <2>5
  <2>8. \A i, j \in 1 .. Len(free) : i < j => free[i].addr + free[i].count < free[j].addr
    BY <2>5
  <2>9. free[1].addr = 0 BY <2>3, <2>5
  <2> QED BY <1>2, <2>5, <2>6, <2>7, <2>8, <2>9 DEF Chain
<1> QED BY <1>1, <1>3, <1>4, <1>5, <1>6, <1>7 DEF PoolInv

----------------------------------------------------------------------------
(* Lookups *)

\* What the three ways to assign an address have in common.
LEMMA ActivateKeeps ==
  ASSUME PoolInv, NEW h \in Hosts, NEW a \in Addrs, Activate(a, h),
         a \notin ToSet(mapped), \A b \in Leased : host[b] = h => b = a,
         Distinct(dormant', Addrs), ToSet(dormant') = ToSet(dormant) \ {a},
         Descending(last, dormant'),
         Chain(free', Leased \cup {a}), pending' \in BOOLEAN
  PROVE  PoolInv' /\ ToSet(mapped') = ToSet(mapped) \cup {a}
<1> USE DEF PoolInv
<1>1. /\ mapped' = <<a>> \o mapped /\ host' = [host EXCEPT ![a] = h]
      /\ last' = [last EXCEPT ![a] = now] /\ conf' = conf /\ now' = now
  BY DEF Activate
<1>2. PICK e \in {now, NoEntry} : entry' = [entry EXCEPT ![a] = e] BY DEF Activate
<1>3. Distinct(mapped', Addrs) /\ ToSet(mapped') = ToSet(mapped) \cup {a}
  <2>1. Distinct(<<a>>, Addrs) /\ ToSet(<<a>>) = {a} BY DistinctOne
  <2>2. Distinct(mapped, Addrs) /\ ToSet(<<a>>) \cap ToSet(mapped) = {} BY <2>1 DEF ListsApart
  <2>3. /\ Distinct(<<a>> \o mapped, Addrs)
        /\ ToSet(<<a>> \o mapped) = ToSet(<<a>>) \cup ToSet(mapped)
    BY <2>1, <2>2, DistinctConcat
  <2> QED BY <1>1, <2>1, <2>3
<1>4. Leased' = Leased \cup {a} BY <1>3 DEF Leased
<1>5. ListsApart'
  <2>1. ToSet(mapped') \cap ToSet(dormant') = {} BY <1>3 DEF ListsApart
  <2> QED BY <1>3, <2>1 DEF ListsApart
<1>6. Holders'
  <2>1. host' \in [Addrs -> Hosts \cup {NoHost}] BY <1>1 DEF Holders
  <2>2. \A b \in Addrs : host'[b] = IF b = a THEN h ELSE host[b] BY <1>1 DEF Holders
  <2>3. \A b \in Addrs : b \in Leased' <=> host'[b] # NoHost BY <1>4, <2>2, Clock DEF Holders
  <2>4. Leased \subseteq Addrs
    <3>1. Chain(free, Leased) OBVIOUS
    <3> QED BY <3>1, ChainIs
  <2>5. \A b, c \in Leased' : host'[b] = host'[c] => b = c BY <1>4, <2>2, <2>4 DEF Holders
  <2> QED BY <2>1, <2>3, <2>5 DEF Holders
<1>7. Clocks'
  <2>1. last' \in [Addrs -> Time] /\ entry' \in [Addrs -> Time \cup {NoEntry}]
    BY <1>1, <1>2 DEF Clocks
  <2>2. \A b \in Addrs : /\ last'[b] = IF b = a THEN now ELSE last[b]
                         /\ entry'[b] = IF b = a THEN e ELSE entry[b]
    BY <1>1, <1>2 DEF Clocks
  <2>3. now \in Int BY Clock
  <2>4. ASSUME NEW b \in Addrs
        PROVE  /\ last'[b] <= now'
               /\ b \notin Leased' => last'[b] = 0
               /\ entry'[b] # NoEntry => b \in ToSet(mapped') /\ last'[b] <= entry'[b] /\ entry'[b] <= now'
    <3>1. CASE b = a BY <1>1, <1>2, <1>3, <1>4, <2>2, <2>3, <3>1
    <3>2. CASE b # a BY <1>1, <1>3, <1>4, <2>2, <3>2 DEF Clocks
    <3> QED BY <3>1, <3>2
  <2> QED BY <2>1, <2>4 DEF Clocks
<1>8. Descending(last', dormant')
  <2>1. /\ DOMAIN dormant' = 1 .. Len(dormant')
        /\ \A i \in 1 .. Len(dormant') : dormant'[i] \in ToSet(dormant') /\ dormant'[i] \in Addrs
    <3>1. dormant' \in Seq(Addrs) BY DEF Distinct
    <3>2. /\ ToSet(dormant') = {dormant'[i] : i \in 1 .. Len(dormant')} /\ ToSet(dormant') \subseteq Addrs
          /\ DOMAIN dormant' = 1 .. Len(dormant')
      BY <3>1, ElementsOf
    <3> QED BY <3>2
  <2>2. \A b \in Addrs : b # a => last'[b] = last[b] BY <1>1 DEF Clocks
  <2>3. \A i \in 1 .. Len(dormant') : last'[dormant'[i]] = last[dormant'[i]] BY <2>1, <2>2
  <2> QED BY <2>3 DEF Descending
<1>9. conf' \in Configs /\ now' \in Time BY <1>1
<1>10. Chain(free', Leased') BY <1>4
<1> QED BY <1>3, <1>5, <1>6, <1>7, <1>8, <1>9, <1>10

\* The members of a list are its elements, each at one place.
LEMMA Members ==
  ASSUME NEW q, Distinct(q, Addrs)
  PROVE  /\ q \in Seq(Addrs) /\ Len(q) \in Nat /\ DOMAIN q = 1 .. Len(q)
         /\ ToSet(q) = {q[i] : i \in 1 .. Len(q)} /\ ToSet(q) \subseteq Addrs
         /\ q = <<>> <=> ToSet(q) = {}
         /\ \A i, j \in 1 .. Len(q) : q[i] = q[j] => i = j
<1>1. q \in Seq(Addrs) BY DEF Distinct
<1>2. /\ q \in Seq(Addrs) /\ Len(q) \in Nat /\ DOMAIN q = 1 .. Len(q)
      /\ ToSet(q) = {q[i] : i \in 1 .. Len(q)} /\ ToSet(q) \subseteq Addrs
      /\ q = <<>> <=> ToSet(q) = {}
  BY <1>1, ElementsOf
<1> QED BY <1>2 DEF Distinct, IsInjective

\* The lease that Reactivate takes.
LEMMA Own ==
  ASSUME PoolInv, NEW h \in Hosts, Dormant(h) # {}
  PROVE  LET i == SelectInSeq(dormant, LAMBDA b : host[b] = h)
         IN i \in 1 .. Len(dormant) /\ host[dormant[i]] = h
<1> DEFINE i == SelectInSeq(dormant, LAMBDA b : host[b] = h)
           n == Len(dormant)
           I == {k \in 1 .. n : host[dormant[k]] = h}
<1>1. Distinct(dormant, Addrs) BY DEF PoolInv, ListsApart
<1>2. n \in Nat /\ ToSet(dormant) = {dormant[k] : k \in 1 .. n} BY <1>1, Members
<1>3. I # {} BY <1>2 DEF Dormant
<1>4. i = Min(I) BY <1>3 DEF SelectInSeq
<1> HIDE DEF i
<1>5. Min(I) \in I
  <2>1. I \subseteq 1 .. n /\ 1 \in Int /\ n \in Int BY <1>2
  <2> HIDE DEF I
  <2> QED BY <1>3, <2>1, MinIs
<1>6. i \in 1 .. n /\ host[dormant[i]] = h BY <1>4, <1>5
<1> QED BY <1>6 DEF i

LEMMA ReactivateKeeps ==
  ASSUME PoolInv, NEW h \in Hosts, Reactivate(h)
  PROVE  /\ PoolInv' /\ Leased' = Leased
         /\ \E a \in Dormant(h) : Activate(a, h) /\ ToSet(mapped') = ToSet(mapped) \cup {a}
                                  /\ ToSet(dormant') = ToSet(dormant) \ {a}
<1> USE DEF PoolInv
<1>1. PICK i \in 1 .. Len(dormant) :
        /\ host[dormant[i]] = h /\ Activate(dormant[i], h) /\ dormant' = RemoveAt(dormant, i)
  <2> DEFINE i == SelectInSeq(dormant, LAMBDA b : host[b] = h)
  <2>1. Dormant(h) # {} BY DEF Reactivate
  <2>2. i \in 1 .. Len(dormant) /\ host[dormant[i]] = h BY <2>1, Own
  <2>3. Activate(dormant[i], h) /\ dormant' = RemoveAt(dormant, i) BY DEF Reactivate
  <2> HIDE DEF i
  <2> QED BY <2>2, <2>3
<1> DEFINE a == dormant[i]
<1>2. Distinct(dormant, Addrs) BY DEF ListsApart
<1>3. Distinct(dormant', Addrs) /\ ToSet(dormant') = ToSet(dormant) \ {a} BY <1>1, <1>2, DistinctRemove
<1>4. a \in ToSet(dormant) /\ a \in Addrs /\ a \in Leased BY <1>2, Members DEF Leased
<1>5. a \notin ToSet(mapped) BY <1>4 DEF ListsApart
<1>6. \A b \in Leased : host[b] = h => b = a BY <1>1, <1>4 DEF Holders
<1>7. Descending(last, dormant')
  <2> DEFINE n == Len(dormant)
  <2>1. dormant \in Seq(Addrs) /\ n \in Nat BY <1>2, Members
  <2>2. /\ Len(dormant') = n - 1
        /\ \A k \in 1 .. n - 1 : dormant'[k] = IF k < i THEN dormant[k] ELSE dormant[k + 1]
    BY <1>1, <2>1, RemoveAtIs
  <2> DEFINE At(k) == IF k < i THEN k ELSE k + 1
  <2>3. \A k, j \in 1 .. n - 1 : k < j => At(k) \in 1 .. n /\ At(j) \in 1 .. n /\ At(k) < At(j)
    BY <2>1
  <2>4. \A k \in 1 .. n - 1 : dormant'[k] = dormant[At(k)] BY <2>2
  <2> HIDE DEF At
  <2>5. \A k, j \in 1 .. n : k < j => last[dormant[k]] >= last[dormant[j]] BY DEF Descending
  <2> HIDE DEF n
  <2>6. \A k, j \in 1 .. n - 1 : k < j => last[dormant'[k]] >= last[dormant'[j]] BY <2>3, <2>4, <2>5
  <2> QED BY <2>2, <2>6 DEF Descending
<1>8. Chain(free', Leased \cup {a}) /\ pending' \in BOOLEAN
  <2>1. Leased \cup {a} = Leased BY <1>4
  <2>2. free' = free /\ pending' = pending BY DEF Reactivate
  <2> QED BY <2>1, <2>2
<1> HIDE DEF a, PoolInv
<1>9. Activate(a, h) BY <1>1 DEF a
<1>10. PoolInv' /\ ToSet(mapped') = ToSet(mapped) \cup {a}
  BY <1>3, <1>4, <1>5, <1>6, <1>7, <1>8, <1>9, ActivateKeeps
<1>11. a \in Dormant(h) BY <1>1, <1>4 DEF Dormant, a
<1>12. Leased' = Leased BY <1>3, <1>4, <1>10 DEF Leased
<1> QED BY <1>3, <1>9, <1>10, <1>11, <1>12

\* The address that AssignFree takes is free.
LEMMA SearchFinds ==
  ASSUME PoolInv, NEW h \in Hosts, NEW p \in Search(h)
  PROVE  p.run \in 1 .. Len(free) /\ p.addr \in Covers(free[p.run]) /\ p.addr \notin conf.v4
<1> USE DEF PoolInv
<1>1. PICK low, high : p \in Scan(low, high) BY DEF Search
<1> DEFINE runs == {i \in DOMAIN free : Usable(i, low, high) # {}}
           r == Min(runs)
<1>2. runs # {} BY <1>1 DEF Scan
<1>3. p = [run |-> r, addr |-> Min(Usable(r, low, high))] BY <1>1, <1>2 DEF Scan
<1>4. /\ Len(free) \in Nat \ {0} /\ DOMAIN free = 1 .. Len(free)
      /\ \A i \in 1 .. Len(free) : free[i].addr \in 0 .. N - 1 /\ free[i].count \in 0 .. N - 1
  <2>1. Chain(free, Leased) OBVIOUS
  <2> QED BY <2>1, ChainIs
<1>5. r \in runs
  <2>1. runs \subseteq 1 .. Len(free) /\ 1 \in Int /\ Len(free) \in Int BY <1>4
  <2> HIDE DEF runs
  <2> QED BY <1>2, <2>1, MinIs
<1>6. r \in 1 .. Len(free) /\ Usable(r, low, high) # {} BY <1>4, <1>5
<1> HIDE DEF r, runs
<1>7. Min(Usable(r, low, high)) \in Usable(r, low, high)
  <2> DEFINE l == free[r].addr + 1
             u == free[r].addr + free[r].count
  <2>1. l \in Int /\ u \in Int BY <1>4, <1>6
  <2>2. Usable(r, low, high) \subseteq l .. u BY DEF Usable, Covers
  <2> HIDE DEF l, u
  <2> QED BY <1>6, <2>1, <2>2, MinIs
<1>8. p.run = r /\ p.addr = Min(Usable(r, low, high)) BY <1>3
<1> QED BY <1>6, <1>7, <1>8 DEF Usable

LEMMA AssignFreeKeeps ==
  ASSUME PoolInv, NEW h \in Hosts, AssignFree(h)
  PROVE  /\ PoolInv' /\ pending' = TRUE
         /\ \E a \in Addrs \ Leased : /\ Activate(a, h) /\ ToSet(mapped') = ToSet(mapped) \cup {a}
                                      /\ dormant' = dormant /\ Leased' = Leased \cup {a}
<1>1. PICK p \in Search(h) : Activate(p.addr, h) /\ free' = Split(free, p.run, p.addr)
  BY DEF AssignFree
<1> DEFINE a == p.addr
<1>2. Chain(free, Leased) /\ Distinct(dormant, Addrs) /\ Descending(last, dormant)
  BY DEF PoolInv, ListsApart
<1>3. p.run \in 1 .. Len(free) /\ a \in Covers(free[p.run]) BY SearchFinds
<1>4. a \in Addrs \ Leased BY <1>2, <1>3, ChainCovers
<1>5. Chain(free', Leased \cup {a}) BY <1>1, <1>2, <1>3, SplitKeeps
<1>6. dormant' = dormant /\ pending' = TRUE /\ Unknown(h) /\ Dormant(h) = {} BY DEF AssignFree
<1>7. a \notin ToSet(mapped) /\ ToSet(dormant) = ToSet(dormant) \ {a} BY <1>4 DEF Leased
<1>8. \A b \in Leased : host[b] = h => b = a BY <1>6 DEF Unknown, Mapped, Dormant, Leased
<1>9. Activate(a, h) BY <1>1
<1> HIDE DEF a
<1>10. Distinct(dormant', Addrs) /\ Descending(last, dormant') /\ ToSet(dormant') = ToSet(dormant) \ {a}
       /\ pending' \in BOOLEAN
  BY <1>2, <1>6, <1>7
<1>11. PoolInv' /\ ToSet(mapped') = ToSet(mapped) \cup {a}
  BY <1>4, <1>5, <1>7, <1>8, <1>9, <1>10, ActivateKeeps
<1>12. Leased' = Leased \cup {a} BY <1>6, <1>11 DEF Leased
<1> QED BY <1>4, <1>6, <1>9, <1>11, <1>12

LEMMA ReassignKeeps ==
  ASSUME PoolInv, NEW h \in Hosts, Reassign(h)
  PROVE  /\ PoolInv' /\ pending' = TRUE /\ Leased' = Leased
         /\ Len(dormant) \in 1 .. Len(dormant)
         /\ LET a == dormant[Len(dormant)]
            IN /\ a \in ToSet(dormant) /\ Activate(a, h)
               /\ ToSet(mapped') = ToSet(mapped) \cup {a} /\ ToSet(dormant') = ToSet(dormant) \ {a}
<1> DEFINE n == Len(dormant)
           a == dormant[n]
<1>1. /\ Chain(free, Leased) /\ Distinct(dormant, Addrs) /\ Descending(last, dormant)
      /\ ToSet(mapped) \cap ToSet(dormant) = {}
  BY DEF PoolInv, ListsApart
<1>2. dormant # <<>> /\ dormant' = Front(dormant) /\ free' = free /\ pending' = TRUE BY DEF Reassign
<1>3. /\ Distinct(dormant', Addrs) /\ Len(dormant') = n - 1
      /\ a \in ToSet(dormant) /\ a \in Addrs /\ ToSet(dormant') = ToSet(dormant) \ {a}
  BY <1>1, <1>2, DistinctFront DEF Last
<1>4. a \notin ToSet(mapped) /\ a \in Leased BY <1>1, <1>3 DEF Leased
<1>5. \A b \in Leased : host[b] = h => b = a BY DEF Reassign, Unknown, Mapped, Dormant, Leased
<1>6. n \in 1 .. n /\ dormant \in Seq(Addrs)
  <2>1. n \in Nat /\ n # 0 /\ dormant \in Seq(Addrs) BY <1>1, <1>2, Members, EmptySeq
  <2> QED BY <2>1
<1>7. Descending(last, dormant')
  <2>1. dormant' = SubSeq(dormant, 1, n - 1) BY <1>2 DEF Front
  <2>2. 1 \in 1 .. n + 1 /\ n - 1 \in 0 .. n /\ 1 <= n - 1 + 1 BY <1>6
  <2>3. \A k \in 1 .. (n - 1 - 1 + 1) : dormant'[k] = dormant[1 + k - 1]
    BY <1>6, <2>1, <2>2, PartOf
  <2>4. \A k \in 1 .. n - 1 : dormant'[k] = dormant[k] /\ k \in 1 .. n BY <1>6, <2>3
  <2> QED BY <1>1, <1>3, <2>4 DEF Descending
<1>8. Leased \cup {a} = Leased BY <1>4
<1>9. Activate(a, h) BY DEF Reassign, Last
<1> HIDE DEF a
<1>10. Chain(free', Leased \cup {a}) /\ pending' \in BOOLEAN BY <1>1, <1>2, <1>8
<1>11. PoolInv' /\ ToSet(mapped') = ToSet(mapped) \cup {a}
  BY <1>3, <1>4, <1>5, <1>7, <1>9, <1>10, ActivateKeeps
<1>12. Leased' = Leased BY <1>3, <1>8, <1>11 DEF Leased
<1> QED BY <1>2, <1>3, <1>6, <1>9, <1>11, <1>12 DEF a

\* Neither the lists nor the hosts change, only when mapped leases were used.
LEMMA UseKeeps ==
  ASSUME PoolInv, UNCHANGED <<conf, now, free, mapped, dormant, host, pending>>,
         last' \in [Addrs -> Time], entry' \in [Addrs -> Time \cup {NoEntry}],
         \A a \in Addrs :
           \/ last'[a] = last[a] /\ entry'[a] = entry[a]
           \/ /\ a \in ToSet(mapped) /\ last'[a] <= now
              /\ entry'[a] # NoEntry => last'[a] <= entry'[a] /\ entry'[a] <= now
  PROVE  PoolInv'
<1> USE DEF PoolInv
<1>1. Leased' = Leased BY DEF Leased
<1>2. Chain(free', Leased') /\ ListsApart' BY <1>1 DEF ListsApart
<1>3. Holders' BY <1>1 DEF Holders
<1>4. Clocks'
  <2>1. ASSUME NEW a \in Addrs
        PROVE  /\ last'[a] <= now'
               /\ a \notin Leased' => last'[a] = 0
               /\ entry'[a] # NoEntry => a \in ToSet(mapped') /\ last'[a] <= entry'[a] /\ entry'[a] <= now'
    <3>1. CASE last'[a] = last[a] /\ entry'[a] = entry[a] BY <1>1, <3>1 DEF Clocks
    <3>2. CASE a \in ToSet(mapped)
      <4>1. a \in Leased BY <3>2 DEF Leased
      <4> QED BY <1>1, <3>2, <4>1 DEF Clocks
    <3> QED BY <3>1, <3>2
  <2> QED BY <2>1 DEF Clocks
<1>5. Descending(last', dormant')
  <2>1. Distinct(dormant, Addrs) BY DEF ListsApart
  <2>2. \A i \in 1 .. Len(dormant) : dormant[i] \in ToSet(dormant) /\ dormant[i] \in Addrs
    BY <2>1, Members
  <2>3. \A i \in 1 .. Len(dormant) : last'[dormant[i]] = last[dormant[i]]
    BY <2>2 DEF ListsApart
  <2> QED BY <2>3 DEF Descending
<1> QED BY <1>2, <1>3, <1>4, <1>5

LEMMA AnswerKeeps ==
  ASSUME PoolInv, NEW a \in Addrs, Answer(a) \/ Hit(a) \/ AgeOut(a)
  PROVE  PoolInv' /\ UNCHANGED <<free, mapped, dormant, host, pending>>
<1>1. /\ last \in [Addrs -> Time] /\ entry \in [Addrs -> Time \cup {NoEntry}]
      /\ entry[a] # NoEntry => a \in ToSet(mapped) /\ last[a] <= entry[a] /\ entry[a] <= now
      /\ now \in Time /\ now \in Int /\ NoEntry \notin Time /\ last[a] \in Int /\ last[a] <= now
  BY Clock DEF PoolInv, Clocks
<1>2. UNCHANGED <<conf, now, free, mapped, dormant, host, pending>> BY DEF Answer, Hit, AgeOut
<1>3. CASE Answer(a)
  <2>1. PICK e \in {now, NoEntry} : entry' = [entry EXCEPT ![a] = e] BY <1>3 DEF Answer
  <2>2. last' = [last EXCEPT ![a] = now] /\ a \in ToSet(mapped) BY <1>3 DEF Answer
  <2>3. last' \in [Addrs -> Time] /\ entry' \in [Addrs -> Time \cup {NoEntry}] BY <1>1, <2>1, <2>2
  <2>4. \A b \in Addrs : \/ b # a /\ last'[b] = last[b] /\ entry'[b] = entry[b]
                         \/ b = a /\ last'[b] = now /\ entry'[b] = e
    BY <1>1, <2>1, <2>2
  <2>5. \A b \in Addrs :
           \/ last'[b] = last[b] /\ entry'[b] = entry[b]
           \/ /\ b \in ToSet(mapped) /\ last'[b] <= now
              /\ entry'[b] # NoEntry => last'[b] <= entry'[b] /\ entry'[b] <= now
    BY <1>1, <2>2, <2>4
  <2> QED BY <1>2, <2>3, <2>5, UseKeeps
<1>4. CASE Hit(a)
  <2>1. last' = last /\ entry' = [entry EXCEPT ![a] = now] /\ entry[a] # NoEntry BY <1>4 DEF Hit
  <2>2. last' \in [Addrs -> Time] /\ entry' \in [Addrs -> Time \cup {NoEntry}] BY <1>1, <2>1
  <2>3. \A b \in Addrs :
           \/ last'[b] = last[b] /\ entry'[b] = entry[b]
           \/ /\ b \in ToSet(mapped) /\ last'[b] <= now
              /\ entry'[b] # NoEntry => last'[b] <= entry'[b] /\ entry'[b] <= now
    BY <1>1, <2>1
  <2> QED BY <1>2, <2>2, <2>3, UseKeeps
<1>5. CASE AgeOut(a)
  <2>1. /\ last' = [last EXCEPT ![a] = entry[a]] /\ entry' = [entry EXCEPT ![a] = NoEntry]
        /\ entry[a] # NoEntry
    BY <1>5 DEF AgeOut
  <2>2. last' \in [Addrs -> Time] /\ entry' \in [Addrs -> Time \cup {NoEntry}] BY <1>1, <2>1
  <2>3. \A b \in Addrs :
           \/ last'[b] = last[b] /\ entry'[b] = entry[b]
           \/ /\ b \in ToSet(mapped) /\ last'[b] <= now
              /\ entry'[b] # NoEntry => last'[b] <= entry'[b] /\ entry'[b] <= now
    BY <1>1, <2>1
  <2> QED BY <1>2, <2>2, <2>3, UseKeeps
<1> QED BY <1>2, <1>3, <1>4, <1>5

----------------------------------------------------------------------------
(* The ageing pass *)

\* What the pass does to the leases: the idle ones leave mapped_list, the
\* expired ones G the pool, and the others keep what they have.
Aged(G) ==
  /\ ToSet(mapped') = ToSet(mapped) \ Resting
  /\ ToSet(dormant') = (ToSet(dormant) \cup Resting) \ G
  /\ G \subseteq ToSet(dormant) \cup Resting
  /\ \A a \in G : last[a] + MaxLease < now
  /\ \A a \in ToSet(dormant') : last[a] + MaxLease >= now
  /\ host' = [a \in Addrs |-> IF a \in G THEN NoHost ELSE host[a]]
  /\ last' = [a \in Addrs |-> IF a \in G THEN 0 ELSE last[a]]
  /\ entry' = entry

LEMMA AgeDoes ==
  ASSUME PoolInv, Age
  PROVE  \E G : /\ Aged(G) /\ Chain(free', Leased \ G)
                /\ Distinct(mapped', Addrs) /\ Distinct(dormant', Addrs)
                /\ Descending(last, dormant')
<1>1. /\ Chain(free, Leased) /\ Distinct(mapped, Addrs) /\ Distinct(dormant, Addrs)
      /\ ToSet(mapped) \cap ToSet(dormant) = {} /\ Descending(last, dormant)
      /\ last \in [Addrs -> Time] /\ now \in Int /\ MaxLease \in Int
  BY Clock, Sizes DEF PoolInv, ListsApart, Clocks
<1>2. last \in [Addrs -> Int] BY <1>1, Clock
<1> DEFINE rest == Those(mapped, Resting)
           rested == Filed(rest)
           n == Len(rested)
           K == {k \in 1 .. n : last[rested[k]] + MaxLease >= now}
           kept == SelectLastInSeq(rested, LAMBDA a : last[a] + MaxLease >= now)
           gone == SubSeq(rested, kept + 1, n)
<1>3. /\ mapped' = Those(mapped, Addrs \ Resting)
      /\ dormant' = SubSeq(rested, 1, kept)
      /\ free' = Freed(Reverse(gone))
      /\ host' = [a \in Addrs |-> IF a \in ToSet(gone) THEN NoHost ELSE host[a]]
      /\ last' = [a \in Addrs |-> IF a \in ToSet(gone) THEN 0 ELSE last[a]]
      /\ entry' = entry
  BY DEF Age
<1>4. kept = IF K # {} THEN Max(K) ELSE 0 BY DEF SelectLastInSeq
<1> HIDE DEF kept, rest
<1>5. Distinct(rest, Addrs) /\ ToSet(rest) = Resting
  <2>1. Distinct(rest, Addrs) /\ ToSet(rest) = ToSet(mapped) \cap Resting BY <1>1, ThoseKeeps DEF rest
  <2> QED BY <2>1 DEF Resting
<1>6. Distinct(mapped', Addrs) /\ ToSet(mapped') = ToSet(mapped) \ Resting
  <2>1. Distinct(mapped', Addrs) /\ ToSet(mapped') = ToSet(mapped) \cap (Addrs \ Resting)
    BY <1>1, <1>3, ThoseKeeps
  <2>2. ToSet(mapped) \subseteq Addrs BY <1>1, Members
  <2> QED BY <2>1, <2>2
<1>7. /\ Distinct(rested, Addrs) /\ ToSet(rested) = ToSet(dormant) \cup Resting
      /\ Descending(last, rested)
  <2>1. ToSet(rest) \cap ToSet(dormant) = {} BY <1>1, <1>5 DEF Resting
  <2>2. /\ Distinct(Filed(rest), Addrs) /\ ToSet(Filed(rest)) = ToSet(dormant) \cup ToSet(rest)
        /\ Descending(last, Filed(rest))
    BY <1>1, <1>2, <1>5, <2>1, FiledKeeps
  <2> QED BY <1>5, <2>2
<1> HIDE DEF rested
<1>8. /\ n \in Nat /\ rested \in Seq(Addrs) /\ ToSet(rested) = {rested[k] : k \in 1 .. n}
      /\ \A k \in 1 .. n : rested[k] \in Addrs /\ last[rested[k]] \in Int
  <2>1. n \in Nat /\ rested \in Seq(Addrs) /\ ToSet(rested) = {rested[k] : k \in 1 .. n}
    BY <1>7, Members
  <2>2. \A k \in 1 .. n : rested[k] \in Addrs BY <2>1, ElementOfSeq
  <2> QED BY <1>2, <2>1, <2>2
<1>9. /\ kept \in 0 .. n
      /\ \A k \in 1 .. n : IF k <= kept THEN last[rested[k]] + MaxLease >= now
                                        ELSE last[rested[k]] + MaxLease < now
  <2>1. CASE K = {}
    <3>1. kept = 0 BY <1>4, <2>1
    <3>2. \A k \in 1 .. n : ~ (last[rested[k]] + MaxLease >= now) /\ ~ (k <= 0) BY <2>1
    <3>3. \A k \in 1 .. n : last[rested[k]] + MaxLease < now BY <1>1, <1>8, <3>2
    <3> QED BY <1>8, <3>1, <3>2, <3>3
  <2>2. CASE K # {}
    <3>1. kept \in K /\ \A k \in K : k <= kept
      <4>1. K \subseteq 1 .. n /\ 1 \in Int /\ n \in Int BY <1>8
      <4> HIDE DEF K
      <4>2. Max(K) \in K /\ \A k \in K : k <= Max(K) BY <2>2, <4>1, MaxIs
      <4> QED BY <1>4, <2>2, <4>2
    <3>2. kept \in 1 .. n /\ last[rested[kept]] + MaxLease >= now BY <3>1
    <3>3. ASSUME NEW k \in 1 .. n, k <= kept PROVE last[rested[k]] + MaxLease >= now
      <4>1. k = kept \/ k < kept BY <3>2, <3>3
      <4>2. last[rested[k]] >= last[rested[kept]] BY <1>7, <1>8, <3>2, <4>1 DEF Descending
      <4> QED BY <1>1, <1>8, <3>2, <4>2
    <3>4. ASSUME NEW k \in 1 .. n, ~ (k <= kept) PROVE last[rested[k]] + MaxLease < now
      <4>1. k \notin K BY <3>1, <3>4
      <4>2. ~ (last[rested[k]] + MaxLease >= now) BY <4>1
      <4> QED BY <1>1, <1>8, <4>2
    <3> QED BY <3>2, <3>3, <3>4
  <2> QED BY <2>1, <2>2
<1> DEFINE young == SubSeq(rested, 1, kept)
<1>10. /\ Distinct(young, Addrs) /\ Len(young) = kept /\ \A k \in 1 .. kept : young[k] = rested[k]
       /\ Distinct(gone, Addrs) /\ Len(gone) = n - kept /\ \A k \in 1 .. n - kept : gone[k] = rested[kept + k]
       /\ ToSet(young) \cap ToSet(gone) = {} /\ ToSet(young) \cup ToSet(gone) = ToSet(rested)
  BY <1>7, <1>9, DistinctCut
<1>11. young = dormant' BY <1>3
<1> DEFINE G == ToSet(gone)
<1> HIDE DEF gone, K, young
<1>12. \A a \in G : last[a] + MaxLease < now
  <2>1. G = {gone[k] : k \in 1 .. n - kept} BY <1>10, Members
  <2>2. ASSUME NEW k \in 1 .. n - kept PROVE last[gone[k]] + MaxLease < now
    <3>1. kept + k \in 1 .. n /\ ~ (kept + k <= kept) BY <1>8, <1>9
    <3> QED BY <1>9, <1>10, <3>1
  <2> QED BY <2>1, <2>2
<1>13. \A a \in ToSet(young) : last[a] + MaxLease >= now
  <2>1. ToSet(young) = {young[k] : k \in 1 .. kept} BY <1>10, Members
  <2>2. \A k \in 1 .. kept : k \in 1 .. n /\ k <= kept BY <1>8, <1>9
  <2> QED BY <1>9, <1>10, <2>1, <2>2
<1>14. Descending(last, young)
  <2>1. \A k \in 1 .. kept : k \in 1 .. n BY <1>8, <1>9
  <2> QED BY <1>7, <1>10, <2>1 DEF Descending
<1>15. Aged(G)
  <2>1. ToSet(young) = ToSet(rested) \ G /\ G \subseteq ToSet(rested) BY <1>10
  <2> QED BY <1>3, <1>6, <1>7, <1>11, <1>12, <1>13, <2>1 DEF Aged
<1>16. Chain(free', Leased \ G)
  <2>1. Distinct(Reverse(gone), Addrs) /\ ToSet(Reverse(gone)) = G BY <1>10, DistinctReverse
  <2>2. G \subseteq Leased
    <3>1. G \subseteq ToSet(dormant) \cup Resting BY <1>15 DEF Aged
    <3> QED BY <3>1 DEF Leased, Resting
  <2> DEFINE r == Reverse(gone)
  <2> HIDE DEF r
  <2>3. Chain(Freed(r), Leased \ ToSet(r)) BY <1>1, <2>1, <2>2, FreedKeeps DEF r
  <2>4. free' = Freed(r) /\ ToSet(r) = G BY <1>3, <2>1 DEF r
  <2> QED BY <2>3, <2>4
<1> HIDE DEF G
<1> QED BY <1>6, <1>10, <1>11, <1>14, <1>15, <1>16

LEMMA AgeKeeps ==
  ASSUME PoolInv, Age, UNCHANGED <<conf, now>>, pending' \in BOOLEAN
  PROVE  PoolInv' /\ Leased' \subseteq Leased /\ \E G : Aged(G)
<1>1. PICK G : /\ Aged(G) /\ Chain(free', Leased \ G)
               /\ Distinct(mapped', Addrs) /\ Distinct(dormant', Addrs)
               /\ Descending(last, dormant')
  BY AgeDoes
<1> USE DEF PoolInv
<1>2. Distinct(mapped, Addrs) /\ Distinct(dormant, Addrs) /\ ToSet(mapped) \cap ToSet(dormant) = {}
  BY DEF ListsApart
<1>3. /\ ToSet(mapped') = ToSet(mapped) \ Resting
      /\ ToSet(dormant') = (ToSet(dormant) \cup Resting) \ G
      /\ G \subseteq ToSet(dormant) \cup Resting
      /\ host' = [a \in Addrs |-> IF a \in G THEN NoHost ELSE host[a]]
      /\ last' = [a \in Addrs |-> IF a \in G THEN 0 ELSE last[a]]
      /\ entry' = entry
  BY <1>1 DEF Aged
<1>4. Resting \subseteq ToSet(mapped) /\ \A a \in Resting : entry[a] = NoEntry
  BY DEF Resting, Idle
<1>5. Leased' = Leased \ G BY <1>2, <1>3, <1>4 DEF Leased
<1>6. ListsApart' BY <1>1, <1>2, <1>3, <1>4 DEF ListsApart
<1>7. Holders'
  <2>1. host' \in [Addrs -> Hosts \cup {NoHost}] BY <1>3 DEF Holders
  <2>2. \A a \in Addrs : a \in Leased' <=> host'[a] # NoHost BY <1>3, <1>5 DEF Holders
  <2>3. Leased \subseteq Addrs
    <3>1. ToSet(mapped) \subseteq Addrs /\ ToSet(dormant) \subseteq Addrs BY <1>2, Members
    <3> QED BY <3>1 DEF Leased
  <2>4. \A a, b \in Leased' : host'[a] = host'[b] => a = b BY <1>3, <1>5, <2>3 DEF Holders
  <2> QED BY <2>1, <2>2, <2>4 DEF Holders
<1>8. Clocks'
  <2>1. last' \in [Addrs -> Time] BY <1>3, Clock DEF Clocks
  <2>2. ASSUME NEW a \in Addrs
        PROVE  /\ last'[a] <= now'
               /\ a \notin Leased' => last'[a] = 0
               /\ entry'[a] # NoEntry => a \in ToSet(mapped') /\ last'[a] <= entry'[a] /\ entry'[a] <= now'
    <3>1. now \in Nat BY Clock
    <3>2. CASE a \in G
      <4>1. entry[a] = NoEntry BY <1>2, <1>3, <1>4, <3>2 DEF Clocks
      <4> QED BY <1>3, <3>1, <3>2, <4>1
    <3>3. CASE a \notin G
      <4>1. entry[a] # NoEntry => a \in ToSet(mapped') BY <1>3, <1>4 DEF Clocks
      <4> QED BY <1>3, <1>5, <3>3, <4>1 DEF Clocks
    <3> QED BY <3>2, <3>3
  <2> QED BY <1>3, <2>1, <2>2 DEF Clocks
<1>9. Descending(last', dormant')
  <2>1. \A i \in 1 .. Len(dormant') : dormant'[i] \in ToSet(dormant') /\ dormant'[i] \in Addrs
    BY <1>1, Members
  <2>2. \A i \in 1 .. Len(dormant') : last'[dormant'[i]] = last[dormant'[i]] BY <1>3, <2>1
  <2> QED BY <1>1, <2>2 DEF Descending
<1>10. Chain(free', Leased') BY <1>1, <1>5
<1>11. Leased' \subseteq Leased BY <1>5
<1> QED BY <1>1, <1>6, <1>7, <1>8, <1>9, <1>10, <1>11

----------------------------------------------------------------------------
(* The search *)

\* A scan gives the lowest of the usable free addresses in low..high-1.
LEMMA ScanIs ==
  ASSUME PoolInv, NEW low \in Int, NEW high \in Int
  PROVE  LET F == {a \in FreeUsable : low <= a /\ a < high}
         IN {p.addr : p \in Scan(low, high)} = {a \in F : \A b \in F : a <= b}
<1> DEFINE F == {a \in FreeUsable : low <= a /\ a < high}
           n == Len(free)
           U(i) == Usable(i, low, high)
           runs == {i \in DOMAIN free : U(i) # {}}
           r == Min(runs)
           m == Min(U(r))
<1>1. /\ Chain(free, Leased) /\ n \in Nat \ {0} /\ DOMAIN free = 1 .. n
      /\ \A i \in 1 .. n : free[i].addr \in Int /\ free[i].count \in Int
      /\ \A i, j \in 1 .. n : i < j => free[i].addr + free[i].count < free[j].addr
      /\ \A i \in 1 .. n : \A a \in Covers(free[i]) : a \in Addrs \ Leased
      /\ \A a \in Addrs \ Leased : \E i \in 1 .. n : a \in Covers(free[i])
  <2>1. Chain(free, Leased) BY DEF PoolInv
  <2>2. \A i, j \in 1 .. n : i < j => free[i].addr + free[i].count < free[j].addr BY <2>1 DEF Chain
  <2>3. \A i \in 1 .. n : free[i].addr \in 0 .. N - 1 /\ free[i].count \in 0 .. N - 1 BY <2>1, ChainIs
  <2>4. /\ \A i \in 1 .. n : \A a \in Covers(free[i]) : a \in Addrs \ Leased
        /\ \A a \in Addrs \ Leased : \E i \in 1 .. n : a \in Covers(free[i])
    BY <2>1, ChainCovers
  <2>5. n \in Nat \ {0} /\ DOMAIN free = 1 .. n BY <2>1, ChainIs
  <2> QED BY <2>1, <2>2, <2>3, <2>4, <2>5
<1>2. /\ \A i \in 1 .. n : U(i) \subseteq F
      /\ \A a \in F : \E i \in 1 .. n : a \in U(i)
  BY <1>1 DEF FreeUsable, Usable
<1>3. \A i \in 1 .. n : /\ U(i) \subseteq (free[i].addr + 1) .. (free[i].addr + free[i].count)
                        /\ free[i].addr + 1 \in Int /\ free[i].addr + free[i].count \in Int
  BY <1>1 DEF Usable, Covers
<1>4. CASE runs = {}
  <2>1. Scan(low, high) = {} BY <1>4 DEF Scan
  <2>2. F = {} BY <1>1, <1>2, <1>4
  <2> QED BY <2>1, <2>2
<1>5. CASE runs # {}
  <2>1. Scan(low, high) = {[run |-> r, addr |-> m]} BY <1>5 DEF Scan
  <2>2. {p.addr : p \in Scan(low, high)} = {m} BY <2>1
  <2>3. r \in 1 .. n /\ U(r) # {} /\ \A j \in 1 .. n : U(j) # {} => r <= j
    <3>1. runs \subseteq 1 .. n /\ 1 \in Int /\ n \in Int BY <1>1
    <3>2. r \in runs /\ \A j \in runs : r <= j
      <4> HIDE DEF runs
      <4> QED BY <1>5, <3>1, MinIs
    <3> QED BY <1>1, <3>2
  <2> HIDE DEF r, runs
  <2>4. m \in U(r) /\ \A b \in U(r) : m <= b
    <3> DEFINE l == free[r].addr + 1
               u == free[r].addr + free[r].count
    <3>1. l \in Int /\ u \in Int /\ U(r) \subseteq l .. u BY <1>3, <2>3
    <3> HIDE DEF l, u, U
    <3> QED BY <2>3, <3>1, MinIs
  <2> HIDE DEF m
  <2>5. ASSUME NEW b \in F PROVE m <= b
    <3>1. PICK j \in 1 .. n : b \in U(j) BY <1>2
    <3>2. r <= j BY <2>3, <3>1
    <3>3. CASE r = j BY <2>4, <3>1, <3>3
    <3>4. CASE r < j
      <4>1. free[r].addr + free[r].count < free[j].addr BY <1>1, <2>3, <3>4
      <4>2. m \in Int /\ m <= free[r].addr + free[r].count BY <1>3, <2>3, <2>4
      <4>3. b \in Int /\ free[j].addr + 1 <= b BY <1>3, <3>1
      <4>4. free[j].addr \in Int /\ free[r].addr + free[r].count \in Int BY <1>1, <2>3
      <4> QED BY <4>1, <4>2, <4>3, <4>4
    <3>5. r = j \/ r < j BY <1>1, <2>3, <3>2
    <3> QED BY <3>3, <3>4, <3>5
  <2>6. m \in F BY <1>2, <2>3, <2>4
  <2>7. F \subseteq Int BY Sizes DEF FreeUsable, Addrs
  <2> HIDE DEF F
  <2>8. {a \in F : \A b \in F : a <= b} = {m}
    <3>1. ASSUME NEW a \in F, \A b \in F : a <= b PROVE a = m
      <4>1. a <= m /\ m <= a /\ a \in Int /\ m \in Int BY <2>5, <2>6, <2>7, <3>1
      <4> QED BY <4>1
    <3> QED BY <2>5, <2>6, <3>1
  <2> QED BY <2>2, <2>8 DEF F
<1> QED BY <1>4, <1>5

LEMMA DistanceIs ==
  ASSUME NEW h \in Hosts, NEW a \in Addrs
  PROVE  Distance(h, a) = IF a >= Home[h] THEN a - Home[h] ELSE a - Home[h] + N
<1>1. N \in Nat /\ N > 1 /\ a \in 1 .. N - 1 /\ Home[h] \in 0 .. N - 1 BY Sizes, Names DEF Addrs
<1> DEFINE H == Home[h]
<1> HIDE DEF H
<1>2. H \in 0 .. N - 1 BY <1>1 DEF H
<1>3. \A x \in 0 .. N - 1 : x % N = x /\ (x + N) % N = x BY <1>1
<1>4. CASE a >= H
  <2>1. a - H \in 0 .. N - 1 BY <1>1, <1>2, <1>4
  <2> QED BY <1>3, <1>4, <2>1 DEF Distance, H
<1>5. CASE ~ (a >= H)
  <2>1. a - H + N \in 0 .. N - 1 BY <1>1, <1>2, <1>5
  <2> QED BY <1>3, <1>5, <2>1 DEF Distance, H
<1> QED BY <1>4, <1>5

\* The two halves of the search, put together.
LEMMA SearchCircular == PoolInv => SearchIsCircular
<1> SUFFICES ASSUME PoolInv, NEW h \in Hosts
             PROVE  {p.addr : p \in Search(h)} =
                      {a \in FreeUsable : \A b \in FreeUsable : Distance(h, a) <= Distance(h, b)}
  BY DEF SearchIsCircular
<1> DEFINE H == Home[h]
           Up == {a \in FreeUsable : H <= a /\ a < N}
           Down == {a \in FreeUsable : 0 <= a /\ a < H}
           D(a) == IF a >= H THEN a - H ELSE a - H + N
<1>1. N \in Nat /\ H \in 0 .. N - 1 /\ H \in Int /\ N \in Int /\ 0 \in Int BY Sizes, Names
<1>2. /\ {p.addr : p \in Scan(H, N)} = {a \in Up : \A b \in Up : a <= b}
      /\ {p.addr : p \in Scan(0, H)} = {a \in Down : \A b \in Down : a <= b}
  BY <1>1, ScanIs
<1>3. \A a \in FreeUsable : /\ a \in 1 .. N - 1 /\ Distance(h, a) = D(a)
                            /\ a \in Up <=> a >= H
                            /\ a \in Down <=> ~ (a >= H)
  <2>1. \A a \in FreeUsable : a \in Addrs /\ a \in 1 .. N - 1 BY DEF FreeUsable, Addrs
  <2> QED BY <1>1, <2>1, DistanceIs
<1>4. Up \subseteq FreeUsable /\ Down \subseteq FreeUsable OBVIOUS
<1>5. Scan(H, N) = {} <=> Up = {}
  <2>1. ASSUME Up # {} PROVE {a \in Up : \A b \in Up : a <= b} # {}
    <3>1. Up \subseteq 1 .. N - 1 /\ 1 \in Int /\ N - 1 \in Int BY <1>1, <1>3
    <3> HIDE DEF Up
    <3>2. \E a \in Up : \A b \in Up : a <= b BY <2>1, <3>1, LeastOf
    <3> QED BY <3>2
  <2> QED BY <1>2, <2>1
<1> HIDE DEF Up, Down, H
<1>6. CASE Up # {}
  <2>1. Search(h) = Scan(H, N) BY <1>5, <1>6 DEF Search, H
  <2>2. ASSUME NEW a \in FreeUsable
        PROVE  (a \in Up /\ \A b \in Up : a <= b) <=> \A b \in FreeUsable : D(a) <= D(b)
    <3>1. ASSUME a \in Up, \A b \in Up : a <= b, NEW b \in FreeUsable PROVE D(a) <= D(b)
      <4>1. a \in 1 .. N - 1 /\ b \in 1 .. N - 1 /\ a >= H BY <1>3, <3>1
      <4>2. b >= H => a <= b BY <1>3, <3>1
      <4> QED BY <1>1, <4>1, <4>2
    <3>2. ASSUME \A b \in FreeUsable : D(a) <= D(b) PROVE a \in Up /\ \A b \in Up : a <= b
      <4>1. PICK c \in Up : TRUE BY <1>6
      <4>2. D(a) <= D(c) /\ c \in 1 .. N - 1 /\ c >= H /\ a \in 1 .. N - 1 BY <1>3, <1>4, <3>2
      <4>3. a >= H BY <1>1, <4>2
      <4>4. ASSUME NEW b \in Up PROVE a <= b
        <5>1. D(a) <= D(b) /\ b \in 1 .. N - 1 /\ b >= H BY <1>3, <1>4, <3>2
        <5> QED BY <1>1, <4>2, <4>3, <5>1
      <4> QED BY <1>3, <4>3, <4>4
    <3> QED BY <3>1, <3>2
  <2> HIDE DEF D
  <2>3. {a \in Up : \A b \in Up : a <= b} = {a \in FreeUsable : \A b \in FreeUsable : D(a) <= D(b)}
    BY <1>4, <2>2
  <2> QED BY <1>2, <1>3, <2>1, <2>3
<1>7. CASE Up = {}
  <2>1. Search(h) = Scan(0, H) BY <1>5, <1>7 DEF Search, H
  <2>2. \A a \in FreeUsable : a \in Down /\ ~ (a >= H) /\ a \in 1 .. N - 1 BY <1>3, <1>7
  <2>3. \A a, b \in FreeUsable : D(a) <= D(b) <=> a <= b BY <1>1, <2>2
  <2> HIDE DEF D
  <2>4. {a \in Down : \A b \in Down : a <= b} = {a \in FreeUsable : \A b \in FreeUsable : D(a) <= D(b)}
    BY <1>4, <2>2, <2>3
  <2> QED BY <1>2, <1>3, <2>1, <2>4
<1> QED BY <1>6, <1>7

----------------------------------------------------------------------------
(* The invariant, and what follows from it *)

LEMMA LookupKeeps ==
  ASSUME PoolInv, Lookup
  PROVE  PoolInv'
<1>1. CASE \E h \in Hosts : Assign(h)
  <2>1. PICK h \in Hosts : Assign(h) BY <1>1
  <2> QED BY <2>1, ReactivateKeeps, AssignFreeKeeps, ReassignKeeps DEF Assign
<1>2. CASE \E a \in Addrs : Answer(a) \/ Hit(a) \/ AgeOut(a)
  <2>1. PICK a \in Addrs : Answer(a) \/ Hit(a) \/ AgeOut(a) BY <1>2
  <2> QED BY <2>1, AnswerKeeps
<1> QED BY <1>1, <1>2 DEF Lookup

LEMMA TickKeeps ==
  ASSUME PoolInv, now' \in Time, now' >= now, UNCHANGED <<conf, lists, pending>>
  PROVE  PoolInv'
<1> USE DEF PoolInv, lists
<1>1. Leased' = Leased BY DEF Leased
<1>2. Chain(free', Leased') /\ ListsApart' /\ Holders' BY <1>1 DEF ListsApart, Holders
<1>3. Clocks'
  <2>1. now \in Int /\ now' \in Int BY Clock
  <2>2. \A a \in Addrs : last[a] \in Int /\ (entry[a] # NoEntry => entry[a] \in Int)
    BY Clock DEF Clocks
  <2> QED BY <1>1, <2>1, <2>2 DEF Clocks
<1>4. Descending(last', dormant') BY DEF Descending
<1> QED BY <1>2, <1>3, <1>4

LEMMA PoolStep == PoolInv /\ [Next]_vars => PoolInv'
<1> SUFFICES ASSUME PoolInv, [Next]_vars PROVE PoolInv' OBVIOUS
<1>1. CASE Lookup BY <1>1, LookupKeeps
<1>2. CASE Age /\ UNCHANGED <<conf, now, pending>>
  <2>1. pending' \in BOOLEAN BY <1>2 DEF PoolInv
  <2> QED BY <1>2, <2>1, AgeKeeps
<1>3. CASE Tick
  <2>1. now' \in Time /\ now' >= now
    <3>1. MaxTime \in Nat BY Sizes
    <3> QED BY <1>3, <3>1 DEF Tick, PoolInv, Time
  <2> QED BY <1>3, <2>1, TickKeeps DEF Tick
<1>4. CASE UNCHANGED vars
  <2>1. now' \in Time /\ now' >= now BY <1>4, Clock DEF vars, PoolInv
  <2> QED BY <1>4, <2>1, TickKeeps DEF vars
<1> QED BY <1>1, <1>2, <1>3, <1>4 DEF Next

LEMMA PoolAlways == Spec => []PoolInv
<1> QED BY PoolInit, PoolStep, PTL DEF Spec

LEMMA PoolTypes == PoolInv => TypeOK
<1> SUFFICES ASSUME PoolInv PROVE TypeOK OBVIOUS
<1> USE DEF PoolInv
<1>1. \A i \in DOMAIN free : free[i] \in [addr : 0 .. N - 1, count : 0 .. N - 1]
  <2>1. Chain(free, Leased) OBVIOUS
  <2> QED BY <2>1, ChainIs DEF Nodes
<1>2. Leased \subseteq Addrs
  <2>1. Chain(free, Leased) OBVIOUS
  <2> QED BY <2>1, ChainIs
<1>3. last \in [Addrs -> -MinLease .. MaxTime]
  <2>1. Time \subseteq -MinLease .. MaxTime BY Sizes DEF Time
  <2>2. \A a \in Addrs : last[a] \in -MinLease .. MaxTime BY <2>1 DEF Clocks
  <2> QED BY <2>2 DEF Clocks
<1> QED BY <1>1, <1>2, <1>3 DEF TypeOK, Holders, Clocks

LEMMA PoolRuns == PoolInv => RunsPartition
<1> SUFFICES ASSUME PoolInv PROVE RunsPartition OBVIOUS
<1>1. Chain(free, Leased) BY DEF PoolInv
<1>2. DOMAIN free = 1 .. Len(free) /\ \A i \in DOMAIN free : free[i].count >= 0 BY <1>1, ChainIs
<1>3. /\ free[1].addr = 0 /\ Leased = {free[i].addr : i \in 2 .. Len(free)}
      /\ \A i \in 1 .. Len(free) :
           free[i].addr + free[i].count + 1 = IF i = Len(free) THEN N ELSE free[i + 1].addr
  BY <1>1 DEF Chain
<1> QED BY <1>2, <1>3 DEF RunsPartition

\* Every variable of the pool keeps its type, and no address of a lease and no
\* length of a run leaves the pool.
THEOREM PoolTypesAlways == Spec => []TypeOK
BY PoolAlways, PoolTypes, PTL

\* free_list is a partition of the pool at all times: cutting out a lease
\* (alloc_map_dynamic) and giving runs back (dynamic_maint) never lose an
\* address and never count one twice.
THEOREM RunsPartitionAlways == Spec => []RunsPartition
BY PoolAlways, PoolRuns, PTL

\* Whatever the runs are, the search in two halves (assign_dynamic) finds the
\* free address that comes first from the host's home around the circle, and
\* finds none only if there is none.
THEOREM SearchIsCircularAlways == Spec => []SearchIsCircular
BY PoolAlways, SearchCircular, PTL

\* dormant_list is in the order of last use, so dynamic_maint, which stops at
\* the first lease that is young enough, leaves no expired lease behind it.
THEOREM PassCompleteAlways == Spec => PassComplete
<1> DEFINE Complete ==
      Age => /\ \A a \in ToSet(mapped') : entry[a] # NoEntry \/ last[a] + MinLease >= now
             /\ \A a \in ToSet(dormant') : last[a] + MaxLease >= now
<1>1. PoolInv => Complete
  <2> SUFFICES ASSUME PoolInv, Age PROVE Complete OBVIOUS
  <2>1. PICK G : Aged(G) BY AgeDoes
  <2>2. ASSUME NEW a \in ToSet(mapped') PROVE entry[a] # NoEntry \/ last[a] + MinLease >= now
    <3>1. a \in ToSet(mapped) /\ a \notin Resting BY <2>1 DEF Aged
    <3>2. a \in Addrs
      <4>1. Distinct(mapped, Addrs) BY DEF PoolInv, ListsApart
      <4> QED BY <3>1, <4>1, Members
    <3>3. last[a] \in Int /\ now \in Int /\ MinLease \in Int
      <4>1. last[a] \in Time /\ now \in Time BY <3>2 DEF PoolInv, Clocks
      <4>2. MinLease \in Int BY Sizes
      <4>3. Time \subseteq Int BY Clock
      <4> HIDE DEF Complete
      <4> QED BY <4>1, <4>2, <4>3
    <3> QED BY <3>1, <3>3 DEF Resting, Idle
  <2>3. \A a \in ToSet(dormant') : last[a] + MaxLease >= now BY <2>1 DEF Aged
  <2> QED BY <2>2, <2>3
<1>2. Spec => [][Complete]_vars
  <2> HIDE DEF Complete
  <2>1. PoolInv => [Complete]_vars BY <1>1
  <2> QED BY <2>1, PoolAlways, PTL
<1> QED BY <1>2 DEF PassComplete

----------------------------------------------------------------------------
(* The lists implement LeaseTable *)

\* LeaseTable's table, as the lists give it.
Row1(a) == [st |-> State(a), host |-> host[a], last |-> LastUse(a)]
TableNow == [a \in Addrs |-> Row1(a)]

LEMMA RowIs ==
  ASSUME PoolInv, NEW a \in Addrs
  PROVE  /\ TableNow[a] = Row1(a)
         /\ Row1(a).st = State(a) /\ Row1(a).host = host[a] /\ Row1(a).last = LastUse(a)
         /\ State(a) = "mapped" <=> a \in ToSet(mapped)
         /\ State(a) = "dormant" <=> a \in ToSet(dormant)
         /\ State(a) = "free" <=> a \notin Leased
         /\ LastUse(a) \in Time
         /\ a \in ToSet(dormant) => LastUse(a) = last[a]
         /\ a \notin Leased => Row1(a) = [st |-> "free", host |-> NoHost, last |-> 0]
<1> USE DEF PoolInv
<1>1. ToSet(mapped) \cap ToSet(dormant) = {} BY DEF ListsApart
<1>2. /\ State(a) = "mapped" <=> a \in ToSet(mapped)
      /\ State(a) = "dormant" <=> a \in ToSet(dormant)
      /\ State(a) = "free" <=> a \notin Leased
  BY <1>1 DEF State, Leased
<1>3. /\ LastUse(a) \in Time
      /\ a \in ToSet(dormant) => LastUse(a) = last[a]
      /\ a \notin Leased => LastUse(a) = 0 /\ host[a] = NoHost
  BY <1>1 DEF LastUse, Clocks, Holders, Leased
<1> QED BY <1>2, <1>3 DEF TableNow, Row1

\* An assignment gives the address to the host.
LEMMA GiveStep ==
  ASSUME PoolInv, PoolInv', NEW h \in Hosts, NEW a \in Addrs, Activate(a, h),
         ToSet(mapped') = ToSet(mapped) \cup {a}, ToSet(dormant') = ToSet(dormant) \ {a}
  PROVE  /\ TableNow' = [TableNow EXCEPT ![a] = [st |-> "mapped", host |-> h, last |-> now]]
         /\ now' = now
<1>1. /\ host' = [host EXCEPT ![a] = h] /\ last' = [last EXCEPT ![a] = now] /\ now' = now
  BY DEF Activate
<1>2. PICK e \in {now, NoEntry} : entry' = [entry EXCEPT ![a] = e] BY DEF Activate
<1>3. /\ host \in [Addrs -> Hosts \cup {NoHost}] /\ last \in [Addrs -> Time]
      /\ entry \in [Addrs -> Time \cup {NoEntry}]
  BY DEF PoolInv, Holders, Clocks
<1>4. ASSUME NEW b \in Addrs
      PROVE  Row1(b)' = IF b = a THEN [st |-> "mapped", host |-> h, last |-> now] ELSE Row1(b)
  <2>1. CASE b = a
    <3>1. host'[b] = h /\ last'[b] = now /\ entry'[b] = e BY <1>1, <1>2, <1>3, <2>1
    <3>2. LastUse(b)' = now BY <1>2, <3>1 DEF LastUse
    <3>3. State(b)' = "mapped" BY <2>1 DEF State
    <3> QED BY <2>1, <3>1, <3>2, <3>3 DEF Row1
  <2>2. CASE b # a
    <3>1. host'[b] = host[b] /\ last'[b] = last[b] /\ entry'[b] = entry[b] BY <1>1, <1>2, <1>3, <2>2
    <3>2. LastUse(b)' = LastUse(b) BY <3>1 DEF LastUse
    <3>3. State(b)' = State(b) BY <2>2 DEF State
    <3> QED BY <2>2, <3>1, <3>2, <3>3 DEF Row1
  <2> QED BY <2>1, <2>2
<1>5. TableNow' = [b \in Addrs |-> IF b = a THEN [st |-> "mapped", host |-> h, last |-> now] ELSE Row1(b)]
  <2>1. TableNow' = [b \in Addrs |-> Row1(b)'] BY DEF TableNow
  <2> QED BY <1>4, <2>1
<1>6. TableNow = [b \in Addrs |-> Row1(b)] BY DEF TableNow
<1> QED BY <1>1, <1>5, <1>6

LEMMA TableStep ==
  ASSUME PoolInv, PoolInv', [Next]_vars
  PROVE  [Table!Next]_<<now, TableNow>>
<1>1. ASSUME NEW h \in Hosts, Reactivate(h) PROVE \E a \in Addrs : Table!Return(a)
  <2>1. PICK a \in Dormant(h) : /\ Activate(a, h) /\ ToSet(mapped') = ToSet(mapped) \cup {a}
                                /\ ToSet(dormant') = ToSet(dormant) \ {a}
    BY <1>1, ReactivateKeeps
  <2>2. a \in ToSet(dormant) /\ host[a] = h /\ a \in Addrs
    <3>1. Distinct(dormant, Addrs) BY DEF PoolInv, ListsApart
    <3> QED BY <3>1, Members DEF Dormant
  <2>3. /\ TableNow' = [TableNow EXCEPT ![a] = [st |-> "mapped", host |-> h, last |-> now]]
        /\ now' = now
    BY <2>1, <2>2, GiveStep
  <2>4. TableNow[a].st = "dormant" /\ TableNow[a].host = h BY <2>2, RowIs
  <2>5. Table!Return(a) BY <2>3, <2>4 DEF Table!Return, Table!Give, TableNow, Row1
  <2> QED BY <2>2, <2>5
<1>2. ASSUME NEW h \in Hosts, AssignFree(h) PROVE \E a \in Addrs, g \in Hosts : Table!Grant(a, g)
  <2>1. PICK a \in Addrs \ Leased :
          /\ Activate(a, h) /\ ToSet(mapped') = ToSet(mapped) \cup {a} /\ dormant' = dormant
    BY <1>2, AssignFreeKeeps
  <2>2. ToSet(dormant') = ToSet(dormant) \ {a} BY <2>1 DEF Leased
  <2>3. /\ TableNow' = [TableNow EXCEPT ![a] = [st |-> "mapped", host |-> h, last |-> now]]
        /\ now' = now
    BY <2>1, <2>2, GiveStep
  <2>4. TableNow[a].st = "free" BY RowIs
  <2>5. Table!Known(h) = {}
    <3>1. Unknown(h) /\ Dormant(h) = {} BY <1>2 DEF AssignFree
    <3>2. ASSUME NEW b \in Addrs, TableNow[b].st # "free" PROVE TableNow[b].host # h
      <4>1. b \in Leased /\ TableNow[b].host = host[b] BY <3>2, RowIs
      <4> QED BY <3>1, <4>1 DEF Leased, Unknown, Mapped, Dormant
    <3> QED BY <3>2 DEF Table!Known, TableNow, Row1
  <2>6. Table!Grant(a, h) BY <2>3, <2>4, <2>5 DEF Table!Grant, Table!Give, TableNow, Row1
  <2> QED BY <2>6
<1>3. ASSUME NEW h \in Hosts, Reassign(h) PROVE \E a \in Addrs, g \in Hosts : Table!TakeOver(a, g)
  <2> DEFINE n == Len(dormant)
  <2>0. PICK a : a = dormant[n] OBVIOUS
  <2>1. /\ n \in 1 .. n /\ a \in ToSet(dormant) /\ Activate(a, h)
        /\ ToSet(mapped') = ToSet(mapped) \cup {a} /\ ToSet(dormant') = ToSet(dormant) \ {a}
    BY <1>3, <2>0, ReassignKeeps
  <2>2. /\ n \in Nat /\ ToSet(dormant) = {dormant[i] : i \in 1 .. n} /\ ToSet(dormant) \subseteq Addrs
        /\ last \in [Addrs -> Time] /\ \A i, j \in 1 .. n : i < j => last[dormant[i]] >= last[dormant[j]]
    <3>1. Distinct(dormant, Addrs) BY DEF PoolInv, ListsApart
    <3>2. n \in Nat /\ ToSet(dormant) = {dormant[i] : i \in 1 .. n} /\ ToSet(dormant) \subseteq Addrs
      BY <3>1, Members
    <3>3. last \in [Addrs -> Time] /\ \A i, j \in 1 .. n : i < j => last[dormant[i]] >= last[dormant[j]]
      BY DEF PoolInv, Clocks, Descending
    <3> QED BY <3>2, <3>3
  <2>3. a \in Addrs BY <2>1, <2>2
  <2>4. ASSUME NEW b \in ToSet(dormant) PROVE last[a] <= last[b]
    <3>1. PICK i \in 1 .. n : b = dormant[i] BY <2>2
    <3>2. i = n \/ i < n BY <2>2
    <3>3. last[a] \in Int /\ last[b] \in Int BY <2>1, <2>2, Clock
    <3>4. CASE i = n BY <2>0, <3>1, <3>3, <3>4
    <3>5. CASE i < n
      <4>1. last[dormant[i]] >= last[dormant[n]] BY <2>1, <2>2, <3>5
      <4> QED BY <2>0, <3>1, <3>3, <4>1
    <3> QED BY <3>2, <3>4, <3>5
  <2>5. /\ TableNow' = [TableNow EXCEPT ![a] = [st |-> "mapped", host |-> h, last |-> now]]
        /\ now' = now
    BY <2>1, <2>3, GiveStep
  <2>6. TableNow[a].st = "dormant" BY <2>1, <2>3, RowIs
  <2>7. Table!Known(h) = {}
    <3>1. Unknown(h) /\ Dormant(h) = {} BY <1>3 DEF Reassign
    <3>2. ASSUME NEW b \in Addrs, TableNow[b].st # "free" PROVE TableNow[b].host # h
      <4>1. b \in Leased /\ TableNow[b].host = host[b] BY <3>2, RowIs
      <4> QED BY <3>1, <4>1 DEF Leased, Unknown, Mapped, Dormant
    <3> QED BY <3>2 DEF Table!Known, TableNow, Row1
  <2>8. ASSUME NEW b \in Addrs, TableNow[b].st = "dormant" PROVE TableNow[a].last <= TableNow[b].last
    <3>1. b \in ToSet(dormant) BY <2>8, RowIs
    <3>2. TableNow[a].last = last[a] /\ TableNow[b].last = last[b] BY <2>1, <2>3, <3>1, RowIs
    <3> QED BY <2>4, <3>1, <3>2
  <2>9. \A b \in Table!In("dormant") : TableNow[a].last <= TableNow[b].last
    BY <2>8 DEF Table!In, TableNow, Row1
  <2>10. Table!TakeOver(a, h)
    BY <2>5, <2>6, <2>7, <2>9 DEF Table!TakeOver, Table!Give, TableNow, Row1
  <2> QED BY <2>3, <2>10
<1>4. ASSUME NEW a \in Addrs, Answer(a) \/ Hit(a) \/ AgeOut(a) PROVE Table!Uses
  <2>1. UNCHANGED <<conf, now, mapped, dormant, host>> BY <1>4 DEF Answer, Hit, AgeOut
  <2>2. \A b \in Addrs : State(b)' = State(b) BY <2>1 DEF State
  <2>3. /\ last \in [Addrs -> Time] /\ entry \in [Addrs -> Time \cup {NoEntry}] /\ now \in Time
        /\ entry[a] # NoEntry => a \in ToSet(mapped) /\ entry[a] <= now
        /\ last[a] <= now /\ NoEntry \notin Time
    BY Clock DEF PoolInv, Clocks
  <2>4. ASSUME NEW b \in Addrs, b # a PROVE Row1(b)' = Row1(b)
    <3>1. last'[b] = last[b] /\ entry'[b] = entry[b] BY <1>4, <2>3, <2>4 DEF Answer, Hit, AgeOut
    <3>2. LastUse(b)' = LastUse(b) BY <3>1 DEF LastUse
    <3> QED BY <2>1, <2>2, <3>2 DEF Row1
  <2>5. LastUse(a) <= now BY <2>3 DEF LastUse
  <2>6. a \in ToSet(mapped) BY <1>4, <2>3 DEF Answer, Hit, AgeOut
  <2>7. LastUse(a)' = LastUse(a) \/ LastUse(a)' = now
    BY <1>4, <2>3 DEF Answer, Hit, AgeOut, LastUse
  <2>8. LastUse(a)' \in LastUse(a) .. now
    <3>1. LastUse(a) \in Int /\ now \in Int BY <2>3, RowIs, Clock
    <3> QED BY <2>5, <2>7, <3>1
  <2>9. Row1(a)' = [st |-> State(a), host |-> host[a], last |-> LastUse(a)'] BY <2>1, <2>2 DEF Row1
  <2>10. TableNow' = [b \in Addrs |-> Row1(b)'] /\ \A b \in Addrs : TableNow'[b] = Row1(b)'
    BY DEF TableNow
  <2>11. TableNow[a] = Row1(a) /\ Row1(a).st = "mapped" /\ Row1(a).last = LastUse(a) BY <2>6, RowIs
  <2>12. TableNow'[a] = [TableNow[a] EXCEPT !.last = LastUse(a)'] BY <2>9, <2>10, <2>11 DEF Row1
  <2>13. Table!Use(a) BY <2>8, <2>11, <2>12 DEF Table!Use, TableNow, Row1
  <2>14. \A b \in Addrs : TableNow'[b] = TableNow[b] \/ Table!Use(b)
    BY <2>4, <2>10, <2>13, RowIs
  <2>15. TableNow' = [b \in Addrs |-> TableNow'[b]] BY <2>10
  <2> QED BY <2>1, <2>14, <2>15 DEF Table!Uses, TableNow, Row1
<1>5. ASSUME Age, UNCHANGED now PROVE Table!Ages
  <2>1. PICK G : Aged(G) BY <1>5, AgeDoes
  <2>2. /\ last \in [Addrs -> Time] /\ entry \in [Addrs -> Time \cup {NoEntry}] /\ now \in Time
        /\ \A b \in Addrs : entry[b] # NoEntry => b \in ToSet(mapped)
        /\ ToSet(mapped) \cap ToSet(dormant) = {}
    BY DEF PoolInv, Clocks, ListsApart
  <2>3. /\ ToSet(mapped') = ToSet(mapped) \ Resting
        /\ ToSet(dormant') = (ToSet(dormant) \cup Resting) \ G
        /\ G \subseteq ToSet(dormant) \cup Resting
        /\ \A b \in G : last[b] + MaxLease < now
        /\ host' = [b \in Addrs |-> IF b \in G THEN NoHost ELSE host[b]]
        /\ last' = [b \in Addrs |-> IF b \in G THEN 0 ELSE last[b]]
        /\ entry' = entry
    BY <2>1 DEF Aged
  <2>4. /\ Resting \subseteq ToSet(mapped)
        /\ \A b \in Resting : entry[b] = NoEntry /\ last[b] + MinLease < now
    BY DEF Resting, Idle
  <2>5. \A b \in Addrs : TableNow'[b] = Row1(b)' BY DEF TableNow
  <2>6. ASSUME NEW b \in Addrs PROVE TableNow'[b] = TableNow[b] \/ Table!Rest(b) \/ Table!Expire(b)
    <3>1. /\ TableNow[b] = Row1(b) /\ Row1(b).st = State(b) /\ Row1(b).last = LastUse(b)
          /\ State(b) = "mapped" <=> b \in ToSet(mapped)
          /\ State(b) = "dormant" <=> b \in ToSet(dormant)
          /\ b \in ToSet(dormant) => LastUse(b) = last[b]
      BY RowIs
    <3>2. b \in Resting => LastUse(b) = last[b] BY <2>4 DEF LastUse
    <3>3. CASE b \in G
      <4>1. b \notin ToSet(mapped') /\ b \notin ToSet(dormant') BY <2>2, <2>3, <2>4, <3>3
      <4>2. State(b)' = "free" /\ host'[b] = NoHost /\ last'[b] = 0
        BY <2>3, <3>3, <4>1 DEF State
      <4>3. entry'[b] = NoEntry BY <2>2, <2>3, <2>4, <3>3
      <4>4. LastUse(b)' = 0 BY <4>2, <4>3 DEF LastUse
      <4>5. TableNow'[b] = [st |-> "free", host |-> NoHost, last |-> 0]
        BY <2>5, <4>2, <4>4 DEF Row1
      <4>6. b \in ToSet(dormant) \/ b \in Resting BY <2>3, <3>3
      <4>7. /\ TableNow[b].last + MaxLease < now
            /\ TableNow[b].st = "dormant"
                 \/ (TableNow[b].st = "mapped" /\ TableNow[b].last + MinLease < now)
        BY <2>3, <2>4, <3>1, <3>2, <3>3, <4>6
      <4>8. Table!Expire(b)
        BY <4>5, <4>7 DEF Table!Expire, Table!Idle, Table!Free, TableNow, Row1
      <4> QED BY <4>8
    <3>4. CASE b \notin G
      <4>1. host'[b] = host[b] /\ last'[b] = last[b] /\ entry'[b] = entry[b] BY <2>3, <3>4
      <4>2. LastUse(b)' = LastUse(b) BY <4>1 DEF LastUse
      <4>3. CASE b \in Resting
        <5>1. b \notin ToSet(mapped') /\ b \in ToSet(dormant') BY <2>3, <3>4, <4>3
        <5>2. State(b)' = "dormant" BY <5>1 DEF State
        <5>3. TableNow'[b] = [TableNow[b] EXCEPT !.st = "dormant"]
          BY <2>5, <3>1, <4>1, <4>2, <5>2 DEF Row1
        <5>4. TableNow[b].st = "mapped" /\ TableNow[b].last + MinLease < now
          BY <2>4, <3>1, <3>2, <4>3
        <5>5. Table!Rest(b) BY <5>3, <5>4 DEF Table!Rest, Table!Idle, TableNow, Row1
        <5> QED BY <5>5
      <4>4. CASE b \notin Resting
        <5>1. /\ b \in ToSet(mapped') <=> b \in ToSet(mapped)
              /\ b \in ToSet(dormant') <=> b \in ToSet(dormant)
          BY <2>3, <3>4, <4>4
        <5>2. State(b)' = State(b) BY <5>1 DEF State
        <5> QED BY <2>5, <3>1, <4>1, <4>2, <5>2 DEF Row1
      <4> QED BY <4>3, <4>4
    <3> QED BY <3>3, <3>4
  <2>7. TableNow' = [b \in Addrs |-> TableNow'[b]]
    <3>1. TableNow' = [b \in Addrs |-> Row1(b)'] BY DEF TableNow
    <3> QED BY <2>5, <3>1
  <2> QED BY <1>5, <2>6, <2>7 DEF Table!Ages, TableNow, Row1
<1>6. ASSUME UNCHANGED <<lists>> PROVE TableNow' = TableNow
  BY <1>6 DEF TableNow, Row1, State, LastUse, lists
<1>7. ASSUME Tick PROVE Table!Tick
  <2>1. TableNow' = TableNow BY <1>6, <1>7 DEF Tick
  <2> QED BY <1>7, <2>1 DEF Tick, Table!Tick, TableNow, Row1
<1>8. ASSUME UNCHANGED vars PROVE UNCHANGED <<now, TableNow>> BY <1>6, <1>8 DEF vars
<1>9. CASE Lookup
  <2>1. CASE \E h \in Hosts : Assign(h)
    <3>1. PICK h \in Hosts : Reactivate(h) \/ AssignFree(h) \/ Reassign(h) BY <2>1 DEF Assign
    <3> QED BY <1>1, <1>2, <1>3, <3>1 DEF Table!Next
  <2>2. CASE \E a \in Addrs : Answer(a) \/ Hit(a) \/ AgeOut(a) BY <1>4, <2>2 DEF Table!Next
  <2> QED BY <1>9, <2>1, <2>2 DEF Lookup
<1>10. CASE Age /\ UNCHANGED <<conf, now, pending>> BY <1>5, <1>10 DEF Table!Next
<1>11. CASE Tick BY <1>7, <1>11 DEF Table!Next
<1> QED BY <1>8, <1>9, <1>10, <1>11 DEF Next

\* The lists keep the promise of LeaseTable: an address is granted, taken over,
\* rests and is freed as if dynamic.c had one table, with the last use of each
\* lease always known, cache or no cache.
THEOREM PoolIsLeaseTable == Spec => ImplementsLeaseTable
<1>1. Init => Table!Init
  <2> SUFFICES ASSUME Init PROVE Table!Init OBVIOUS
  <2>1. PoolInv BY PoolInit
  <2>2. mapped = <<>> /\ dormant = <<>> BY DEF Init, EmptyPool
  <2>3. Leased = {} BY <2>2, DistinctEmpty DEF Leased
  <2>4. TableNow = [a \in Addrs |-> [st |-> "free", host |-> NoHost, last |-> 0]]
    <3>1. \A a \in Addrs : Row1(a) = [st |-> "free", host |-> NoHost, last |-> 0]
      BY <2>1, <2>3, RowIs
    <3> QED BY <3>1 DEF TableNow
  <2>5. now \in Boot BY DEF Init
  <2> QED BY <2>4, <2>5 DEF Table!Init, Table!Free, TableNow, Row1
<1>2. PoolInv /\ PoolInv' /\ [Next]_vars => [Table!Next]_Table!vars
  <2> SUFFICES ASSUME PoolInv, PoolInv', [Next]_vars PROVE [Table!Next]_Table!vars OBVIOUS
  <2>1. [Table!Next]_<<now, TableNow>> BY TableStep
  <2> QED BY <2>1 DEF Table!vars, TableNow, Row1
<1>3. Spec => Table!Spec
  <2>1. Spec => Init /\ [][Next]_vars BY DEF Spec
  <2> QED BY <1>1, <1>2, <2>1, PoolAlways, PTL DEF Table!Spec
<1> QED BY <1>3 DEF ImplementsLeaseTable

----------------------------------------------------------------------------
(* The database *)

Rows == [addr : Addrs, host : Hosts, last : Time]

\* No address and no host is in two rows.
Database(q) ==
  /\ q \in Seq(Rows)
  /\ \A i, j \in 1 .. Len(q) : i # j => q[i].addr # q[j].addr /\ q[i].host # q[j].host

Pools == [free : Seq(Nodes), dormant : Seq(Addrs),
          host : [Addrs -> Hosts \cup {NoHost}], last : [Addrs -> Time]]

\* The pool p after the first i rows of the file: a pool whose leases are all
\* dormant, each from one of these rows, and with all of them that may enter.
Part(c, p, i) ==
  /\ Chain(p.free, ToSet(p.dormant)) /\ Distinct(p.dormant, Addrs) /\ Descending(p.last, p.dormant)
  /\ \A a \in Addrs : a \notin ToSet(p.dormant) => p.host[a] = NoHost /\ p.last[a] = 0
  /\ \A a \in ToSet(p.dormant) :
       \E k \in 1 .. i : file[k].addr = a /\ p.host[a] = file[k].host /\ p.last[a] = file[k].last
  /\ \A k \in 1 .. i : Loadable(c, file[k]) => file[k].addr \in ToSet(p.dormant)

LEMMA DatabaseIs ==
  ASSUME NEW q, Database(q)
  PROVE  /\ Len(q) \in Nat /\ DOMAIN q = 1 .. Len(q)
         /\ \A i \in 1 .. Len(q) : /\ q[i] \in Rows /\ q[i].addr \in Addrs
                                   /\ q[i].host \in Hosts /\ q[i].last \in Time
<1>1. q \in Seq(Rows) BY DEF Database
<1>2. Len(q) \in Nat /\ DOMAIN q = 1 .. Len(q) BY <1>1
<1>3. \A i \in 1 .. Len(q) : q[i] \in Rows BY <1>1
<1> QED BY <1>2, <1>3 DEF Rows

LEMMA EmptyPart == \A c : EmptyPool \in Pools /\ Part(c, EmptyPool, 0)
<1> SUFFICES ASSUME NEW c PROVE EmptyPool \in Pools /\ Part(c, EmptyPool, 0) OBVIOUS
<1> DEFINE p == EmptyPool
<1>1. /\ p.free = <<[addr |-> 0, count |-> N - 1]>> /\ p.dormant = <<>>
      /\ p.host = [a \in Addrs |-> NoHost] /\ p.last = [a \in Addrs |-> 0]
      /\ p = [free |-> p.free, dormant |-> p.dormant, host |-> p.host, last |-> p.last]
  BY DEF EmptyPool, Node
<1>2. Distinct(p.dormant, Addrs) /\ ToSet(p.dormant) = {} /\ Len(p.dormant) = 0
  BY <1>1, DistinctEmpty
<1>3. Chain(p.free, {})
  <2>1. N \in Nat /\ N > 1 BY Sizes
  <2>2. [addr |-> 0, count |-> N - 1] \in Nodes BY <2>1 DEF Nodes
  <2>3. p.free \in Seq(Nodes) /\ Len(p.free) = 1 /\ p.free[1] = [addr |-> 0, count |-> N - 1]
    BY <1>1, <2>2
  <2> HIDE DEF p
  <2> QED BY <2>1, <2>3 DEF Chain
<1>4. p \in Pools
  <2>1. p.free \in Seq(Nodes) BY <1>3 DEF Chain
  <2>2. p.dormant \in Seq(Addrs) BY <1>2 DEF Distinct
  <2>3. p.host \in [Addrs -> Hosts \cup {NoHost}] /\ p.last \in [Addrs -> Time] BY <1>1, Clock
  <2> HIDE DEF p
  <2> QED BY <1>1, <2>1, <2>2, <2>3 DEF Pools
<1>5. Descending(p.last, p.dormant) BY <1>2 DEF Descending
<1> HIDE DEF p
<1>6. Part(c, p, 0)
  <2>1. \A k \in 1 .. 0 : FALSE OBVIOUS
  <2>2. Chain(p.free, ToSet(p.dormant)) BY <1>2, <1>3
  <2>3. \A a \in Addrs : p.host[a] = NoHost /\ p.last[a] = 0 BY <1>1
  <2>4. \A a \in ToSet(p.dormant) : FALSE BY <1>2
  <2> QED BY <1>2, <1>5, <2>1, <2>2, <2>3, <2>4 DEF Part
<1> QED BY <1>4, <1>6 DEF p

\* The run that load_map cuts covers the row's address, and there is one
\* whenever the address is free.
LEMMA RoomIs ==
  ASSUME NEW q, NEW A, Chain(q, A), NEW a \in Addrs
  PROVE  /\ \A i \in Room(q, a) : i \in 1 .. Len(q) /\ a \in Covers(q[i])
         /\ a \notin A => Room(q, a) # {}
<1>1. /\ Len(q) \in Nat \ {0} /\ DOMAIN q = 1 .. Len(q) /\ a \in Int
      /\ \A i \in 1 .. Len(q) : q[i].addr \in Int /\ q[i].count \in Int
  <2>1. N \in Nat /\ Addrs \subseteq Int BY Sizes DEF Addrs
  <2> QED BY <2>1, ChainIs
<1>2. ASSUME NEW i \in Room(q, a) PROVE i \in 1 .. Len(q) /\ a \in Covers(q[i])
  BY <1>1, <1>2 DEF Room, Covers
<1>3. ASSUME a \notin A PROVE Room(q, a) # {}
  <2>1. PICK i \in 1 .. Len(q) : a \in Covers(q[i]) BY <1>3, ChainCovers
  <2>2. q[i].addr < a /\ a <= q[i].addr + q[i].count BY <1>1, <2>1 DEF Covers
  <2>3. ASSUME NEW j \in 1 .. Len(q), q[j].addr + q[j].count >= a PROVE i <= j
    <3>1. SUFFICES ASSUME j < i PROVE FALSE BY <1>1
    <3>2. q[j].addr + q[j].count < q[i].addr BY <3>1 DEF Chain
    <3> QED BY <1>1, <2>2, <2>3, <3>2
  <2>4. i \in Room(q, a) BY <1>1, <2>2, <2>3 DEF Room
  <2> QED BY <2>4
<1> QED BY <1>2, <1>3

LEMMA RowEnters ==
  ASSUME Database(file), NEW c, NEW i \in 1 .. Len(file), NEW p \in Pools, Part(c, p, i - 1)
  PROVE  LoadRow(c, p, file[i]) \in Pools /\ Part(c, LoadRow(c, p, file[i]), i)
<1> DEFINE r == file[i]
           a == r.addr
<1>1. /\ Len(file) \in Nat /\ a \in Addrs /\ r.host \in Hosts /\ r.last \in Time
      /\ \A k \in 1 .. Len(file) : file[k].addr \in Addrs
  BY DatabaseIs
<1>2. \A k \in 1 .. i : k \in 1 .. i - 1 \/ k = i BY <1>1
<1>3. \A k \in 1 .. i - 1 : k \in 1 .. i /\ k \in 1 .. Len(file) /\ k # i BY <1>1
<1>4. /\ Chain(p.free, ToSet(p.dormant)) /\ Distinct(p.dormant, Addrs)
      /\ Descending(p.last, p.dormant)
      /\ \A b \in Addrs : b \notin ToSet(p.dormant) => p.host[b] = NoHost /\ p.last[b] = 0
      /\ \A b \in ToSet(p.dormant) :
           \E k \in 1 .. i - 1 : file[k].addr = b /\ p.host[b] = file[k].host /\ p.last[b] = file[k].last
      /\ \A k \in 1 .. i - 1 : Loadable(c, file[k]) => file[k].addr \in ToSet(p.dormant)
  BY DEF Part
<1>5. a \notin ToSet(p.dormant)
  <2>1. SUFFICES ASSUME a \in ToSet(p.dormant) PROVE FALSE OBVIOUS
  <2>2. PICK k \in 1 .. i - 1 : file[k].addr = a BY <1>4, <2>1
  <2>3. k \in 1 .. Len(file) /\ k # i BY <1>3
  <2> QED BY <2>2, <2>3 DEF Database
<1>6. Room(p.free, a) # {} BY <1>1, <1>4, <1>5, RoomIs
<1>7. CASE ~ Loadable(c, r)
  <2>1. LoadRow(c, p, r) = p BY <1>7 DEF LoadRow
  <2>2. \A b \in ToSet(p.dormant) :
          \E k \in 1 .. i : file[k].addr = b /\ p.host[b] = file[k].host /\ p.last[b] = file[k].last
    BY <1>3, <1>4
  <2>3. \A k \in 1 .. i : Loadable(c, file[k]) => file[k].addr \in ToSet(p.dormant)
    BY <1>2, <1>4, <1>7
  <2>4. Part(c, p, i) BY <1>4, <2>2, <2>3 DEF Part
  <2> QED BY <2>1, <2>4
<1>8. CASE Loadable(c, r)
  <2> DEFINE n == CHOOSE j \in Room(p.free, a) : TRUE
             use == [p.last EXCEPT ![a] = r.last]
             o == LoadRow(c, p, r)
  <2>1. o = [free |-> Split(p.free, n, a), dormant |-> FiledBy(use, p.dormant, a),
             host |-> [p.host EXCEPT ![a] = r.host], last |-> use]
    BY <1>6, <1>8 DEF LoadRow
  <2>2. n \in 1 .. Len(p.free) /\ a \in Covers(p.free[n])
    <3>1. n \in Room(p.free, a) BY <1>6
    <3> HIDE DEF n, a
    <3> QED BY <1>1, <1>4, <3>1, RoomIs
  <2> HIDE DEF n
  <2>3. Chain(Split(p.free, n, a), ToSet(p.dormant) \cup {a}) BY <1>4, <2>2, SplitKeeps
  <2>4. /\ p.host \in [Addrs -> Hosts \cup {NoHost}] /\ p.last \in [Addrs -> Time] BY DEF Pools
  <2>5. /\ use \in [Addrs -> Time] /\ use[a] = r.last
        /\ \A b \in Addrs : b # a => use[b] = p.last[b]
    BY <1>1, <2>4
  <2>6. /\ o.host \in [Addrs -> Hosts \cup {NoHost}] /\ o.host[a] = r.host
        /\ \A b \in Addrs : b # a => o.host[b] = p.host[b]
    <3>1. o.host = [p.host EXCEPT ![a] = r.host] BY <2>1
    <3> HIDE DEF o
    <3> QED BY <1>1, <2>4, <3>1
  <2> HIDE DEF use
  <2>7. Descending(use, p.dormant)
    <3>1. /\ ToSet(p.dormant) \subseteq Addrs
          /\ \A k \in 1 .. Len(p.dormant) : p.dormant[k] \in ToSet(p.dormant)
      <4>1. ToSet(p.dormant) = {p.dormant[k] : k \in 1 .. Len(p.dormant)} /\ ToSet(p.dormant) \subseteq Addrs
        BY <1>4, Members
      <4> QED BY <4>1
    <3>2. \A k \in 1 .. Len(p.dormant) : use[p.dormant[k]] = p.last[p.dormant[k]]
      BY <1>5, <2>5, <3>1
    <3> QED BY <1>4, <3>2 DEF Descending
  <2>8. /\ Distinct(FiledBy(use, p.dormant, a), Addrs)
        /\ ToSet(FiledBy(use, p.dormant, a)) = ToSet(p.dormant) \cup {a}
        /\ Descending(use, FiledBy(use, p.dormant, a))
    <3>1. use \in [Addrs -> Int] BY <2>5, Clock
    <3> QED BY <1>1, <1>4, <1>5, <2>7, <3>1, FiledByKeeps
  <2>9. /\ o.free = Split(p.free, n, a) /\ o.dormant = FiledBy(use, p.dormant, a) /\ o.last = use
        /\ o = [free |-> o.free, dormant |-> o.dormant, host |-> o.host, last |-> o.last]
    BY <2>1
  <2> HIDE DEF o
  <2>10. o \in Pools
    <3>1. o.free \in Seq(Nodes) BY <2>3, <2>9 DEF Chain
    <3>2. o.dormant \in Seq(Addrs) BY <2>8, <2>9 DEF Distinct
    <3> QED BY <2>5, <2>6, <2>9, <3>1, <3>2 DEF Pools
  <2>11. ASSUME NEW b \in Addrs, b \notin ToSet(o.dormant) PROVE o.host[b] = NoHost /\ o.last[b] = 0
    BY <1>4, <2>5, <2>6, <2>8, <2>9, <2>11
  <2>12. ASSUME NEW b \in ToSet(o.dormant)
         PROVE  \E k \in 1 .. i : file[k].addr = b /\ o.host[b] = file[k].host /\ o.last[b] = file[k].last
    <3>1. CASE b = a BY <1>1, <2>5, <2>6, <2>9, <3>1
    <3>2. CASE b # a
      <4>1. b \in ToSet(p.dormant) /\ b \in Addrs
        <5>1. ToSet(p.dormant) \subseteq Addrs BY <1>4, Members
        <5> QED BY <2>8, <2>9, <2>12, <3>2, <5>1
      <4>2. PICK k \in 1 .. i - 1 : /\ file[k].addr = b /\ p.host[b] = file[k].host
                                    /\ p.last[b] = file[k].last
        BY <1>4, <4>1
      <4>3. o.host[b] = p.host[b] /\ o.last[b] = p.last[b] BY <2>5, <2>6, <2>9, <3>2, <4>1
      <4> QED BY <1>3, <4>2, <4>3
    <3> QED BY <3>1, <3>2
  <2>13. ASSUME NEW k \in 1 .. i, Loadable(c, file[k]) PROVE file[k].addr \in ToSet(o.dormant)
    BY <1>2, <1>4, <2>8, <2>9, <2>13
  <2>14. Part(c, o, i)
    <3>1. Chain(o.free, ToSet(o.dormant)) /\ Distinct(o.dormant, Addrs) /\ Descending(o.last, o.dormant)
      BY <2>3, <2>8, <2>9
    <3> QED BY <2>11, <2>12, <2>13, <3>1 DEF Part
  <2> QED BY <2>10, <2>14 DEF o
<1> QED BY <1>7, <1>8

LEMMA FileLoads ==
  ASSUME Database(file), NEW c
  PROVE  LoadFile(c) \in Pools /\ Part(c, LoadFile(c), Len(file))
<1> DEFINE n == Len(file)
           Op(p, i) == LoadRow(c, p, file[i])
           In == [i \in 0 .. n |-> {p \in Pools : Part(c, p, i)}]
           step == [i \in 1 .. n |-> [p \in In[i - 1] |-> Op(p, i)]]
           Is(f) == f = [i \in 0 .. n |-> IF i = 0 THEN EmptyPool ELSE Op(f[i - 1], i)]
<1>1. n \in Nat BY DatabaseIs
<1>2. \A i \in 1 .. n : i - 1 \in 0 .. n /\ i \in 0 .. n BY <1>1
<1>3. \E g : Iteration(n, In, EmptyPool, step, g)
  <2>1. ASSUME NEW i \in 1 .. n, NEW p \in In[i - 1] PROVE step[i][p] \in In[i]
    <3>1. p \in Pools /\ Part(c, p, i - 1) BY <1>2
    <3>2. Op(p, i) \in Pools /\ Part(c, Op(p, i), i) BY <3>1, RowEnters
    <3>3. step[i][p] = Op(p, i) OBVIOUS
    <3> HIDE DEF Op
    <3> QED BY <1>2, <3>2, <3>3
  <2>2. EmptyPool \in In[0]
    <3>1. EmptyPool \in Pools /\ Part(c, EmptyPool, 0) BY EmptyPart
    <3>2. 0 \in 0 .. n BY <1>1
    <3> QED BY <3>1, <3>2
  <2> HIDE DEF In, step, n
  <2> QED BY <1>1, <2>1, <2>2, Iterates
<1>4. PICK g : Is(g) /\ g[n] \in In[n]
  <2>0. PICK g : Iteration(n, In, EmptyPool, step, g) BY <1>3
  <2>1. \A i \in 1 .. n : g[i] = Op(g[i - 1], i)
    <3> SUFFICES ASSUME NEW i \in 1 .. n PROVE g[i] = Op(g[i - 1], i) OBVIOUS
    <3>1. g[i - 1] \in In[i - 1] BY <1>2, <2>0 DEF Iteration
    <3>2. g[i] = step[i][g[i - 1]] BY <2>0 DEF Iteration
    <3> HIDE DEF Op, In
    <3> QED BY <3>1, <3>2
  <2>2. \A i \in 0 .. n : i # 0 => i \in 1 .. n BY <1>1
  <2>3. g = [i \in 0 .. n |-> g[i]] /\ g[0] = EmptyPool /\ g[n] \in In[n]
    BY <1>1, <2>0 DEF Iteration
  <2> HIDE DEF Op, In
  <2>4. Is(g) BY <2>1, <2>2, <2>3
  <2> HIDE DEF Is
  <2> QED BY <2>3, <2>4
<1> DEFINE f == CHOOSE f : Is(f)
<1>5. Is(f) BY <1>4
<1>6. LoadFile(c) = f[n] BY DEF LoadFile
<1>7. f[n] = g[n]
  <2> HIDE DEF Op, f, In
  <2>1. \A h : Is(h) => h[0] = EmptyPool /\ \A i \in 1 .. n : h[i] = Op(h[i - 1], i)
    <3>1. 0 \in 0 .. n /\ \A i \in 1 .. n : i \in 0 .. n /\ i # 0 BY <1>1
    <3> QED BY <3>1
  <2> HIDE DEF Is
  <2>2. f[0] = g[0] /\ \A i \in 1 .. n : f[i] = Op(f[i - 1], i) /\ g[i] = Op(g[i - 1], i)
    BY <1>4, <1>5, <2>1
  <2> HIDE DEF n
  <2> QED BY <1>1, <2>2, SameEnd
<1>8. g[n] \in Pools /\ Part(c, g[n], n)
  <2>1. n \in 0 .. n BY <1>1
  <2> QED BY <1>4, <2>1
<1> HIDE DEF f
<1> QED BY <1>6, <1>7, <1>8

\* What load_dynamic makes of the file: the pool's invariant, every lease from
\* a row, every row that may enter a lease, and those used within MinLease
\* mapped, unless a row is dated in the future.
LEMMA LoadedIs ==
  ASSUME Database(file), NEW c \in Configs, NEW t \in Boot, Loaded(c, t),
         conf' = c, now' = t, entry' = [a \in Addrs |-> NoEntry], pending' \in BOOLEAN
  PROVE  /\ PoolInv'
         /\ \A a \in Leased' : \E k \in 1 .. Len(file) : file[k].addr = a /\ host'[a] = file[k].host
         /\ \A k \in 1 .. Len(file) : Loadable(c, file[k]) =>
              /\ file[k].addr \in Leased' /\ host'[file[k].addr] = file[k].host
              /\ (file[k].last + MinLease >= t /\ \A j \in 1 .. Len(file) : file[j].last <= t)
                   => file[k].addr \in ToSet(mapped')
<1> DEFINE p == LoadFile(c)
           q == p.dormant
           n == Len(q)
           future == \E a \in ToSet(q) : p.last[a] > t
           S == {i \in 1 .. n : p.last[q[i]] + MinLease < t}
           stale == SelectInSeq(q, LAMBDA a : p.last[a] + MinLease < t)
           recent == IF future THEN 0 ELSE IF stale = 0 THEN n ELSE stale - 1
           u == SubSeq(q, 1, recent)
           v == SubSeq(q, recent + 1, n)
<1>1. p \in Pools /\ Part(c, p, Len(file)) BY FileLoads
<1>2. /\ free' = p.free /\ mapped' = Reverse(u) /\ dormant' = v /\ host' = p.host
      /\ last' = [a \in Addrs |-> IF future /\ a \in ToSet(q) THEN t - MinLease ELSE p.last[a]]
  BY DEF Loaded
<1> HIDE DEF p
<1>3. stale = IF S # {} THEN Min(S) ELSE 0 BY DEF SelectInSeq
<1> HIDE DEF stale
<1>4. /\ t \in Time /\ t \in Int /\ MinLease \in Int /\ t > MinLease /\ MinLease >= 0 /\ t <= MaxTime
      /\ \A x \in Time : x \in Int /\ x >= 0
  <2>1. t \in Time BY Names
  <2>2. MaxTime \in Nat /\ MinLease \in Nat BY Sizes
  <2>3. t > MinLease BY AfterEpoch
  <2> QED BY <2>1, <2>2, <2>3 DEF Time
<1>5. /\ Chain(p.free, ToSet(q)) /\ Distinct(q, Addrs) /\ Descending(p.last, q)
      /\ \A a \in Addrs : a \notin ToSet(q) => p.host[a] = NoHost /\ p.last[a] = 0
      /\ \A a \in ToSet(q) :
           \E k \in 1 .. Len(file) :
             file[k].addr = a /\ p.host[a] = file[k].host /\ p.last[a] = file[k].last
      /\ \A k \in 1 .. Len(file) : Loadable(c, file[k]) => file[k].addr \in ToSet(q)
  BY <1>1 DEF Part
<1>6. p.host \in [Addrs -> Hosts \cup {NoHost}] /\ p.last \in [Addrs -> Time] BY <1>1 DEF Pools
<1> HIDE DEF q
<1>7. /\ n \in Nat /\ ToSet(q) = {q[i] : i \in 1 .. n} /\ ToSet(q) \subseteq Addrs
      /\ \A i \in 1 .. n : q[i] \in ToSet(q)
  <2>1. n \in Nat /\ ToSet(q) = {q[i] : i \in 1 .. n} /\ ToSet(q) \subseteq Addrs BY <1>5, Members
  <2> QED BY <2>1
<1> HIDE DEF n
<1>8. /\ stale \in Int /\ stale >= 0 /\ stale <= n
      /\ \A i \in 1 .. n : p.last[q[i]] + MinLease < t => stale # 0 /\ stale <= i
      /\ stale # 0 => stale \in 1 .. n /\ p.last[q[stale]] + MinLease < t
  <2>1. CASE S = {} BY <1>3, <1>7, <2>1
  <2>2. CASE S # {}
    <3>1. S \subseteq 1 .. n /\ 1 \in Int /\ n \in Int BY <1>7
    <3> HIDE DEF S
    <3>2. Min(S) \in S /\ \A y \in S : Min(S) <= y BY <2>2, <3>1, MinIs
    <3>3. stale \in S /\ \A y \in S : stale <= y BY <1>3, <2>2, <3>2
    <3> QED BY <1>7, <3>1, <3>3 DEF S
  <2> QED BY <2>1, <2>2
<1>9. recent \in 0 .. n BY <1>7, <1>8
<1>10. /\ Distinct(u, Addrs) /\ Len(u) = recent /\ \A k \in 1 .. recent : u[k] = q[k]
       /\ Distinct(v, Addrs) /\ Len(v) = n - recent /\ \A k \in 1 .. (n - recent) : v[k] = q[recent + k]
       /\ ToSet(u) \cap ToSet(v) = {} /\ ToSet(u) \cup ToSet(v) = ToSet(q)
  <2> HIDE DEF recent
  <2> QED BY <1>5, <1>9, DistinctCut DEF n
<1> HIDE DEF u, v
<1>11. /\ Distinct(mapped', Addrs) /\ ToSet(mapped') = ToSet(u)
       /\ Distinct(dormant', Addrs) /\ ToSet(dormant') = ToSet(v)
  BY <1>2, <1>10, DistinctReverse
<1>12. Leased' = ToSet(q) BY <1>10, <1>11 DEF Leased
<1>13. ListsApart' BY <1>10, <1>11 DEF ListsApart
<1>14. ASSUME NEW a \in Addrs
       PROVE  /\ a \in ToSet(q) <=> host'[a] # NoHost
              /\ a \in ToSet(q) => \E k \in 1 .. Len(file) : file[k].addr = a /\ host'[a] = file[k].host
  <2>1. CASE a \in ToSet(q)
    <3>1. PICK k \in 1 .. Len(file) : file[k].addr = a /\ p.host[a] = file[k].host BY <1>5, <2>1
    <3>2. file[k].host \in Hosts BY DatabaseIs
    <3>3. file[k].host # NoHost BY <3>2, Clock
    <3> QED BY <1>2, <2>1, <3>1, <3>3
  <2>2. CASE a \notin ToSet(q) BY <1>2, <1>5, <2>2
  <2> QED BY <2>1, <2>2
<1>15. Holders'
  <2>1. ASSUME NEW a \in ToSet(q), NEW b \in ToSet(q), host'[a] = host'[b] PROVE a = b
    <3>1. a \in Addrs /\ b \in Addrs BY <1>7
    <3>2. PICK k \in 1 .. Len(file) : file[k].addr = a /\ host'[a] = file[k].host BY <1>14, <3>1
    <3>3. PICK l \in 1 .. Len(file) : file[l].addr = b /\ host'[b] = file[l].host BY <1>14, <3>1
    <3>4. k = l BY <2>1, <3>2, <3>3 DEF Database
    <3> QED BY <3>2, <3>3, <3>4
  <2>2. host' \in [Addrs -> Hosts \cup {NoHost}] BY <1>2, <1>6
  <2> QED BY <1>12, <1>14, <2>1, <2>2 DEF Holders
<1>16. ASSUME NEW a \in Addrs
       PROVE  last'[a] \in Time /\ last'[a] <= t /\ (a \notin ToSet(q) => last'[a] = 0)
  <2>1. CASE future /\ a \in ToSet(q)
    <3>1. last'[a] = t - MinLease BY <1>2, <2>1
    <3>2. t - MinLease \in Time /\ t - MinLease <= t
      <4>1. MaxTime \in Nat BY Sizes
      <4> QED BY <1>4, <4>1 DEF Time
    <3> QED BY <2>1, <3>1, <3>2
  <2>2. CASE ~ (future /\ a \in ToSet(q))
    <3>1. last'[a] = p.last[a] BY <1>2, <2>2
    <3>2. p.last[a] \in Time BY <1>6
    <3>3. CASE a \in ToSet(q)
      <4>1. ~ (p.last[a] > t) BY <2>2, <3>3
      <4>2. p.last[a] \in Int BY <1>4, <3>2
      <4>3. p.last[a] <= t BY <1>4, <4>1, <4>2
      <4> QED BY <3>1, <3>2, <3>3, <4>3
    <3>4. CASE a \notin ToSet(q) BY <1>4, <1>5, <3>1, <3>4, Clock
    <3> QED BY <3>3, <3>4
  <2> QED BY <2>1, <2>2
<1>17. Clocks'
  <2>1. last' = [a \in Addrs |-> last'[a]] BY <1>2
  <2>2. last' \in [Addrs -> Time] BY <1>16, <2>1
  <2>3. \A a \in Addrs : entry'[a] = NoEntry OBVIOUS
  <2>4. entry' \in [Addrs -> Time \cup {NoEntry}] OBVIOUS
  <2> QED BY <1>12, <1>16, <2>2, <2>3, <2>4 DEF Clocks
<1>18. Descending(last', dormant')
  <2> SUFFICES ASSUME NEW i \in 1 .. Len(dormant'), NEW j \in 1 .. Len(dormant'), i < j
               PROVE  last'[dormant'[i]] >= last'[dormant'[j]]
    BY DEF Descending
  <2>1. /\ recent + i \in 1 .. n /\ recent + j \in 1 .. n /\ recent + i < recent + j
        /\ i \in 1 .. (n - recent) /\ j \in 1 .. (n - recent)
    <3>1. Len(dormant') = n - recent BY <1>2, <1>10
    <3> HIDE DEF recent
    <3> QED BY <1>7, <1>9, <3>1
  <2>2. dormant'[i] = q[recent + i] /\ dormant'[j] = q[recent + j] BY <1>2, <1>10, <2>1
  <2> DEFINE a == dormant'[i]
             b == dormant'[j]
  <2>3. a \in ToSet(q) /\ b \in ToSet(q) /\ a \in Addrs /\ b \in Addrs BY <1>7, <2>1, <2>2
  <2>4. p.last[a] >= p.last[b]
    <3> HIDE DEF recent
    <3> QED BY <1>5, <2>1, <2>2 DEF Descending, n
  <2>5. last'[a] = (IF future THEN t - MinLease ELSE p.last[a])
        /\ last'[b] = (IF future THEN t - MinLease ELSE p.last[b])
    BY <1>2, <2>3
  <2>6. CASE future
    <3>1. last'[a] = t - MinLease /\ last'[b] = t - MinLease BY <2>5, <2>6
    <3> QED BY <1>4, <3>1
  <2>7. CASE ~ future BY <2>4, <2>5, <2>7
  <2> QED BY <2>6, <2>7
<1>19. PoolInv' BY <1>2, <1>4, <1>5, <1>12, <1>13, <1>15, <1>17, <1>18 DEF PoolInv
<1>20. ASSUME NEW k \in 1 .. Len(file), Loadable(c, file[k])
       PROVE  /\ file[k].addr \in ToSet(q) /\ host'[file[k].addr] = file[k].host
              /\ p.last[file[k].addr] = file[k].last
  <2>1. file[k].addr \in ToSet(q) BY <1>5, <1>20
  <2>2. PICK l \in 1 .. Len(file) : /\ file[l].addr = file[k].addr
                                    /\ p.host[file[k].addr] = file[l].host
                                    /\ p.last[file[k].addr] = file[l].last
    BY <1>5, <2>1
  <2>3. l = k BY <2>2 DEF Database
  <2> QED BY <1>2, <2>1, <2>2, <2>3
<1>21. ASSUME NEW k \in 1 .. Len(file), Loadable(c, file[k]), file[k].last + MinLease >= t,
              \A j \in 1 .. Len(file) : file[j].last <= t
       PROVE  file[k].addr \in ToSet(mapped')
  <2>1. file[k].addr \in ToSet(q) /\ p.last[file[k].addr] = file[k].last BY <1>20, <1>21
  <2>2. ~ future
    <3>1. SUFFICES ASSUME NEW a \in ToSet(q), p.last[a] > t PROVE FALSE OBVIOUS
    <3>2. PICK j \in 1 .. Len(file) : p.last[a] = file[j].last BY <1>5
    <3>3. a \in Addrs BY <1>7
    <3>4. p.last[a] \in Int BY <1>4, <1>6, <3>3
    <3> QED BY <1>4, <1>21, <3>1, <3>2, <3>4
  <2>3. PICK j \in 1 .. n : q[j] = file[k].addr BY <1>7, <2>1
  <2>4. \A i \in 1 .. n : p.last[q[i]] \in Int BY <1>4, <1>6, <1>7
  <2>5. stale = 0 \/ j < stale
    <3>1. SUFFICES ASSUME stale # 0, stale <= j PROVE FALSE BY <1>8
    <3>2. stale \in 1 .. n /\ p.last[q[stale]] + MinLease < t BY <1>8, <3>1
    <3>3. p.last[q[stale]] >= p.last[q[j]]
      <4>1. CASE stale = j BY <2>4, <3>2, <4>1
      <4>2. CASE stale < j BY <1>5, <3>2, <4>2 DEF Descending, n
      <4> QED BY <1>8, <3>1, <4>1, <4>2
    <3>4. p.last[q[j]] + MinLease >= t BY <1>21, <2>1, <2>3
    <3>5. p.last[q[j]] \in Int /\ p.last[q[stale]] \in Int BY <2>4, <3>2
    <3> QED BY <1>4, <3>2, <3>3, <3>4, <3>5
  <2>6. j \in 1 .. recent BY <1>7, <1>8, <2>2, <2>5
  <2>7. u[j] = q[j] BY <1>10, <2>6
  <2>8. u[j] \in ToSet(u)
    <3>1. ToSet(u) = {u[i] : i \in 1 .. Len(u)} BY <1>10, Members
    <3> HIDE DEF recent
    <3> QED BY <1>10, <2>6, <3>1
  <2> QED BY <1>11, <2>3, <2>7, <2>8
<1>22. \A a \in Leased' : \E k \in 1 .. Len(file) : file[k].addr = a /\ host'[a] = file[k].host
  BY <1>7, <1>12, <1>14
<1> QED BY <1>12, <1>19, <1>20, <1>21, <1>22

\* The daemon is dead, or the pool has its invariant; what is in the file, and
\* what is being written to it, are databases.
DbInv ==
  /\ PoolInv /\ Database(file) /\ (rows # NoRows => Database(rows)) /\ SavedOrPending
  /\ phase \in {"up", "saving", "stopping", "down"}
  /\ ~ Running => rows = NoRows /\ pending = FALSE /\ entry = [a \in Addrs |-> NoEntry]

\* The snapshot is a database with every lease that the pass has left.
LEMMA SnapshotIs ==
  ASSUME PoolInv, Age, PoolInv', Snapshot(mapped' \o dormant')
  PROVE  Database(rows') /\ rows' # NoRows /\ \A a \in Leased' : Saved(rows, a)'
<1> DEFINE q == mapped' \o dormant'
           Rw(a) == [addr |-> a, host |-> host[a], last |-> LastUse(a)]
<1>1. PICK G : Aged(G) BY AgeDoes
<1>2. /\ Distinct(mapped', Addrs) /\ Distinct(dormant', Addrs)
      /\ ToSet(mapped') \cap ToSet(dormant') = {}
  BY DEF PoolInv, ListsApart
<1>3. Distinct(q, Addrs) /\ ToSet(q) = Leased'
  BY <1>2, DistinctConcat DEF Leased
<1>4. rows' = [i \in DOMAIN q |-> Rw(q[i])] BY DEF Snapshot, Row
<1> HIDE DEF q
<1>5. /\ Len(q) \in Nat /\ DOMAIN q = 1 .. Len(q) /\ ToSet(q) = {q[i] : i \in 1 .. Len(q)}
      /\ ToSet(q) \subseteq Addrs /\ \A i, j \in 1 .. Len(q) : q[i] = q[j] => i = j
  BY <1>3, Members
<1>6. Leased' \subseteq Leased /\ \A a \in Leased' : host'[a] = host[a]
  <2>1. /\ ToSet(mapped') = ToSet(mapped) \ Resting
        /\ ToSet(dormant') = (ToSet(dormant) \cup Resting) \ G
        /\ G \subseteq ToSet(dormant) \cup Resting
        /\ host' = [a \in Addrs |-> IF a \in G THEN NoHost ELSE host[a]]
    BY <1>1 DEF Aged
  <2>2. Resting \subseteq ToSet(mapped) BY DEF Resting
  <2>3. Leased' \subseteq Leased BY <2>1, <2>2 DEF Leased
  <2>4. \A a \in Leased' : host'[a] # NoHost /\ a \in Addrs BY <1>3, <1>5 DEF PoolInv, Holders
  <2> QED BY <2>1, <2>3, <2>4
<1>7. /\ host \in [Addrs -> Hosts \cup {NoHost}] /\ \A a \in Addrs : a \in Leased => host[a] # NoHost
      /\ \A a, b \in Leased : host[a] = host[b] => a = b
  BY DEF PoolInv, Holders
<1>8. \A a \in Addrs : LastUse(a) \in Time BY RowIs
<1>9. ASSUME NEW i \in 1 .. Len(q)
      PROVE  /\ rows'[i] = Rw(q[i]) /\ q[i] \in Leased /\ Rw(q[i]) \in Rows
             /\ rows'[i].addr = q[i] /\ rows'[i].host = host[q[i]]
  <2>1. q[i] \in Leased /\ q[i] \in Addrs BY <1>3, <1>5, <1>6
  <2>2. host[q[i]] \in Hosts /\ LastUse(q[i]) \in Time BY <1>7, <1>8, <2>1
  <2>3. Rw(q[i]) \in Rows BY <2>1, <2>2 DEF Rows
  <2>4. rows'[i] = Rw(q[i]) BY <1>4, <1>5
  <2> QED BY <2>1, <2>3, <2>4
<1>10. rows' \in Seq(Rows) /\ Len(rows') = Len(q)
  <2>1. rows' = [i \in 1 .. Len(q) |-> Rw(q[i])] BY <1>4, <1>5
  <2> DEFINE m == Len(q)
             R(i) == Rw(q[i])
  <2>2. m \in Nat /\ \A i \in 1 .. m : R(i) \in Rows BY <1>5, <1>9
  <2>3. rows' = [i \in 1 .. m |-> R(i)] BY <2>1
  <2> HIDE DEF m, R
  <2>4. rows' \in [1 .. m -> Rows] BY <2>2, <2>3
  <2>5. rows' \in Seq(Rows) /\ Len(rows') = m BY <2>2, <2>4
  <2> QED BY <2>5 DEF m
<1>11. ASSUME NEW i \in 1 .. Len(q), NEW j \in 1 .. Len(q), i # j
       PROVE  rows'[i].addr # rows'[j].addr /\ rows'[i].host # rows'[j].host
  <2>1. q[i] # q[j] BY <1>5, <1>11
  <2>2. host[q[i]] # host[q[j]] BY <1>7, <1>9, <2>1
  <2>3. rows'[i].addr = q[i] /\ rows'[j].addr = q[j]
        /\ rows'[i].host = host[q[i]] /\ rows'[j].host = host[q[j]]
    BY <1>9
  <2> QED BY <2>1, <2>2, <2>3
<1>12. Database(rows') BY <1>10, <1>11 DEF Database
<1>13. rows' # NoRows BY <1>10, NoRowsApart DEF Rows
<1>14. ASSUME NEW a \in Leased' PROVE \E i \in DOMAIN rows' : rows'[i].addr = a /\ rows'[i].host = host'[a]
  <2>1. PICK i \in 1 .. Len(q) : q[i] = a BY <1>3, <1>5
  <2>2. rows'[i].addr = a /\ rows'[i].host = host[a] BY <1>9, <2>1
  <2>3. i \in DOMAIN rows' BY <1>4, <1>5
  <2> QED BY <1>6, <2>2, <2>3
<1> QED BY <1>12, <1>13, <1>14 DEF Saved

\* A lease that keeps its host is saved where it was.
LEMMA StaysSaved ==
  ASSUME SavedOrPending, UNCHANGED <<rows, file>>, pending => pending',
         Running, \A a \in Leased' : a \in Leased /\ host'[a] = host[a]
  PROVE  SavedOrPending'
<1> SUFFICES ASSUME NEW a \in Leased', ~ pending'
             PROVE  Saved(IF rows # NoRows THEN rows ELSE file, a)'
  BY DEF SavedOrPending
<1>1. Saved(IF rows # NoRows THEN rows ELSE file, a) BY DEF SavedOrPending
<1>2. host'[a] = host[a] OBVIOUS
<1> QED BY <1>1, <1>2 DEF Saved

LEMMA MaintKeeps ==
  ASSUME DbInv, Running, NEW shutdown \in BOOLEAN, Maint(shutdown), phase' \in {"up", "saving", "stopping"}
  PROVE  DbInv'
<1>1. /\ rows = NoRows /\ Age /\ UNCHANGED <<conf, now, file, lastWrite>>
      /\ \/ Snapshot(mapped' \o dormant') \/ NoSnapshot \/ UNCHANGED <<pending, rows>>
  BY DEF Maint
<1>2. PoolInv /\ Database(file) /\ SavedOrPending BY DEF DbInv
<1>3. pending' \in BOOLEAN BY <1>1, <1>2 DEF Snapshot, NoSnapshot, PoolInv
<1>4. PoolInv' /\ Leased' \subseteq Leased BY <1>1, <1>2, <1>3, AgeKeeps
<1>5. PICK G : Aged(G) BY <1>1, <1>2, AgeDoes
<1>6. \A a \in Leased' : a \in Leased /\ host'[a] = host[a]
  <2>1. host' = [a \in Addrs |-> IF a \in G THEN NoHost ELSE host[a]] BY <1>5 DEF Aged
  <2>2. \A a \in Leased' : host'[a] # NoHost /\ a \in Addrs
    <3>1. Leased' \subseteq Addrs BY <1>4, ChainIs DEF PoolInv
    <3> QED BY <1>4, <3>1 DEF PoolInv, Holders
  <2> QED BY <1>4, <2>1, <2>2
<1>7. Running' BY DEF Running
<1>8. CASE Snapshot(mapped' \o dormant')
  <2>1. Database(rows') /\ rows' # NoRows /\ \A a \in Leased' : Saved(rows, a)'
    BY <1>1, <1>2, <1>4, <1>8, SnapshotIs
  <2>2. SavedOrPending' BY <2>1 DEF SavedOrPending
  <2> QED BY <1>1, <1>2, <1>4, <1>7, <2>1, <2>2 DEF DbInv
<1>9. CASE NoSnapshot
  <2>1. SavedOrPending' BY <1>9 DEF NoSnapshot, SavedOrPending
  <2> QED BY <1>1, <1>2, <1>4, <1>7, <1>9, <2>1 DEF DbInv, NoSnapshot
<1>10. CASE UNCHANGED <<pending, rows>>
  <2>1. SavedOrPending' BY <1>1, <1>2, <1>6, <1>10, StaysSaved
  <2> QED BY <1>1, <1>2, <1>4, <1>7, <1>10, <2>1 DEF DbInv
<1> QED BY <1>1, <1>8, <1>9, <1>10

\* What a lookup assigns is pending; otherwise no lease changes hands.
LEMMA LookupSaved ==
  ASSUME DbInv, Running, Lookup, UNCHANGED <<phase, file, rows>>
  PROVE  DbInv'
<1>1. PoolInv /\ SavedOrPending BY DEF DbInv
<1>2. PoolInv' BY <1>1, LookupKeeps
<1>3. \/ pending' = TRUE
      \/ pending' = pending /\ \A a \in Leased' : a \in Leased /\ host'[a] = host[a]
  <2>1. CASE \E a \in Addrs : Answer(a) \/ Hit(a) \/ AgeOut(a)
    <3>1. UNCHANGED <<free, mapped, dormant, host, pending>> BY <1>1, <2>1, AnswerKeeps
    <3> QED BY <3>1 DEF Leased
  <2>2. ASSUME NEW h \in Hosts, AssignFree(h) \/ Reassign(h) PROVE pending' = TRUE
    BY <1>1, <2>2, AssignFreeKeeps, ReassignKeeps
  <2>3. ASSUME NEW h \in Hosts, Reactivate(h)
        PROVE  pending' = pending /\ \A a \in Leased' : a \in Leased /\ host'[a] = host[a]
    <3>1. PICK a \in Dormant(h) : Activate(a, h) BY <1>1, <2>3, ReactivateKeeps
    <3>2. Leased' = Leased BY <1>1, <2>3, ReactivateKeeps
    <3>3. host[a] = h /\ host' = [host EXCEPT ![a] = h] BY <3>1 DEF Dormant, Activate
    <3>4. host \in [Addrs -> Hosts \cup {NoHost}] BY <1>1 DEF PoolInv, Holders
    <3>5. host' = host BY <3>3, <3>4
    <3> QED BY <2>3, <3>2, <3>5 DEF Reactivate
  <2> QED BY <2>1, <2>2, <2>3 DEF Lookup, Assign
<1>4. SavedOrPending'
  <2>1. CASE pending' = TRUE BY <2>1 DEF SavedOrPending
  <2>2. CASE pending' = pending /\ \A a \in Leased' : a \in Leased /\ host'[a] = host[a]
    BY <1>1, <2>2, StaysSaved
  <2> QED BY <1>3, <2>1, <2>2
<1> QED BY <1>2, <1>4 DEF DbInv, Running

LEMMA WriteKeeps ==
  ASSUME DbInv, WriteDone \/ WriteFails
  PROVE  DbInv'
<1>1. /\ rows # NoRows /\ rows' = NoRows /\ phase' = IF phase = "saving" THEN "stopping" ELSE phase
      /\ UNCHANGED <<conf, now, lists>>
  BY DEF WriteDone, WriteFails, AfterWrite
<1>2. Running BY <1>1 DEF DbInv
<1>3. phase' \in {"up", "saving", "stopping"} BY <1>1, <1>2 DEF DbInv, Running
<1>4. pending' \in BOOLEAN BY DEF DbInv, PoolInv, WriteDone, WriteFails
<1>5. PoolInv'
  <2>1. PoolInv BY DEF DbInv
  <2>2. UNCHANGED <<conf, now, free, mapped, dormant, host, last, entry>> BY <1>1 DEF lists
  <2> QED BY <1>4, <2>1, <2>2 DEF PoolInv, ListsApart, Holders, Clocks, Leased, Descending, Chain
<1>6. Leased' = Leased /\ host' = host BY <1>1 DEF lists, Leased
<1>7. CASE WriteDone
  <2>1. file' = rows /\ pending' = pending BY <1>7 DEF WriteDone
  <2>2. Database(file') BY <1>1, <2>1 DEF DbInv
  <2>3. SavedOrPending'
    <3>1. SUFFICES ASSUME NEW a \in Leased, ~ pending PROVE Saved(file, a)'
      BY <1>1, <1>6, <2>1 DEF SavedOrPending
    <3>2. Saved(rows, a) BY <1>1, <1>2, <3>1 DEF DbInv, SavedOrPending
    <3> QED BY <1>6, <2>1, <3>2 DEF Saved
  <2> QED BY <1>1, <1>3, <1>5, <2>2, <2>3 DEF DbInv, Running
<1>8. CASE WriteFails
  <2>1. pending' = TRUE /\ file' = file BY <1>8 DEF WriteFails
  <2>2. SavedOrPending' BY <2>1 DEF SavedOrPending
  <2>3. Database(file') BY <2>1 DEF DbInv
  <2> QED BY <1>1, <1>3, <1>5, <2>2, <2>3 DEF DbInv, Running
<1> QED BY <1>7, <1>8

LEMMA GoneKeeps ==
  ASSUME DbInv, Gone
  PROVE  DbInv'
<1>1. /\ phase' = "down" /\ pending' = FALSE /\ rows' = NoRows /\ UNCHANGED <<conf, now, file>>
      /\ mapped' = <<>> /\ entry' = [a \in Addrs |-> NoEntry]
      /\ free' = EmptyPool.free /\ dormant' = EmptyPool.dormant
      /\ host' = EmptyPool.host /\ last' = EmptyPool.last
  BY DEF Gone
<1>2. /\ dormant' = <<>> /\ host' = [a \in Addrs |-> NoHost] /\ last' = [a \in Addrs |-> 0]
  BY <1>1 DEF EmptyPool
<1>3. Leased' = {} /\ ToSet(mapped') = {} /\ ToSet(dormant') = {}
  BY <1>1, <1>2, DistinctEmpty DEF Leased
<1>4. ListsApart' BY <1>1, <1>2, DistinctEmpty DEF ListsApart
<1>5. Holders' BY <1>2, <1>3 DEF Holders
<1>6. Clocks'
  <2>1. now' \in Time BY <1>1 DEF DbInv, PoolInv
  <2>2. now' >= 0 BY <2>1 DEF Time
  <2> QED BY <1>1, <1>2, <1>3, <2>2, Clock DEF Clocks
<1>7. Chain(free', Leased')
  <2>1. Part(conf, EmptyPool, 0) BY EmptyPart
  <2>2. Chain(EmptyPool.free, {}) BY <1>1, <1>3, <2>1 DEF Part
  <2> QED BY <1>1, <1>3, <2>2
<1>8. Descending(last', dormant') BY <1>2 DEF Descending
<1>9. PoolInv' BY <1>1, <1>4, <1>5, <1>6, <1>7, <1>8 DEF DbInv, PoolInv
<1>10. SavedOrPending' BY <1>1 DEF SavedOrPending, Running
<1> QED BY <1>1, <1>9, <1>10 DEF DbInv

LEMMA StartIs ==
  ASSUME DbInv, Start
  PROVE  /\ DbInv'
         /\ \A k \in 1 .. Len(file) : Loadable(conf', file[k]) =>
              /\ file[k].addr \in Leased' /\ host'[file[k].addr] = file[k].host
              /\ (file[k].last + MinLease >= now' /\ \A j \in 1 .. Len(file) : file[j].last <= now')
                   => file[k].addr \in ToSet(mapped')
<1>1. PICK c \in Configs, t \in Boot : conf' = c /\ now' = t /\ Loaded(c, t) BY DEF Start
<1>2. /\ phase = "down" /\ phase' = "up" /\ UNCHANGED <<entry, pending, file, rows>> BY DEF Start
<1>3. /\ Database(file) /\ rows = NoRows /\ pending = FALSE /\ entry = [a \in Addrs |-> NoEntry]
  BY <1>2 DEF DbInv, Running
<1>4. /\ PoolInv'
      /\ \A a \in Leased' : \E k \in 1 .. Len(file) : file[k].addr = a /\ host'[a] = file[k].host
      /\ \A k \in 1 .. Len(file) : Loadable(c, file[k]) =>
           /\ file[k].addr \in Leased' /\ host'[file[k].addr] = file[k].host
           /\ (file[k].last + MinLease >= t /\ \A j \in 1 .. Len(file) : file[j].last <= t)
                => file[k].addr \in ToSet(mapped')
  <2>1. pending' \in BOOLEAN /\ entry' = [a \in Addrs |-> NoEntry] BY <1>2, <1>3
  <2> QED BY <1>1, <1>3, <2>1, LoadedIs
<1>5. SavedOrPending'
  <2>1. SUFFICES ASSUME NEW a \in Leased' PROVE Saved(file, a)'
    BY <1>2, <1>3 DEF SavedOrPending
  <2>2. PICK k \in 1 .. Len(file) : file[k].addr = a /\ host'[a] = file[k].host BY <1>4
  <2>3. DOMAIN file = 1 .. Len(file) BY <1>3, DatabaseIs
  <2> QED BY <1>2, <2>2, <2>3 DEF Saved
<1>6. DbInv' BY <1>2, <1>3, <1>4, <1>5 DEF DbInv, Running
<1> QED BY <1>1, <1>4, <1>6

LEMMA DbStep == DbInv /\ [DbNext]_dbvars => DbInv'
<1> SUFFICES ASSUME DbInv, [DbNext]_dbvars PROVE DbInv' OBVIOUS
<1>1. CASE Running /\ Lookup /\ UNCHANGED <<phase, file, rows, lastWrite>>
  BY <1>1, LookupSaved
<1>2. CASE Running /\ Tick /\ rows = NoRows /\ UNCHANGED <<phase, file, rows, lastWrite>>
  <2>1. PoolInv /\ UNCHANGED <<conf, lists, pending>> /\ now' = now + 1 /\ now < MaxTime
    BY <1>2 DEF DbInv, Tick
  <2>2. now' \in Time /\ now' >= now
    <3>1. now \in Time /\ MaxTime \in Nat BY <2>1, Sizes DEF PoolInv
    <3> QED BY <2>1, <3>1 DEF Time
  <2>3. PoolInv' BY <2>1, <2>2, TickKeeps
  <2>4. SavedOrPending'
    <3>1. Leased' = Leased /\ host' = host BY <2>1 DEF lists, Leased
    <3> QED BY <1>2, <2>1, <3>1, StaysSaved DEF DbInv
  <2> QED BY <1>2, <2>3, <2>4 DEF DbInv, Running
<1>3. CASE PeriodicMaint
  <2>1. Running /\ Maint(FALSE) /\ phase' \in {"up", "saving", "stopping"}
    BY <1>3 DEF PeriodicMaint, Running
  <2> QED BY <2>1, MaintKeeps
<1>4. CASE Hangup
  <2>1. Running /\ Maint(TRUE) /\ phase' \in {"up", "saving", "stopping"}
    BY <1>4 DEF Hangup, Running
  <2> QED BY <2>1, MaintKeeps
<1>5. CASE StopSignal
  <2>1. Running /\ Maint(TRUE) /\ phase' \in {"up", "saving", "stopping"}
    BY <1>5 DEF StopSignal, Running
  <2> QED BY <2>1, MaintKeeps
<1>6. CASE WriteDone \/ WriteFails BY <1>6, WriteKeeps
<1>7. CASE Crash \/ Exit BY <1>7, GoneKeeps DEF Crash, Exit
<1>8. CASE Start BY <1>8, StartIs
<1>9. CASE UNCHANGED dbvars
  <2>1. /\ UNCHANGED <<conf, now, free, mapped, dormant, host, last, entry, pending>>
        /\ UNCHANGED <<phase, file, rows>>
    BY <1>9 DEF dbvars, vars, lists
  <2>2. PoolInv' BY <2>1, PoolStep DEF DbInv, vars, lists
  <2>3. SavedOrPending'
    BY <2>1 DEF DbInv, SavedOrPending, Running, Leased, Saved
  <2> QED BY <2>1, <2>2, <2>3 DEF DbInv, Running
<1> QED BY <1>1, <1>2, <1>3, <1>4, <1>5, <1>6, <1>7, <1>8, <1>9 DEF DbNext

LEMMA DbAlways == DbSpec => []DbInv
<1>1. DbInit => DbInv
  <2> SUFFICES ASSUME DbInit PROVE DbInv OBVIOUS
  <2>1. Init /\ phase = "up" /\ file = <<>> /\ rows = NoRows BY DEF DbInit
  <2>2. PoolInv BY <2>1, PoolInit
  <2>3. Database(file)
    <3>1. file \in Seq(Rows) /\ Len(file) = 0 BY <2>1
    <3> QED BY <3>1 DEF Database
  <2>4. Leased = {} BY <2>1, DistinctEmpty DEF Init, EmptyPool, Leased
  <2> QED BY <2>1, <2>2, <2>3, <2>4 DEF DbInv, SavedOrPending, Running
<1> QED BY <1>1, DbStep, PTL DEF DbSpec

\* Under crashes, failed writes, failed snapshots and restarts with another
\* tayga.conf, every assignment is in the database, on its way to it, or asked
\* to be saved: map_write_pending is set and taken back under map_mutex.
THEOREM SavedOrPendingAlways == DbSpec => []SavedOrPending
<1>1. DbInv => SavedOrPending BY DEF DbInv
<1> QED BY <1>1, DbAlways, PTL

\* write_to_file only ever leaves a database in which no address and no host
\* is twice, so load_map meets no conflicting rows that the daemon wrote.
THEOREM DatabaseConsistentAlways == DbSpec => []DatabaseConsistent
<1>1. DbInv => DatabaseConsistent
  <2> SUFFICES ASSUME DbInv PROVE DatabaseConsistent OBVIOUS
  <2>1. Database(file) BY DEF DbInv
  <2>2. DOMAIN file = 1 .. Len(file) BY <2>1, DatabaseIs
  <2> QED BY <2>1, <2>2 DEF Database, DatabaseConsistent
<1> QED BY <1>1, DbAlways, PTL

\* load_dynamic gives every host of the database its address again, unless
\* tayga.conf took the one or the other, and maps those used within MinLease.
THEOREM RestartKeepsLeasesAlways == DbSpec => RestartKeepsLeases
<1> DEFINE Kept ==
      Start =>
       \A i \in DOMAIN file :
         Loadable(conf', file[i]) =>
           /\ file[i].addr \in Leased' /\ host'[file[i].addr] = file[i].host
           /\ (file[i].last + MinLease >= now' /\ \A j \in DOMAIN file : file[j].last <= now')
                => file[i].addr \in ToSet(mapped')
<1>1. DbInv => Kept
  <2> SUFFICES ASSUME DbInv, Start PROVE Kept OBVIOUS
  <2>1. DOMAIN file = 1 .. Len(file)
    <3>1. Database(file) BY DEF DbInv
    <3> QED BY <3>1, DatabaseIs
  <2> QED BY <2>1, StartIs
<1>2. DbSpec => [][Kept]_dbvars
  <2> HIDE DEF Kept
  <2>1. DbInv => [Kept]_dbvars BY <1>1
  <2> QED BY <2>1, DbAlways, PTL
<1> QED BY <1>2 DEF RestartKeepsLeases

\* What holds of the pool holds as well when its leases come from a database:
\* load_map cuts the runs as alloc_map_dynamic does, in the order of the rows.
THEOREM LoadedPoolAlways == DbSpec => [](TypeOK /\ RunsPartition /\ SearchIsCircular)
<1>1. DbInv => TypeOK /\ RunsPartition /\ SearchIsCircular
  BY PoolTypes, PoolRuns, SearchCircular DEF DbInv
<1> QED BY <1>1, DbAlways, PTL

=============================================================================
