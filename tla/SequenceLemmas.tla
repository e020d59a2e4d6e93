--------------------------- MODULE SequenceLemmas ---------------------------
(***************************************************************************)
(* What the proofs of several components use of sequences and of folds:    *)
(* induction over the natural numbers, the set of a sequence's elements,   *)
(* and the operators of the community modules that are defined by          *)
(* recursion over data.                                                    *)
(***************************************************************************)
EXTENDS Integers, Sequences, FiniteSets, SequencesExt,
        FiniteSetTheorems, SequenceTheorems, TLAPS

----------------------------------------------------------------------------
(* Induction *)

\* Induction over the natural numbers, for a set: the least number outside would be
\* the least of the intervals 1..n, and these are well-founded under inclusion.
LEMMA NatSet ==
  ASSUME NEW T, T \subseteq Nat, 0 \in T, \A n \in T : n + 1 \in T
  PROVE  T = Nat
<1> SUFFICES ASSUME Nat \ T # {} PROVE FALSE OBVIOUS
<1> DEFINE Out == {1..n : n \in Nat \ T}
           R == StrictSubsetOrdering(Nat)
<1>1. Out \subseteq FiniteSubsetsOf(Nat)
  <2>1. ASSUME NEW n \in Nat PROVE 1..n \subseteq Nat /\ IsFiniteSet(1..n) BY FS_Interval
  <2> QED BY <2>1 DEF FiniteSubsetsOf
<1>2. PICK x \in Out : \A y \in Out : <<y, x>> \notin R
  <2>1. IsWellFoundedOn(R, FiniteSubsetsOf(Nat)) BY FS_StrictSubsetOrderingWellFounded
  <2>2. Out # {} OBVIOUS
  <2> HIDE DEF Out, R
  <2> QED BY <1>1, <2>1, <2>2, WFMin
<1>3. PICK n \in Nat \ T : x = 1..n OBVIOUS
<1>4. n - 1 \in Nat \ T
  <2>1. n # 0 OBVIOUS
  <2>2. n - 1 \in Nat BY <2>1
  <2>3. n - 1 + 1 = n OBVIOUS
  <2> QED BY <2>2, <2>3
<1>5. 1..(n - 1) \subseteq 1..n /\ 1..(n - 1) # 1..n
  <2>1. n \in 1..n /\ n \notin 1..(n - 1) BY <1>4
  <2> QED BY <2>1
<1>6. <<1..(n - 1), 1..n>> \in R BY <1>4, <1>5 DEF StrictSubsetOrdering
<1>7. 1..(n - 1) \in Out BY <1>4
<1> QED BY <1>2, <1>3, <1>6, <1>7

----------------------------------------------------------------------------
(* Sequences without repetitions, and the sets of their elements *)

\* A sequence of distinct members of S.
Distinct(s, S) == s \in Seq(S) /\ IsInjective(s)

LEMMA ElementsOf ==
  ASSUME NEW S, NEW s \in Seq(S)
  PROVE  /\ ToSet(s) \subseteq S
         /\ ToSet(s) = {s[i] : i \in 1..Len(s)}
         /\ s = <<>> <=> ToSet(s) = {}
         /\ DOMAIN s = 1..Len(s) /\ Len(s) \in Nat
BY DEF ToSet

LEMMA DistinctEmpty == \A S : Distinct(<<>>, S) /\ ToSet(<<>>) = {}
BY DEF Distinct, IsInjective, ToSet

LEMMA DistinctOne ==
  ASSUME NEW S, NEW e \in S
  PROVE  Distinct(<<e>>, S) /\ ToSet(<<e>>) = {e} /\ Len(<<e>>) = 1
BY DEF Distinct, IsInjective, ToSet

LEMMA ConcatSet ==
  ASSUME NEW S, NEW s \in Seq(S), NEW t \in Seq(S)
  PROVE  ToSet(s \o t) = ToSet(s) \cup ToSet(t)
<1>1. /\ s \o t \in Seq(S) /\ Len(s \o t) = Len(s) + Len(t)
      /\ \A i \in 1..(Len(s) + Len(t)) : (s \o t)[i] = IF i <= Len(s) THEN s[i] ELSE t[i - Len(s)]
      /\ Len(s) \in Nat /\ Len(t) \in Nat
  BY ConcatProperties, LenProperties
<1>2. /\ ToSet(s) = {s[i] : i \in 1..Len(s)} /\ ToSet(t) = {t[i] : i \in 1..Len(t)}
      /\ ToSet(s \o t) = {(s \o t)[i] : i \in 1..(Len(s) + Len(t))}
  <2>1. \A u \in Seq(S) : ToSet(u) = {u[i] : i \in 1..Len(u)} BY ElementsOf
  <2> QED BY <1>1, <2>1
<1>3. ASSUME NEW i \in 1..Len(s) PROVE s[i] \in ToSet(s \o t)
  <2>1. i \in 1..(Len(s) + Len(t)) /\ s[i] = (s \o t)[i] BY <1>1
  <2> QED BY <1>2, <2>1
<1>4. ASSUME NEW i \in 1..Len(t) PROVE t[i] \in ToSet(s \o t)
  <2>1. i + Len(s) \in 1..(Len(s) + Len(t)) /\ t[i] = (s \o t)[i + Len(s)] BY <1>1
  <2> QED BY <1>2, <2>1
<1>5. ASSUME NEW i \in 1..(Len(s) + Len(t)) PROVE (s \o t)[i] \in ToSet(s) \cup ToSet(t)
  <2>1. CASE i <= Len(s) BY <1>1, <1>2, <2>1
  <2>2. CASE i > Len(s)
    <3>1. i - Len(s) \in 1..Len(t) BY <1>1, <2>2
    <3> QED BY <1>1, <1>2, <2>2, <3>1
  <2> QED BY <1>1, <2>1, <2>2
<1> QED BY <1>2, <1>3, <1>4, <1>5

LEMMA DistinctConcat ==
  ASSUME NEW S, NEW s, NEW t, Distinct(s, S), Distinct(t, S), ToSet(s) \cap ToSet(t) = {}
  PROVE  /\ Distinct(s \o t, S)
         /\ ToSet(s \o t) = ToSet(s) \cup ToSet(t)
         /\ Len(s \o t) = Len(s) + Len(t)
<1> USE DEF Distinct
<1>1. /\ s \o t \in Seq(S) /\ Len(s \o t) = Len(s) + Len(t)
      /\ \A i \in 1..(Len(s) + Len(t)) : (s \o t)[i] = IF i <= Len(s) THEN s[i] ELSE t[i - Len(s)]
      /\ Len(s) \in Nat /\ Len(t) \in Nat
  BY ConcatProperties, LenProperties
<1>2. /\ ToSet(s) = {s[i] : i \in 1..Len(s)} /\ ToSet(t) = {t[i] : i \in 1..Len(t)}
      /\ ToSet(s \o t) = {(s \o t)[i] : i \in 1..(Len(s) + Len(t))}
      /\ DOMAIN s = 1..Len(s) /\ DOMAIN t = 1..Len(t)
      /\ DOMAIN (s \o t) = 1..(Len(s) + Len(t))
  <2>1. s \in Seq(S) /\ t \in Seq(S) /\ s \o t \in Seq(S) BY <1>1
  <2>2. \A x \in Seq(S) : ToSet(x) = {x[i] : i \in 1..Len(x)} BY ElementsOf
  <2>3. \A x \in Seq(S) : DOMAIN x = 1..Len(x) BY LenProperties
  <2>4. Len(s \o t) = Len(s) + Len(t) BY <1>1
  <2> QED BY <2>1, <2>2, <2>3, <2>4
<1>3. ToSet(s \o t) = ToSet(s) \cup ToSet(t) BY ConcatSet
<1>4. IsInjective(s \o t)
  <2> SUFFICES ASSUME NEW i \in 1..Len(s \o t), NEW j \in 1..Len(s \o t), (s \o t)[i] = (s \o t)[j]
               PROVE  i = j
    BY <1>1, <1>2 DEF IsInjective
  <2>1. \A k \in 1..Len(s \o t) : IF k <= Len(s) THEN (s \o t)[k] \in ToSet(s)
                                  ELSE k - Len(s) \in 1..Len(t) /\ (s \o t)[k] \in ToSet(t)
    BY <1>1, <1>2
  <2>2. CASE i <= Len(s) /\ j <= Len(s)
    BY <1>1, <1>2, <2>2 DEF IsInjective
  <2>3. CASE i > Len(s) /\ j > Len(s)
    <3>1. /\ i - Len(s) \in DOMAIN t /\ j - Len(s) \in DOMAIN t
          /\ t[i - Len(s)] = t[j - Len(s)]
      BY <1>1, <1>2, <2>3
    <3>2. i - Len(s) = j - Len(s)
      BY <3>1 DEF IsInjective
    <3> QED BY <1>1, <3>2
  <2> QED BY <1>1, <2>1, <2>2, <2>3
<1> QED BY <1>1, <1>3, <1>4

\* The order of the elements of a concatenation.
LEMMA ConcatAt ==
  ASSUME NEW S, NEW s \in Seq(S), NEW t \in Seq(S), NEW k \in 1..Len(s \o t)
  PROVE  \/ k \in 1..Len(s) /\ (s \o t)[k] = s[k]
         \/ k - Len(s) \in 1..Len(t) /\ k > Len(s) /\ (s \o t)[k] = t[k - Len(s)]
BY ConcatProperties, LenProperties

LEMMA DistinctAppend ==
  ASSUME NEW S, NEW s, NEW e \in S, Distinct(s, S), e \notin ToSet(s)
  PROVE  /\ Distinct(Append(s, e), S)
         /\ ToSet(Append(s, e)) = ToSet(s) \cup {e}
         /\ Len(Append(s, e)) = Len(s) + 1
<1>1. Append(s, e) = s \o <<e>> BY AppendIsConcat DEF Distinct
<1>2. Distinct(<<e>>, S) /\ ToSet(<<e>>) = {e} /\ Len(<<e>>) = 1 BY DistinctOne
<1>3. ToSet(s) \cap ToSet(<<e>>) = {} BY <1>2
<1>4. /\ Distinct(s \o <<e>>, S)
      /\ ToSet(s \o <<e>>) = ToSet(s) \cup ToSet(<<e>>)
      /\ Len(s \o <<e>>) = Len(s) + Len(<<e>>)
  BY <1>2, <1>3, DistinctConcat
<1> QED BY <1>1, <1>2, <1>4

\* The element taken from the front of a queue.
LEMMA DistinctTail ==
  ASSUME NEW S, NEW s, Distinct(s, S), s # <<>>
  PROVE  /\ Distinct(Tail(s), S) /\ Len(Tail(s)) = Len(s) - 1
         /\ Head(s) \in ToSet(s) /\ Head(s) \in S
         /\ ToSet(Tail(s)) = ToSet(s) \ {Head(s)}
         /\ \A i \in 1..Len(Tail(s)) : Tail(s)[i] = s[i + 1]
<1> USE DEF Distinct
<1>1. /\ Len(s) \in Nat \ {0} /\ Head(s) = s[1] /\ Head(s) \in S
      /\ Tail(s) \in Seq(S) /\ Len(Tail(s)) = Len(s) - 1
      /\ \A i \in 1..Len(Tail(s)) : Tail(s)[i] = s[i + 1]
  BY EmptySeq, HeadTailProperties
<1>2. /\ ToSet(s) = {s[i] : i \in 1..Len(s)} /\ DOMAIN s = 1..Len(s)
      /\ ToSet(Tail(s)) = {Tail(s)[i] : i \in 1..Len(Tail(s))} /\ DOMAIN Tail(s) = 1..Len(Tail(s))
  BY <1>1, ElementsOf
<1>3. \A i, j \in 1..Len(s) : s[i] = s[j] => i = j BY <1>2 DEF IsInjective
<1>4. IsInjective(Tail(s))
  <2> SUFFICES ASSUME NEW i \in 1..Len(Tail(s)), NEW j \in 1..Len(Tail(s)), Tail(s)[i] = Tail(s)[j]
               PROVE  i = j
    BY <1>2 DEF IsInjective
  <2>1. i + 1 = j + 1 BY <1>1, <1>3
  <2> QED BY <2>1
<1>5. ToSet(Tail(s)) = ToSet(s) \ {Head(s)}
  <2>1. ASSUME NEW i \in 1..Len(Tail(s)) PROVE Tail(s)[i] \in ToSet(s) \ {Head(s)}
    <3>1. i + 1 \in 1..Len(s) /\ 1 \in 1..Len(s) /\ i + 1 # 1 BY <1>1
    <3> QED BY <1>1, <1>2, <1>3, <3>1
  <2>2. ASSUME NEW i \in 1..Len(s), s[i] # Head(s) PROVE s[i] \in ToSet(Tail(s))
    <3>1. i - 1 \in 1..Len(Tail(s)) /\ Tail(s)[i - 1] = s[i - 1 + 1] BY <1>1, <2>2
    <3>2. i - 1 + 1 = i OBVIOUS
    <3> QED BY <1>2, <3>1, <3>2
  <2> QED BY <1>2, <2>1, <2>2
<1> QED BY <1>1, <1>2, <1>4, <1>5

\* The element taken from the top of a stack.
LEMMA DistinctFront ==
  ASSUME NEW S, NEW s, Distinct(s, S), s # <<>>
  PROVE  /\ Distinct(Front(s), S) /\ Len(Front(s)) = Len(s) - 1
         /\ Last(s) \in ToSet(s) /\ Last(s) \in S
         /\ ToSet(Front(s)) = ToSet(s) \ {Last(s)}
<1> USE DEF Distinct
<1>1. Len(s) \in Nat \ {0} /\ \A i \in 1..Len(s) : s[i] \in S
  BY EmptySeq, ElementOfSeq
<1>2. /\ Front(s) \in Seq(S) /\ Len(Front(s)) = Len(s) - 1
      /\ \A i \in 1..Len(Front(s)) : Front(s)[i] = s[i]
  <2> DEFINE n == Len(s) - 1
  <2>1. n \in Nat /\ 1 \in Int /\ n \in Int /\ \A i \in 1..n : s[i] \in S BY <1>1
  <2> HIDE DEF n
  <2>2. /\ SubSeq(s, 1, n) \in Seq(S)
        /\ Len(SubSeq(s, 1, n)) = IF 1 <= n THEN n - 1 + 1 ELSE 0
        /\ \A i \in 1..(n - 1 + 1) : SubSeq(s, 1, n)[i] = s[1 + i - 1]
    BY <2>1, SubSeqProperties
  <2>3. Len(SubSeq(s, 1, n)) = n /\ \A i \in 1..n : SubSeq(s, 1, n)[i] = s[i] BY <2>1, <2>2
  <2> QED BY <2>1, <2>2, <2>3 DEF Front, n
<1>3. /\ ToSet(s) = {s[i] : i \in 1..Len(s)} /\ DOMAIN s = 1..Len(s)
      /\ ToSet(Front(s)) = {Front(s)[i] : i \in 1..Len(Front(s))} /\ DOMAIN Front(s) = 1..Len(Front(s))
  BY <1>2, ElementsOf
<1>4. \A i, j \in 1..Len(s) : s[i] = s[j] => i = j BY <1>3 DEF IsInjective
<1>5. IsInjective(Front(s))
  BY <1>1, <1>2, <1>3, <1>4 DEF IsInjective
<1>6. Last(s) = s[Len(s)] /\ Len(s) \in 1..Len(s) BY <1>1 DEF Last
<1>7. ToSet(Front(s)) = ToSet(s) \ {Last(s)}
  <2>1. ASSUME NEW i \in 1..Len(Front(s)) PROVE Front(s)[i] \in ToSet(s) \ {Last(s)}
    BY <1>1, <1>2, <1>3, <1>4, <1>6
  <2>2. ASSUME NEW i \in 1..Len(s), s[i] # Last(s) PROVE s[i] \in ToSet(Front(s))
    <3>1. i \in 1..Len(Front(s)) BY <1>1, <1>2, <1>6, <2>2
    <3> QED BY <1>2, <1>3, <3>1
  <2> QED BY <1>3, <2>1, <2>2
<1> QED BY <1>1, <1>2, <1>3, <1>5, <1>6, <1>7

\* As many elements as places.
LEMMA DistinctSize ==
  ASSUME NEW S, NEW s, Distinct(s, S)
  PROVE  IsFiniteSet(ToSet(s)) /\ Cardinality(ToSet(s)) = Len(s)
<1> USE DEF Distinct
<1>1. Len(s) \in Nat /\ DOMAIN s = 1..Len(s) /\ ToSet(s) = {s[i] : i \in 1..Len(s)}
  BY ElementsOf
<1>2. s \in [1..Len(s) -> ToSet(s)] BY <1>1, LenProperties
<1>3. s \in Bijection(1..Len(s), ToSet(s))
  BY <1>1, <1>2 DEF Bijection, Injection, Surjection, IsInjective
<1>4. ExistsBijection(1..Len(s), ToSet(s)) BY <1>3 DEF ExistsBijection
<1> QED BY <1>1, <1>4, FS_CountingElements, FS_NatBijection

\* SetToSeq lists a finite set.
LEMMA SetToSeqLists ==
  ASSUME NEW S, IsFiniteSet(S)
  PROVE  /\ Distinct(SetToSeq(S), S) /\ ToSet(SetToSeq(S)) = S
         /\ Len(SetToSeq(S)) = Cardinality(S)
<1> DEFINE n == Cardinality(S)
<1>1. n \in Nat /\ ExistsBijection(1..n, S) BY FS_CardinalityType
<1>2. PICK b : b \in Bijection(1..n, S) BY <1>1 DEF ExistsBijection
<1>3. b \in [1..n -> S] /\ IsInjective(b)
  BY <1>2 DEF Bijection, Injection
<1>4. SetToSeq(S) \in [1..n -> S] /\ IsInjective(SetToSeq(S))
  BY <1>3 DEF SetToSeq
<1> DEFINE s == SetToSeq(S)
<1> HIDE DEF s
<1>5. s \in [1..n -> S] /\ IsInjective(s) BY <1>4 DEF s
<1>6. s \in Seq(S) /\ Len(s) = n BY <1>1, <1>5
<1>7. Distinct(s, S) BY <1>5, <1>6 DEF Distinct
<1>8. IsFiniteSet(ToSet(s)) /\ Cardinality(ToSet(s)) = n BY <1>6, <1>7, DistinctSize
<1>9. ToSet(s) \subseteq S BY <1>6, ElementsOf
<1>10. ToSet(s) = S BY <1>8, <1>9, FS_Subset
<1> QED BY <1>6, <1>7, <1>10 DEF s

----------------------------------------------------------------------------
(* FlattenSeq *)

\* What FlattenSeq builds, one sequence after the other.
Flattening(s, n, f) ==
  f = [i \in 1..n |-> IF i = 1 THEN s[i] ELSE f[i - 1] \o s[i]]

LEMMA FlattenDefined ==
  ASSUME NEW s, NEW m \in Nat
  PROVE  \E f : Flattening(s, m, f)
<1> DEFINE T == {n \in Nat : \E f : Flattening(s, n, f)}
<1>1. 0 \in T
  <2>1. Flattening(s, 0, <<>>) BY DEF Flattening
  <2> QED BY <2>1
<1>2. ASSUME NEW n \in T PROVE n + 1 \in T
  <2>1. n \in Nat /\ \E f : Flattening(s, n, f) OBVIOUS
  <2>2. PICK f : Flattening(s, n, f) BY <2>1
  <2> DEFINE g == [i \in 1..(n + 1) |->
                     IF i <= n THEN f[i] ELSE IF i = 1 THEN s[i] ELSE f[n] \o s[i]]
  <2>3. ASSUME NEW i \in 1..(n + 1) PROVE g[i] = IF i = 1 THEN s[i] ELSE g[i - 1] \o s[i]
    <3>1. CASE i <= n
      <4>1. i \in 1..n BY <2>1, <3>1
      <4>2. f[i] = IF i = 1 THEN s[i] ELSE f[i - 1] \o s[i] BY <2>2, <4>1 DEF Flattening
      <4>3. i # 1 => i - 1 \in 1..n BY <4>1
      <4>4. g[i] = f[i] /\ (i # 1 => g[i - 1] = f[i - 1]) BY <3>1, <4>3
      <4> QED BY <4>2, <4>4
    <3>2. CASE i = n + 1
      <4>1. i # 1 => n \in 1..n /\ i - 1 = n BY <2>1, <3>2
      <4>2. i # 1 => g[i - 1] = f[n] BY <4>1
      <4> QED BY <2>1, <3>2, <4>2
    <3> QED BY <2>1, <3>1, <3>2
  <2>4. Flattening(s, n + 1, g)
    <3>1. g = [i \in 1..(n + 1) |-> g[i]] OBVIOUS
    <3> HIDE DEF g
    <3> QED BY <2>3, <3>1 DEF Flattening
  <2> QED BY <2>1, <2>4
<1>3. T = Nat
  <2> HIDE DEF T
  <2>1. T \subseteq Nat BY DEF T
  <2> QED BY <1>1, <1>2, <2>1, NatSet
<1> QED BY <1>3

LEMMA FlattenSteps ==
  ASSUME NEW s, NEW m \in Nat \ {0}, Len(s) = m
  PROVE  \E f : Flattening(s, m, f) /\ FlattenSeq(s) = f[m]
<1> DEFINE g == CHOOSE f : f = [i \in 1..Len(s) |-> IF i = 1 THEN s[i] ELSE f[i - 1] \o s[i]]
<1>1. FlattenSeq(s) = g[m] BY DEF FlattenSeq
<1>2. Flattening(s, m, g) BY FlattenDefined DEF Flattening
<1> QED BY <1>1, <1>2

\* The elements of the first n sequences.
Gathered(s, n) == UNION {ToSet(s[i]) : i \in 1..n}

LEMMA GatheredNext ==
  ASSUME NEW s, NEW n \in Nat
  PROVE  /\ Gathered(s, 0) = {}
         /\ Gathered(s, n + 1) = Gathered(s, n) \cup ToSet(s[n + 1])
<1>1. 1..(n + 1) = (1..n) \cup {n + 1} /\ 1..0 = {} OBVIOUS
<1> QED BY <1>1 DEF Gathered

\* The elements of the sequences, each as often as before.
LEMMA FlattenDistinct ==
  ASSUME NEW S, NEW m \in Nat, NEW s \in [1..m -> Seq(S)],
         \A i \in 1..m : IsInjective(s[i]),
         \A i, j \in 1..m : i # j => ToSet(s[i]) \cap ToSet(s[j]) = {}
  PROVE  /\ Distinct(FlattenSeq(s), S)
         /\ ToSet(FlattenSeq(s)) = Gathered(s, m)
<1>0. \A a, b : Distinct(a, S) /\ Distinct(b, S) /\ ToSet(a) \cap ToSet(b) = {}
        => Distinct(a \o b, S) /\ ToSet(a \o b) = ToSet(a) \cup ToSet(b)
  BY DistinctConcat
<1>1. s \in Seq(Seq(S)) /\ Len(s) = m OBVIOUS
<1>2. CASE m = 0
  <2>1. s = <<>> BY <1>1, <1>2, EmptySeq
  <2>2. FlattenSeq(s) = <<>> BY <2>1, EmptySeq DEF FlattenSeq
  <2> QED BY <1>2, <2>2, DistinctEmpty, GatheredNext
<1>3. CASE m # 0
  <2>1. PICK f : Flattening(s, m, f) /\ FlattenSeq(s) = f[m] BY <1>1, <1>3, FlattenSteps
  <2>2. \A i \in 1..m : f[i] = IF i = 1 THEN s[i] ELSE f[i - 1] \o s[i]
    BY <2>1 DEF Flattening
  <2> DEFINE So(n) == n \in 1..m => Distinct(f[n], S) /\ ToSet(f[n]) = Gathered(s, n)
             T == {n \in Nat : So(n)}
  <2>3. 0 \in T OBVIOUS
  <2>4. ASSUME NEW n \in T PROVE n + 1 \in T
    <3> SUFFICES ASSUME n + 1 \in 1..m PROVE So(n + 1) OBVIOUS
    <3>1. n \in Nat /\ So(n) OBVIOUS
    <3>2. f[n + 1] = IF n + 1 = 1 THEN s[n + 1] ELSE f[n + 1 - 1] \o s[n + 1]
      BY <2>2
    <3>3. Distinct(s[n + 1], S) BY DEF Distinct
    <3>4. Gathered(s, n + 1) = Gathered(s, n) \cup ToSet(s[n + 1]) BY <3>1, GatheredNext
    <3>5. CASE n = 0
      <4>1. Gathered(s, n) = {} BY <3>5, GatheredNext
      <4>2. f[n + 1] = s[n + 1] BY <3>2, <3>5
      <4>3. Distinct(f[n + 1], S) /\ ToSet(f[n + 1]) = Gathered(s, n + 1)
        BY <3>3, <3>4, <4>1, <4>2
      <4> QED BY <4>3
    <3>6. CASE n # 0
      <4>1. n \in 1..m /\ n + 1 - 1 = n /\ n + 1 # 1 BY <3>1, <3>6
      <4>2. f[n + 1] = f[n] \o s[n + 1] BY <3>2, <4>1
      <4>3. Distinct(f[n], S) /\ ToSet(f[n]) = Gathered(s, n) BY <3>1, <4>1
      <4>4. ToSet(f[n]) \cap ToSet(s[n + 1]) = {}
        <5>1. \A i \in 1..n : i \in 1..m /\ i # n + 1 BY <3>1
        <5> QED BY <4>3, <5>1 DEF Gathered
      <4> HIDE DEF So, T
      <4>5. /\ Distinct(f[n] \o s[n + 1], S)
            /\ ToSet(f[n] \o s[n + 1]) = ToSet(f[n]) \cup ToSet(s[n + 1])
        BY <1>0, <3>3, <4>3, <4>4
      <4> QED BY <3>4, <4>2, <4>3, <4>5 DEF So
    <3> QED BY <3>5, <3>6
  <2>5. T = Nat
    <3> HIDE DEF T
    <3>1. T \subseteq Nat BY DEF T
    <3> QED BY <2>3, <2>4, <3>1, NatSet
  <2>6. m \in T /\ m \in 1..m BY <1>3, <2>5
  <2>7. So(m) BY <2>6
  <2> QED BY <2>1, <2>6, <2>7
<1> QED BY <1>2, <1>3

----------------------------------------------------------------------------
(* Functions that are defined by recursion over the numbers up to n *)

LEMMA UpTo ==
  ASSUME NEW n \in Nat, NEW T, 0 \in T, \A i \in 1..n : i - 1 \in T => i \in T
  PROVE  \A i \in 0..n : i \in T
<1> DEFINE U == {i \in Nat : i \in T \/ i > n}
<1>1. 0 \in U OBVIOUS
<1>2. ASSUME NEW i \in U PROVE i + 1 \in U
  <2>1. CASE i + 1 > n BY <2>1
  <2>2. CASE i + 1 <= n
    <3>1. i \in T /\ i + 1 \in 1..n /\ i + 1 - 1 = i BY <2>2
    <3> QED BY <3>1
  <2> QED BY <2>1, <2>2
<1>3. U = Nat
  <2> HIDE DEF U
  <2>1. U \subseteq Nat BY DEF U
  <2> QED BY <1>1, <1>2, <2>1, NatSet
<1> QED BY <1>3

\* The function g on 0..n starts with b, takes a step to each number, and its
\* values are where the steps lead.
Iteration(n, In, b, step, g) ==
  /\ g = [i \in 0..n |-> g[i]] /\ g[0] = b
  /\ \A i \in 1..n : g[i] = step[i][g[i - 1]]
  /\ \A i \in 0..n : g[i] \in In[i]

LEMMA Iterates ==
  ASSUME NEW n \in Nat, NEW In, NEW b, NEW step, b \in In[0],
         \A i \in 1..n : \A x \in In[i - 1] : step[i][x] \in In[i]
  PROVE  \E g : Iteration(n, In, b, step, g)
<1> DEFINE Upto(g, m) == /\ g = [i \in 0..m |-> IF i = 0 THEN b ELSE step[i][g[i - 1]]]
                         /\ \A i \in 0..m : g[i] \in In[i]
           T == {m \in 0..n : \E g : Upto(g, m)}
<1>1. 0 \in T
  <2> DEFINE g == [i \in 0..0 |-> b]
  <2>1. g = [i \in 0..0 |-> IF i = 0 THEN b ELSE step[i][g[i - 1]]] OBVIOUS
  <2>2. \A i \in 0..0 : g[i] \in In[i] OBVIOUS
  <2>3. Upto(g, 0) BY <2>1, <2>2
  <2>4. \E f : Upto(f, 0)
    <3> HIDE DEF Upto, g
    <3> QED BY <2>3
  <2> QED BY <2>4
<1>2. ASSUME NEW m \in 1..n, m - 1 \in T PROVE m \in T
  <2>1. PICK f : Upto(f, m - 1) BY <1>2
  <2> DEFINE g == [i \in 0..m |-> IF i = m THEN step[m][f[m - 1]] ELSE f[i]]
  <2>2. \A i \in 0..(m - 1) : /\ f[i] = IF i = 0 THEN b ELSE step[i][f[i - 1]]
                              /\ f[i] \in In[i]
    BY <2>1
  <2>3. m - 1 \in 0..(m - 1) /\ step[m][f[m - 1]] \in In[m] BY <2>2
  <2>4. ASSUME NEW i \in 0..m
        PROVE  g[i] = (IF i = 0 THEN b ELSE step[i][g[i - 1]]) /\ g[i] \in In[i]
    <3>1. CASE i = m
      <4>1. g[i] = step[i][f[i - 1]] /\ g[i - 1] = f[i - 1] BY <3>1
      <4> QED BY <2>3, <3>1, <4>1
    <3>2. CASE i # m
      <4>1. i \in 0..(m - 1) /\ g[i] = f[i] BY <3>2
      <4>2. i # 0 => i - 1 \in 0..m /\ i - 1 # m /\ g[i - 1] = f[i - 1] BY <4>1
      <4> QED BY <2>2, <4>1, <4>2
    <3> QED BY <3>1, <3>2
  <2>5. g = [i \in 0..m |-> g[i]] OBVIOUS
  <2>6. Upto(g, m)
    <3> HIDE DEF g
    <3> QED BY <2>4, <2>5
  <2>7. \E h : Upto(h, m)
    <3> HIDE DEF Upto, g
    <3> QED BY <2>6
  <2> QED BY <2>7
<1>3. n \in T
  <2> HIDE DEF T
  <2>1. \A i \in 0..n : i \in T BY <1>1, <1>2, UpTo
  <2> QED BY <2>1
<1>4. PICK g : Upto(g, n) BY <1>3
<1>5. /\ \A i \in 0..n : g[i] = IF i = 0 THEN b ELSE step[i][g[i - 1]]
      /\ \A i \in 0..n : g[i] \in In[i]
  BY <1>4
<1>6. g = [i \in 0..n |-> g[i]]
  <2>1. g = [i \in 0..n |-> IF i = 0 THEN b ELSE step[i][g[i - 1]]] BY <1>4
  <2> QED BY <2>1
<1>7. 0 \in 0..n /\ \A i \in 1..n : i \in 0..n /\ i # 0 OBVIOUS
<1>8. g[0] = b /\ \A i \in 1..n : g[i] = step[i][g[i - 1]] BY <1>5, <1>7
<1>9. Iteration(n, In, b, step, g) BY <1>5, <1>6, <1>8 DEF Iteration
<1> QED BY <1>9

\* Two functions that start alike and take the same steps end alike.
LEMMA SameEnd ==
  ASSUME NEW n \in Nat, NEW f, NEW g, f[0] = g[0],
         \A i \in 1..n : f[i - 1] = g[i - 1] => f[i] = g[i]
  PROVE  f[n] = g[n]
<1> DEFINE T == {i \in 0..n : f[i] = g[i]}
<1>1. 0 \in T OBVIOUS
<1>2. ASSUME NEW i \in 1..n, i - 1 \in T PROVE i \in T BY <1>2
<1>3. \A i \in 0..n : i \in T
  <2> HIDE DEF T
  <2> QED BY <1>1, <1>2, UpTo
<1> QED BY <1>3

\* One more of the first elements of a sequence.
Firsts(q, i) == {q[k] : k \in 1..i}

LEMMA FirstsNext ==
  ASSUME NEW S, NEW q \in Seq(S), NEW i \in 1..Len(q)
  PROVE  /\ Firsts(q, 0) = {} /\ Firsts(q, i) = Firsts(q, i - 1) \cup {q[i]}
         /\ Firsts(q, Len(q)) = ToSet(q) /\ q[i] \in S
         /\ IsInjective(q) => q[i] \notin Firsts(q, i - 1)
<1>1. DOMAIN q = 1..Len(q) /\ Len(q) \in Nat /\ ToSet(q) = {q[k] : k \in 1..Len(q)} BY ElementsOf
<1>2. 1..i = (1..(i - 1)) \cup {i} /\ 1..0 = {} BY <1>1
<1>3. q[i] \in S BY ElementOfSeq
<1>4. ASSUME IsInjective(q), NEW k \in 1..(i - 1) PROVE q[k] # q[i]
  <2>1. k \in 1..Len(q) /\ i \in 1..Len(q) /\ k # i BY <1>1
  <2> QED BY <1>1, <1>4, <2>1 DEF IsInjective
<1> QED BY <1>1, <1>2, <1>3, <1>4 DEF Firsts

LEMMA FirstsNone == ASSUME NEW q PROVE Firsts(q, 0) = {}
BY DEF Firsts

----------------------------------------------------------------------------
(* The least and the greatest number of a set *)

LEMMA LeastOf ==
  ASSUME NEW m \in Int, NEW n \in Int, NEW S, S \subseteq m..n, S # {}
  PROVE  \E x \in S : \A y \in S : x <= y
<1> SUFFICES ASSUME \A x \in S : \E y \in S : y < x PROVE FALSE OBVIOUS
<1> DEFINE T == {i \in Nat : \A x \in S : x > m + i}
<1>1. 0 \in T OBVIOUS
<1>2. ASSUME NEW i \in T PROVE i + 1 \in T
  <2>1. ASSUME NEW x \in S, x = m + (i + 1) PROVE FALSE
    <3>1. PICK y \in S : y < x OBVIOUS
    <3>2. y > m + i OBVIOUS
    <3> QED BY <2>1, <3>1, <3>2
  <2>2. \A x \in S : x > m + i /\ x # m + (i + 1) BY <2>1
  <2> QED BY <2>2
<1>3. T = Nat
  <2> HIDE DEF T
  <2>1. T \subseteq Nat BY DEF T
  <2> QED BY <1>1, <1>2, <2>1, NatSet
<1>4. PICK x \in S : TRUE OBVIOUS
<1>5. x - m \in Nat OBVIOUS
<1>6. x > m + (x - m) BY <1>3, <1>5
<1> QED BY <1>4, <1>6

LEMMA GreatestOf ==
  ASSUME NEW m \in Int, NEW n \in Int, NEW S, S \subseteq m..n, S # {}
  PROVE  \E x \in S : \A y \in S : y <= x
<1> DEFINE T == {-x : x \in S}
<1>1. T \subseteq (-n)..(-m) /\ T # {}
  <2>1. PICK x \in S : TRUE OBVIOUS
  <2>2. -x \in T BY <2>1
  <2>3. ASSUME NEW y \in S PROVE -y \in (-n)..(-m)
    <3>1. y \in m..n OBVIOUS
    <3> QED BY <3>1
  <2> QED BY <2>2, <2>3
<1>2. PICK t \in T : \A u \in T : t <= u
  <2> HIDE DEF T
  <2>1. -n \in Int /\ -m \in Int OBVIOUS
  <2> QED BY <1>1, <2>1, LeastOf
<1>3. PICK x \in S : t = -x OBVIOUS
<1> QED BY <1>2, <1>3

LEMMA MinIs ==
  ASSUME NEW m \in Int, NEW n \in Int, NEW S, S \subseteq m..n, S # {}
  PROVE  Min(S) \in S /\ \A y \in S : Min(S) <= y
BY LeastOf DEF Min

LEMMA MaxIs ==
  ASSUME NEW m \in Int, NEW n \in Int, NEW S, S \subseteq m..n, S # {}
  PROVE  Max(S) \in S /\ \A y \in S : y <= Max(S)
BY GreatestOf DEF Max

----------------------------------------------------------------------------
(* Parts of sequences, places in them *)

LEMMA PartOf ==
  ASSUME NEW S, NEW s \in Seq(S), NEW m \in 1..(Len(s) + 1), NEW n \in 0..Len(s), m <= n + 1
  PROVE  /\ SubSeq(s, m, n) \in Seq(S) /\ Len(SubSeq(s, m, n)) = n - m + 1
         /\ \A k \in 1..(n - m + 1) : SubSeq(s, m, n)[k] = s[m + k - 1]
<1>1. Len(s) \in Nat /\ \A k \in 1..Len(s) : s[k] \in S BY ElementOfSeq
<1>2. m \in Int /\ n \in Int /\ \A k \in m..n : s[k] \in S BY <1>1
<1>3. /\ SubSeq(s, m, n) \in Seq(S)
      /\ Len(SubSeq(s, m, n)) = IF m <= n THEN n - m + 1 ELSE 0
      /\ \A k \in 1..(n - m + 1) : SubSeq(s, m, n)[k] = s[m + k - 1]
  BY <1>2, SubSeqProperties
<1> QED BY <1>1, <1>2, <1>3

LEMMA InsertAtIs ==
  ASSUME NEW S, NEW s \in Seq(S), NEW i \in 1..(Len(s) + 1), NEW e \in S
  PROVE  /\ InsertAt(s, i, e) \in Seq(S) /\ Len(InsertAt(s, i, e)) = Len(s) + 1
         /\ \A k \in 1..(Len(s) + 1) :
              InsertAt(s, i, e)[k] = IF k < i THEN s[k] ELSE IF k = i THEN e ELSE s[k - 1]
<1> DEFINE u == SubSeq(s, 1, i - 1)
           v == SubSeq(s, i, Len(s))
<1>0. Len(s) \in Nat BY LenProperties
<1>1. /\ u \in Seq(S) /\ Len(u) = i - 1
      /\ \A k \in 1..(i - 1) : u[k] = s[k]
  <2>1. /\ u \in Seq(S) /\ Len(u) = i - 1 - 1 + 1
        /\ \A k \in 1..(i - 1 - 1 + 1) : u[k] = s[1 + k - 1]
    BY <1>0, PartOf
  <2> QED BY <1>0, <2>1
<1>2. /\ v \in Seq(S) /\ Len(v) = Len(s) - i + 1
      /\ \A k \in 1..(Len(s) - i + 1) : v[k] = s[i + k - 1]
  BY <1>0, PartOf
<1>3. InsertAt(s, i, e) = (u \o <<e>>) \o v BY DEF InsertAt
<1> HIDE DEF u, v
<1> DEFINE w == u \o <<e>>
<1>4. <<e>> \in Seq(S) /\ Len(<<e>>) = 1 /\ <<e>>[1] = e OBVIOUS
<1>5. /\ w \in Seq(S) /\ Len(w) = i
      /\ \A k \in 1..i : w[k] = IF k < i THEN s[k] ELSE e
  <2>1. /\ w \in Seq(S) /\ Len(w) = Len(u) + 1
        /\ \A k \in 1..(Len(u) + 1) : w[k] = IF k <= Len(u) THEN u[k] ELSE <<e>>[k - Len(u)]
    BY <1>1, <1>4, ConcatProperties
  <2> QED BY <1>0, <1>1, <1>4, <2>1, SMTT(30)
<1> HIDE DEF w
<1>6. /\ w \o v \in Seq(S) /\ Len(w \o v) = Len(w) + Len(v)
      /\ \A k \in 1..(Len(w) + Len(v)) : (w \o v)[k] = IF k <= Len(w) THEN w[k] ELSE v[k - Len(w)]
  BY <1>2, <1>5, ConcatProperties
<1>7. InsertAt(s, i, e) = w \o v BY <1>3 DEF w
<1>8. ASSUME NEW k \in 1..(Len(s) + 1)
      PROVE  (w \o v)[k] = IF k < i THEN s[k] ELSE IF k = i THEN e ELSE s[k - 1]
  <2>1. (w \o v)[k] = IF k <= i THEN w[k] ELSE v[k - i] BY <1>0, <1>2, <1>5, <1>6
  <2>2. CASE k <= i BY <1>5, <2>1, <2>2
  <2>3. CASE k > i
    <3>1. k - i \in 1..(Len(s) - i + 1) /\ i + (k - i) - 1 = k - 1 BY <1>0, <2>3
    <3>2. v[k - i] = s[k - 1] BY <1>2, <3>1
    <3> QED BY <2>1, <2>3, <3>2
  <2>4. k <= i \/ k > i BY <1>0
  <2> QED BY <2>2, <2>3, <2>4
<1>9. Len(w) + Len(v) = Len(s) + 1 BY <1>0, <1>2, <1>5
<1>10. \A k \in 1..(Len(s) + 1) : (w \o v)[k] = IF k < i THEN s[k] ELSE IF k = i THEN e ELSE s[k - 1]
  BY <1>8
<1> HIDE DEF InsertAt
<1> QED BY <1>6, <1>7, <1>9, <1>10

LEMMA RemoveAtIs ==
  ASSUME NEW S, NEW s \in Seq(S), NEW i \in 1..Len(s)
  PROVE  /\ RemoveAt(s, i) \in Seq(S) /\ Len(RemoveAt(s, i)) = Len(s) - 1
         /\ \A k \in 1..(Len(s) - 1) : RemoveAt(s, i)[k] = IF k < i THEN s[k] ELSE s[k + 1]
<1> DEFINE u == SubSeq(s, 1, i - 1)
           v == SubSeq(s, i + 1, Len(s))
<1>0. Len(s) \in Nat BY LenProperties
<1>1. /\ u \in Seq(S) /\ Len(u) = i - 1
      /\ \A k \in 1..(i - 1) : u[k] = s[k]
  <2>1. /\ u \in Seq(S) /\ Len(u) = i - 1 - 1 + 1
        /\ \A k \in 1..(i - 1 - 1 + 1) : u[k] = s[1 + k - 1]
    BY <1>0, PartOf
  <2> QED BY <1>0, <2>1
<1>2. /\ v \in Seq(S) /\ Len(v) = Len(s) - i
      /\ \A k \in 1..(Len(s) - i) : v[k] = s[i + k]
  <2>1. /\ v \in Seq(S) /\ Len(v) = Len(s) - (i + 1) + 1
        /\ \A k \in 1..(Len(s) - (i + 1) + 1) : v[k] = s[i + 1 + k - 1]
    BY <1>0, PartOf
  <2>2. \A k \in Nat : i + 1 + k - 1 = i + k BY <1>0
  <2> QED BY <1>0, <2>1, <2>2
<1>3. RemoveAt(s, i) = u \o v BY DEF RemoveAt
<1> HIDE DEF u, v
<1>4. /\ u \o v \in Seq(S) /\ Len(u \o v) = Len(u) + Len(v)
      /\ \A k \in 1..(Len(u) + Len(v)) : (u \o v)[k] = IF k <= Len(u) THEN u[k] ELSE v[k - Len(u)]
  BY <1>1, <1>2, ConcatProperties
<1>5. ASSUME NEW k \in 1..(Len(s) - 1) PROVE (u \o v)[k] = IF k < i THEN s[k] ELSE s[k + 1]
  <2>1. (u \o v)[k] = IF k <= i - 1 THEN u[k] ELSE v[k - (i - 1)] BY <1>0, <1>1, <1>2, <1>4
  <2>2. CASE k <= i - 1
    <3>1. k \in 1..(i - 1) /\ k < i BY <1>0, <2>2
    <3> QED BY <1>1, <2>1, <2>2, <3>1
  <2>3. CASE k > i - 1
    <3>1. k - (i - 1) \in 1..(Len(s) - i) /\ i + (k - (i - 1)) = k + 1 /\ ~ (k < i) BY <1>0, <2>3
    <3>2. v[k - (i - 1)] = s[k + 1] BY <1>2, <3>1
    <3> QED BY <2>1, <2>3, <3>1, <3>2
  <2>4. k <= i - 1 \/ k > i - 1 BY <1>0
  <2> QED BY <2>2, <2>3, <2>4
<1> QED BY <1>0, <1>1, <1>2, <1>3, <1>4, <1>5

\* A new element takes its place in a sequence.
LEMMA DistinctInsert ==
  ASSUME NEW S, NEW s, NEW i \in 1..(Len(s) + 1), NEW e \in S, Distinct(s, S), e \notin ToSet(s)
  PROVE  Distinct(InsertAt(s, i, e), S) /\ ToSet(InsertAt(s, i, e)) = ToSet(s) \cup {e}
<1>1. s \in Seq(S) /\ Len(s) \in Nat BY LenProperties DEF Distinct
<1>0. /\ InsertAt(s, i, e) \in Seq(S) /\ Len(InsertAt(s, i, e)) = Len(s) + 1
      /\ \A k \in 1..(Len(s) + 1) :
           InsertAt(s, i, e)[k] = IF k < i THEN s[k] ELSE IF k = i THEN e ELSE s[k - 1]
  <2>1. s \in Seq(S) /\ i \in 1..(Len(s) + 1) /\ e \in S BY <1>1
  <2> HIDE DEF InsertAt
  <2>2. InsertAt(s, i, e) \in Seq(S) /\ Len(InsertAt(s, i, e)) = Len(s) + 1 BY <2>1, InsertAtIs
  <2>3. ASSUME NEW k \in 1..(Len(s) + 1)
        PROVE  InsertAt(s, i, e)[k] = IF k < i THEN s[k] ELSE IF k = i THEN e ELSE s[k - 1]
    BY <2>1, InsertAtIs
  <2> QED BY <2>2, <2>3
<1> DEFINE t == InsertAt(s, i, e)
<1>2. /\ t \in Seq(S) /\ Len(t) = Len(s) + 1
      /\ \A k \in 1..(Len(s) + 1) : t[k] = IF k < i THEN s[k] ELSE IF k = i THEN e ELSE s[k - 1]
  BY <1>0
<1> HIDE DEF t
<1>3. /\ DOMAIN s = 1..Len(s) /\ ToSet(s) = {s[k] : k \in 1..Len(s)}
      /\ DOMAIN t = 1..Len(t) /\ ToSet(t) = {t[k] : k \in 1..Len(t)}
  BY <1>1, <1>2, ElementsOf
<1>4. \A j, k \in 1..Len(s) : s[j] = s[k] => j = k BY <1>3 DEF Distinct, IsInjective
<1>5. \A k \in 1..Len(s) : s[k] # e BY <1>3
<1>6. ASSUME NEW j \in 1..Len(t), NEW k \in 1..Len(t), t[j] = t[k] PROVE j = k
  <2> DEFINE At(m) == IF m < i THEN m ELSE m - 1
  <2>1. \A m \in 1..Len(t) : m # i => At(m) \in 1..Len(s) /\ t[m] = s[At(m)]
    BY <1>1, <1>2
  <2>2. t[i] = e /\ i \in 1..Len(t) BY <1>1, <1>2
  <2>3. CASE j # i /\ k # i
    <3>1. At(j) = At(k) BY <1>4, <1>6, <2>1, <2>3
    <3> QED BY <1>1, <2>3, <3>1
  <2> QED BY <1>5, <1>6, <2>1, <2>2, <2>3
<1>7. Distinct(t, S) BY <1>2, <1>3, <1>6 DEF Distinct, IsInjective
<1>8. ASSUME NEW k \in 1..Len(s) PROVE s[k] \in ToSet(t)
  <2>1. k < i => t[k] = s[k] /\ k \in 1..Len(t) BY <1>1, <1>2
  <2>2. ~ (k < i) => t[k + 1] = s[k + 1 - 1] /\ k + 1 \in 1..Len(t) /\ k + 1 - 1 = k
    BY <1>1, <1>2
  <2> QED BY <1>3, <2>1, <2>2
<1>9. e \in ToSet(t)
  <2>1. i \in 1..Len(t) /\ t[i] = e BY <1>1, <1>2
  <2> QED BY <1>3, <2>1
<1>10. ASSUME NEW k \in 1..Len(t) PROVE t[k] \in ToSet(s) \cup {e}
  <2>1. k < i => k \in 1..Len(s) BY <1>1, <1>2
  <2>2. k > i => k - 1 \in 1..Len(s) BY <1>1, <1>2
  <2> QED BY <1>1, <1>2, <1>3, <2>1, <2>2
<1> QED BY <1>3, <1>7, <1>8, <1>9, <1>10 DEF t

\* An element is unlinked.
LEMMA DistinctRemove ==
  ASSUME NEW S, NEW s, NEW i \in 1..Len(s), Distinct(s, S)
  PROVE  Distinct(RemoveAt(s, i), S) /\ ToSet(RemoveAt(s, i)) = ToSet(s) \ {s[i]}
<1> DEFINE t == RemoveAt(s, i)
<1>1. s \in Seq(S) /\ Len(s) \in Nat BY LenProperties DEF Distinct
<1>2. /\ t \in Seq(S) /\ Len(t) = Len(s) - 1
      /\ \A k \in 1..(Len(s) - 1) : t[k] = IF k < i THEN s[k] ELSE s[k + 1]
  BY <1>1, RemoveAtIs
<1> HIDE DEF t
<1>3. /\ DOMAIN s = 1..Len(s) /\ ToSet(s) = {s[k] : k \in 1..Len(s)}
      /\ DOMAIN t = 1..Len(t) /\ ToSet(t) = {t[k] : k \in 1..Len(t)}
  BY <1>1, <1>2, ElementsOf
<1>4. \A j, k \in 1..Len(s) : s[j] = s[k] => j = k BY <1>3 DEF Distinct, IsInjective
<1> DEFINE At(m) == IF m < i THEN m ELSE m + 1
<1>5. \A m \in 1..Len(t) : At(m) \in 1..Len(s) /\ At(m) # i /\ t[m] = s[At(m)]
  BY <1>1, <1>2
<1>6. ASSUME NEW j \in 1..Len(t), NEW k \in 1..Len(t), t[j] = t[k] PROVE j = k
  <2>1. At(j) = At(k) BY <1>4, <1>5, <1>6
  <2> QED BY <1>1, <2>1
<1>7. Distinct(t, S) BY <1>2, <1>3, <1>6 DEF Distinct, IsInjective
<1>8. ASSUME NEW k \in 1..Len(s), k # i PROVE s[k] \in ToSet(t)
  <2>1. k < i => t[k] = s[k] /\ k \in 1..Len(t) BY <1>1, <1>2
  <2>2. k > i => t[k - 1] = s[k - 1 + 1] /\ k - 1 \in 1..Len(t) /\ k - 1 + 1 = k
    BY <1>1, <1>2
  <2> QED BY <1>3, <1>8, <2>1, <2>2
<1>9. ASSUME NEW k \in 1..Len(t) PROVE t[k] \in ToSet(s) \ {s[i]}
  <2> HIDE DEF At
  <2> QED BY <1>3, <1>4, <1>5
<1> QED BY <1>3, <1>7, <1>8, <1>9 DEF t

LEMMA DistinctReverse ==
  ASSUME NEW S, NEW s, Distinct(s, S)
  PROVE  /\ Distinct(Reverse(s), S) /\ ToSet(Reverse(s)) = ToSet(s) /\ Len(Reverse(s)) = Len(s)
         /\ \A k \in 1..Len(s) : Reverse(s)[k] = s[Len(s) - k + 1]
<1> DEFINE t == Reverse(s)
<1>1. s \in Seq(S) /\ Len(s) \in Nat /\ \A k \in 1..Len(s) : s[k] \in S
  BY ElementOfSeq DEF Distinct
<1>2. t \in Seq(S) /\ Len(t) = Len(s) /\ \A k \in 1..Len(s) : t[k] = s[Len(s) - k + 1]
  <2>1. t = [k \in 1..Len(s) |-> s[(Len(s) - k) + 1]] BY DEF Reverse
  <2>2. \A k \in 1..Len(s) : (Len(s) - k) + 1 \in 1..Len(s) BY <1>1
  <2>3. t \in [1..Len(s) -> S] BY <1>1, <2>1, <2>2
  <2> HIDE DEF t
  <2>4. t \in Seq(S) /\ Len(t) = Len(s) BY <1>1, <2>3
  <2> QED BY <2>1, <2>4
<1> HIDE DEF t
<1>3. /\ DOMAIN s = 1..Len(s) /\ ToSet(s) = {s[k] : k \in 1..Len(s)}
      /\ DOMAIN t = 1..Len(t) /\ ToSet(t) = {t[k] : k \in 1..Len(t)}
  BY <1>1, <1>2, ElementsOf
<1>4. \A j, k \in 1..Len(s) : s[j] = s[k] => j = k BY <1>3 DEF Distinct, IsInjective
<1> DEFINE At(k) == Len(s) - k + 1
<1>5. \A k \in 1..Len(s) : At(k) \in 1..Len(s) /\ At(At(k)) = k BY <1>1
<1>6. \A k \in 1..Len(s) : t[k] = s[At(k)] BY <1>2
<1> HIDE DEF At
<1>7. ASSUME NEW j \in 1..Len(s), NEW k \in 1..Len(s), t[j] = t[k] PROVE j = k
  <2>1. At(j) = At(k) BY <1>4, <1>5, <1>6, <1>7
  <2> QED BY <1>5, <2>1
<1>8. Distinct(t, S) BY <1>2, <1>3, <1>7 DEF Distinct, IsInjective
<1>9. ToSet(t) = ToSet(s)
  <2>1. \A k \in 1..Len(s) : s[k] = t[At(k)] BY <1>5, <1>6
  <2> QED BY <1>2, <1>3, <1>5, <1>6, <2>1
<1> QED BY <1>2, <1>8, <1>9 DEF t

\* A sequence is cut in two.
LEMMA DistinctCut ==
  ASSUME NEW S, NEW s, Distinct(s, S), NEW c \in 0..Len(s)
  PROVE  LET u == SubSeq(s, 1, c)
             v == SubSeq(s, c + 1, Len(s))
         IN /\ Distinct(u, S) /\ Len(u) = c /\ \A k \in 1..c : u[k] = s[k]
            /\ Distinct(v, S) /\ Len(v) = Len(s) - c /\ \A k \in 1..(Len(s) - c) : v[k] = s[c + k]
            /\ ToSet(u) \cap ToSet(v) = {} /\ ToSet(u) \cup ToSet(v) = ToSet(s)
<1> DEFINE n == Len(s)
           u == SubSeq(s, 1, c)
           v == SubSeq(s, c + 1, n)
<1>1. s \in Seq(S) /\ n \in Nat BY LenProperties DEF Distinct
<1>2. u \in Seq(S) /\ Len(u) = c /\ \A k \in 1..c : u[k] = s[k]
  <2>1. /\ u \in Seq(S) /\ Len(u) = c - 1 + 1
        /\ \A k \in 1..(c - 1 + 1) : u[k] = s[1 + k - 1]
    BY <1>1, PartOf
  <2> QED BY <1>1, <2>1
<1>3. v \in Seq(S) /\ Len(v) = n - c /\ \A k \in 1..(n - c) : v[k] = s[c + k]
  <2>1. /\ v \in Seq(S) /\ Len(v) = n - (c + 1) + 1
        /\ \A k \in 1..(n - (c + 1) + 1) : v[k] = s[c + 1 + k - 1]
    BY <1>1, PartOf
  <2>2. \A k \in Nat : c + 1 + k - 1 = c + k BY <1>1
  <2> QED BY <1>1, <2>1, <2>2
<1> HIDE DEF u, v
<1>4. /\ DOMAIN s = 1..n /\ ToSet(s) = {s[k] : k \in 1..n}
      /\ DOMAIN u = 1..c /\ ToSet(u) = {u[k] : k \in 1..c}
      /\ DOMAIN v = 1..(n - c) /\ ToSet(v) = {v[k] : k \in 1..(n - c)}
  <2>1. \A t \in Seq(S) : DOMAIN t = 1..Len(t) /\ ToSet(t) = {t[k] : k \in 1..Len(t)}
    BY ElementsOf
  <2>2. \A m : Len(v) = m => DOMAIN v = 1..m /\ ToSet(v) = {v[k] : k \in 1..m} BY <1>3, <2>1
  <2> QED BY <1>1, <1>2, <1>3, <2>1, <2>2
<1>5. \A j, k \in 1..n : s[j] = s[k] => j = k BY <1>4 DEF Distinct, IsInjective
<1>6. /\ \A k \in 1..c : k \in 1..n
      /\ \A k \in 1..(n - c) : c + k \in 1..n /\ c + k > c
      /\ \A k \in 1..n : k > c => k - c \in 1..(n - c) /\ c + (k - c) = k
      /\ \A k \in 1..n : k > c \/ k \in 1..c
  BY <1>1
<1>7. Distinct(u, S)
  <2>1. \A j, k \in 1..c : u[j] = u[k] => j = k BY <1>2, <1>5, <1>6
  <2> QED BY <1>2, <1>4, <2>1 DEF Distinct, IsInjective
<1>8. Distinct(v, S)
  <2>1. ASSUME NEW j \in 1..(n - c), NEW k \in 1..(n - c), v[j] = v[k] PROVE j = k
    <3>1. c + j = c + k BY <1>3, <1>5, <1>6, <2>1
    <3> QED BY <1>1, <3>1
  <2> QED BY <1>3, <1>4, <2>1 DEF Distinct, IsInjective
<1>9. ToSet(u) \cap ToSet(v) = {}
  <2>1. ASSUME NEW j \in 1..c, NEW k \in 1..(n - c) PROVE u[j] # v[k]
    <3>1. u[j] = s[j] /\ v[k] = s[c + k] BY <1>2, <1>3
    <3>2. j # c + k BY <1>1
    <3> QED BY <1>5, <1>6, <3>1, <3>2
  <2> QED BY <1>4, <2>1
<1>10. ToSet(u) \cup ToSet(v) = ToSet(s)
  <2>1. \A k \in 1..c : u[k] \in ToSet(s) BY <1>2, <1>4, <1>6
  <2>2. \A k \in 1..(n - c) : v[k] \in ToSet(s) BY <1>3, <1>4, <1>6
  <2>3. ASSUME NEW k \in 1..n PROVE s[k] \in ToSet(u) \cup ToSet(v)
    <3>1. CASE k \in 1..c BY <1>2, <1>4, <3>1
    <3>2. CASE k > c
      <4>1. s[k] = v[k - c] /\ k - c \in 1..(n - c) BY <1>3, <1>6, <3>2
      <4> QED BY <1>4, <4>1
    <3> QED BY <1>6, <3>1, <3>2
  <2> QED BY <1>4, <2>1, <2>2, <2>3
<1> QED BY <1>2, <1>3, <1>7, <1>8, <1>9, <1>10 DEF u, v

----------------------------------------------------------------------------
(* What FlattenSeq makes of a few sequences, or of one element each *)

LEMMA FlattenTwo ==
  ASSUME NEW a, NEW b
  PROVE  FlattenSeq(<<a>>) = a /\ FlattenSeq(<<a, b>>) = a \o b
<1>1. FlattenSeq(<<a>>) = a
  <2>1. Len(<<a>>) = 1 /\ 1 \in Nat \ {0} /\ <<a>>[1] = a OBVIOUS
  <2>2. PICK f : Flattening(<<a>>, 1, f) /\ FlattenSeq(<<a>>) = f[1] BY <2>1, FlattenSteps
  <2>3. \A i \in 1..1 : f[i] = IF i = 1 THEN <<a>>[i] ELSE f[i - 1] \o <<a>>[i]
    BY <2>2 DEF Flattening
  <2>4. f[1] = <<a>>[1] BY <2>3
  <2> QED BY <2>1, <2>2, <2>4
<1>2. FlattenSeq(<<a, b>>) = a \o b
  <2>1. Len(<<a, b>>) = 2 /\ 2 \in Nat \ {0} /\ <<a, b>>[1] = a /\ <<a, b>>[2] = b OBVIOUS
  <2>2. PICK f : Flattening(<<a, b>>, 2, f) /\ FlattenSeq(<<a, b>>) = f[2]
    BY <2>1, FlattenSteps
  <2>3. \A i \in 1..2 : f[i] = IF i = 1 THEN <<a, b>>[i] ELSE f[i - 1] \o <<a, b>>[i]
    BY <2>2 DEF Flattening
  <2>4. f[1] = <<a, b>>[1] BY <2>3
  <2>5. f[2] = f[1] \o <<a, b>>[2]
    <3>1. 2 \in 1..2 /\ 2 # 1 /\ 2 - 1 = 1 OBVIOUS
    <3> QED BY <2>3, <3>1
  <2> QED BY <2>1, <2>2, <2>4, <2>5
<1> QED BY <1>1, <1>2

\* Sequences of one element each.
LEMMA FlattenOnes ==
  ASSUME NEW n \in Nat \ {0}, NEW S, NEW s \in [1..n -> Seq(S)], \A i \in 1..n : Len(s[i]) = 1
  PROVE  FlattenSeq(s) \in [1..n -> S] /\ \A i \in 1..n : s[i] = <<FlattenSeq(s)[i]>>
<1> DEFINE x == [i \in 1..n |-> s[i][1]]
<1>1. \A i \in 1..n : x[i] \in S /\ s[i] = <<x[i]>>
  <2>1. ASSUME NEW i \in 1..n PROVE s[i][1] \in S /\ s[i] = <<s[i][1]>>
    <3> DEFINE q == s[i]
    <3>1. q \in Seq(S) /\ Len(q) = 1 OBVIOUS
    <3> HIDE DEF q
    <3>2. q[1] \in S
      <4>1. 1 \in 1..Len(q) BY <3>1
      <4> QED BY <3>1, <4>1, ElementOfSeq
    <3>3. q = <<q[1]>>
      <4>1. <<q[1]>> \in Seq(S) /\ Len(<<q[1]>>) = 1 /\ <<q[1]>>[1] = q[1] BY <3>2
      <4> DEFINE r == <<q[1]>>
      <4>2. r \in Seq(S) /\ Len(r) = 1 /\ r[1] = q[1] BY <4>1
      <4> HIDE DEF r
      <4>3. \A j \in 1..1 : r[j] = q[j] BY <4>2
      <4>4. r = q BY <3>1, <4>2, <4>3, SeqEqual
      <4> QED BY <4>4 DEF r
    <3> QED BY <3>2, <3>3 DEF q
  <2> QED BY <2>1
<1>10. x = [j \in 1..n |-> x[j]] OBVIOUS
<1> HIDE DEF x
<1>2. Len(s) = n BY <1>1
<1>3. PICK f : Flattening(s, n, f) /\ FlattenSeq(s) = f[n] BY <1>2, FlattenSteps
<1>4. \A i \in 1..n : f[i] = IF i = 1 THEN s[i] ELSE f[i - 1] \o s[i]
  BY <1>3 DEF Flattening
<1> DEFINE So(k) == k # 0 => f[k] = [j \in 1..k |-> x[j]]
           T == {k \in 0..n : So(k)}
<1>5. 0 \in T OBVIOUS
<1>6. ASSUME NEW k \in 1..n, k - 1 \in T PROVE k \in T
  <2>1. f[k] = IF k = 1 THEN s[k] ELSE f[k - 1] \o s[k] BY <1>4
  <2>2. s[k] = <<x[k]>> BY <1>1
  <2>3. CASE k = 1
    <3>1. f[k] = <<x[1]>> BY <2>1, <2>2, <2>3
    <3>2. <<x[1]>> = [j \in 1..1 |-> x[j]] OBVIOUS
    <3> QED BY <2>3, <3>1, <3>2
  <2>4. CASE k # 1
    <3>1. f[k - 1] = [j \in 1..(k - 1) |-> x[j]] BY <1>6, <2>4
    <3> DEFINE a == [j \in 1..(k - 1) |-> x[j]]
    <3>2. a \in Seq(S) /\ Len(a) = k - 1
      <4>1. k - 1 \in Nat /\ \A j \in 1..(k - 1) : x[j] \in S BY <1>1
      <4> QED BY <4>1
    <3>3. x[k] \in S BY <1>1
    <3> HIDE DEF a
    <3>4. a \o <<x[k]>> = Append(a, x[k]) BY <3>2, <3>3
    <3>5. Append(a, x[k]) = [j \in 1..k |-> x[j]]
      <4>1. /\ Append(a, x[k]) \in Seq(S) /\ Len(Append(a, x[k])) = k
            /\ Append(a, x[k])[k] = x[k]
            /\ \A j \in 1..(k - 1) : Append(a, x[k])[j] = x[j]
        <5>1. \A j \in 1..(k - 1) : a[j] = x[j] BY DEF a
        <5>2. \A j \in 1..(k - 1) : Append(a, x[k])[j] = a[j]
          BY <3>2, <3>3, AppendProperties
        <5> QED BY <3>2, <3>3, <5>1, <5>2, AppendProperties
      <4>2. \A j \in 1..k : j = k \/ j \in 1..(k - 1) OBVIOUS
      <4>3. \A j \in 1..k : Append(a, x[k])[j] = x[j] BY <4>1, <4>2
      <4> QED BY <4>1, <4>3
    <3>6. f[k] = [j \in 1..k |-> x[j]] BY <2>1, <2>2, <2>4, <3>1, <3>4, <3>5 DEF a
    <3> QED BY <3>6
  <2> QED BY <2>3, <2>4
<1>7. \A k \in 0..n : k \in T
  <2> HIDE DEF T
  <2> QED BY <1>5, <1>6, UpTo
<1>8. So(n)
  <2>1. n \in T BY <1>7
  <2> QED BY <2>1
<1>9. FlattenSeq(s) = x BY <1>3, <1>8, <1>10
<1> QED BY <1>1, <1>9, <1>10

\* What comes first, if the first sequence is not empty; and none of it.
LEMMA FlattenStart ==
  ASSUME NEW n \in Nat \ {0}, NEW S, NEW s \in [1..n -> Seq(S)]
  PROVE  /\ s[1] # <<>> => FlattenSeq(s) # <<>> /\ FlattenSeq(s)[1] = s[1][1]
         /\ (\A i \in 1..n : s[i] = <<>>) => FlattenSeq(s) = <<>>
<1>1. Len(s) = n OBVIOUS
<1>2. PICK f : Flattening(s, n, f) /\ FlattenSeq(s) = f[n] BY <1>1, FlattenSteps
<1>3. \A i \in 1..n : f[i] = IF i = 1 THEN s[i] ELSE f[i - 1] \o s[i]
  BY <1>2 DEF Flattening
<1> DEFINE So(k) == k # 0 =>
             /\ f[k] \in Seq(S)
             /\ s[1] # <<>> => f[k] # <<>> /\ f[k][1] = s[1][1]
             /\ (\A i \in 1..n : s[i] = <<>>) => f[k] = <<>>
           T == {k \in 0..n : So(k)}
<1>4. 0 \in T OBVIOUS
<1>5. ASSUME NEW k \in 1..n, k - 1 \in T PROVE k \in T
  <2>1. f[k] = IF k = 1 THEN s[k] ELSE f[k - 1] \o s[k] BY <1>3
  <2>2. CASE k = 1 BY <2>1, <2>2
  <2>3. CASE k # 1
    <3> DEFINE a == f[k - 1]
               b == s[k]
    <3>1. So(k - 1) /\ k - 1 # 0 BY <1>5, <2>3
    <3>2. a \in Seq(S) /\ b \in Seq(S) BY <3>1
    <3>3. f[k] = a \o b BY <2>1, <2>3
    <3>4. s[1] # <<>> => a # <<>> /\ a[1] = s[1][1] BY <3>1
    <3>5. (\A i \in 1..n : s[i] = <<>>) => a = <<>> /\ b = <<>> BY <3>1
    <3> HIDE DEF a, b, So, T
    <3>6. a # <<>> => a \o b # <<>> /\ (a \o b)[1] = a[1] BY <3>2
    <3>7. a = <<>> /\ b = <<>> => a \o b = <<>> OBVIOUS
    <3>8. a \o b \in Seq(S) BY <3>2
    <3>9. So(k) BY <3>3, <3>4, <3>5, <3>6, <3>7, <3>8 DEF So
    <3> QED BY <3>9 DEF T
  <2> QED BY <2>2, <2>3
<1>6. \A k \in 0..n : k \in T
  <2> HIDE DEF T
  <2> QED BY <1>4, <1>5, UpTo
<1>7. So(n) BY <1>6
<1> QED BY <1>2, <1>7
=============================================================================
