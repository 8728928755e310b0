-------------------------- MODULE InductionLemmas --------------------------
(***************************************************************************)
(* Induction as a fact about sets: over numbers, and over the subsets of a *)
(* finite set.  It says for a set what the library says for an operator,   *)
(* so that a proof can cite it.  And what it gives for FlattenSeq, the     *)
(* sequences of a sequence one after the other, and for SumFunction, the   *)
(* sum of the values of a function.                                        *)
(***************************************************************************)
EXTENDS Integers, FiniteSets, Sequences, SequencesExt, FiniteSetTheorems,
        SequenceTheorems, NaturalsInduction, WellFoundedInduction, TLAPS

(* A set of numbers that is not empty has a least one.                       *)
LEMMA LeastNumber ==
  ASSUME NEW T \in SUBSET Nat, T # {}
  PROVE  \E m \in T : \A k \in T : m <= k
  <1>1. \E x \in T : \A y \in T : ~ (<<y, x>> \in OpToRel(<, Nat))
    BY WFMin, NatLessThanWellFounded
  <1>2. PICK x \in T : \A y \in T : ~ (<<y, x>> \in OpToRel(<, Nat))
    BY <1>1
  <1>3. \A y \in T : ~ (y < x)
    BY <1>2, Zenon DEF OpToRel
  <1> QED
    BY <1>3

(* Induction, as a fact about the set of the numbers it holds for.           *)
LEMMA InductionOnNat ==
  ASSUME NEW T \in SUBSET Nat, 0 \in T, \A n \in T : n + 1 \in T
  PROVE  T = Nat
  <1>1. SUFFICES ASSUME Nat \ T # {}
                 PROVE  FALSE
    OBVIOUS
  <1>2. PICK m \in Nat \ T : \A k \in Nat \ T : m <= k
    BY <1>1, LeastNumber
  <1>3. m # 0 /\ m - 1 \in Nat /\ ~ (m <= m - 1)
    BY <1>2
  <1>4. m - 1 \in T
    BY <1>2, <1>3
  <1> QED
    BY <1>2, <1>4

(* Induction over the subsets of a finite set.                               *)
LEMMA InductionOnSubsets ==
  ASSUME NEW S, IsFiniteSet(S), NEW Good \in SUBSET (SUBSET S),
         \A s \in SUBSET S : (\A x \in s : s \ {x} \in Good) => s \in Good
  PROVE  Good = SUBSET S
  <1> DEFINE Bad == (SUBSET S) \ Good
             Sizes_ == {Cardinality(s) : s \in Bad}
  <1>1. SUFFICES ASSUME Bad # {}
                 PROVE  FALSE
    OBVIOUS
  <1>2. \A s \in SUBSET S : IsFiniteSet(s) /\ Cardinality(s) \in Nat
    BY FS_Subset, FS_CardinalityType
  <1>3. Sizes_ \in SUBSET Nat /\ Sizes_ # {}
    <2>1. PICK s \in Bad : TRUE
      BY <1>1
    <2>2. Cardinality(s) \in Sizes_
      BY <2>1
    <2>3. \A k \in Sizes_ : k \in Nat
      BY <1>2
    <2> QED
      BY <2>2, <2>3
  <1>4. PICK m \in Sizes_ : \A k \in Sizes_ : m <= k
    BY <1>3, LeastNumber
  <1>5. PICK s \in Bad : m = Cardinality(s)
    BY <1>4
  <1>6. ASSUME NEW x \in s
        PROVE  s \ {x} \in Good
    <2>1. Cardinality(s \ {x}) = m - 1 /\ m \in Nat
      BY <1>2, <1>5, <1>6, FS_RemoveElement
    <2>2. ~ (m <= m - 1)
      BY <2>1
    <2>3. Cardinality(s \ {x}) \notin Sizes_
      BY <1>4, <2>1, <2>2
    <2>4. s \ {x} \notin Bad
      BY <2>3
    <2> QED
      BY <1>5, <2>4
  <1>7. s \in SUBSET S /\ s \notin Good
    BY <1>5
  <1>8. \A x \in s : s \ {x} \in Good
    BY <1>6
  <1> HIDE DEF Bad, Sizes_
  <1> QED
    BY <1>7, <1>8, Zenon

-----------------------------------------------------------------------------
(***************************************************************************)
(* Sequences of sequences, one after the other.                            *)
(***************************************************************************)

LEMMA SeqOfFunction ==
  ASSUME NEW T, NEW n \in Nat, NEW f \in [1 .. n -> T]
  PROVE  f \in Seq(T) /\ Len(f) = n
  <1>1. f \in Seq(T)
    BY SeqDef
  <1>2. DOMAIN f = 1 .. Len(f) /\ DOMAIN f = 1 .. n /\ Len(f) \in Nat
    BY <1>1, LenProperties
  <1> QED
    BY <1>1, <1>2

\* g has the first i of n sequences in the i-th place.
IsFlatten(g, s, n) ==
  g = [i \in 1 .. n |-> IF i = 1 THEN s[i] ELSE g[i - 1] \o s[i]]

LEMMA FlattenExists ==
  ASSUME NEW s, NEW n \in Nat
  PROVE  \E g : IsFlatten(g, s, n)
  <1> DEFINE T == {m \in Nat : \E g : IsFlatten(g, s, m)}
  <1>1. 0 \in T
    <2>1. IsFlatten([i \in 1 .. 0 |-> s[i]], s, 0)
      BY DEF IsFlatten
    <2> QED
      BY <2>1
  <1>2. ASSUME NEW m \in T
        PROVE  m + 1 \in T
    <2>1. PICK g : IsFlatten(g, s, m)
      OBVIOUS
    <2>2. \A i \in 1 .. m : g[i] = IF i = 1 THEN s[i] ELSE g[i - 1] \o s[i]
      <3>1. PICK e : e = [i \in 1 .. m |-> IF i = 1 THEN s[i] ELSE g[i - 1] \o s[i]]
        OBVIOUS
      <3>2. e = g
        BY <2>1, <3>1 DEF IsFlatten
      <3> QED
        BY <3>1, <3>2
    <2>3. PICK h : h = [i \in 1 .. m + 1 |-> IF i = 1 THEN s[i] ELSE g[i - 1] \o s[i]]
      OBVIOUS
    <2>4. \A i \in 1 .. m : h[i] = g[i]
      <3>1. \A i \in 1 .. m : i \in 1 .. m + 1
        OBVIOUS
      <3> QED
        BY <2>2, <2>3, <3>1
    <2>5. \A i \in 1 .. m + 1 : i # 1 => h[i - 1] = g[i - 1]
      <3>1. \A i \in 1 .. m + 1 : i # 1 => i - 1 \in 1 .. m
        OBVIOUS
      <3> QED
        BY <2>4, <3>1
    <2>6. IsFlatten(h, s, m + 1)
      BY <2>3, <2>5 DEF IsFlatten
    <2> QED
      BY <2>6
  <1>3. T = Nat
    <2> HIDE DEF T
    <2>1. T \in SUBSET Nat
      BY DEF T
    <2> QED
      BY <1>1, <1>2, <2>1, InductionOnNat
  <1> QED
    BY <1>3

LEMMA FlattenIs ==
  ASSUME NEW s, Len(s) \in Nat \ {0}
  PROVE  \E g : IsFlatten(g, s, Len(s)) /\ FlattenSeq(s) = g[Len(s)]
  <1>1. \E g : IsFlatten(g, s, Len(s))
    BY FlattenExists
  <1>2. PICK g : g = CHOOSE h : IsFlatten(h, s, Len(s))
    OBVIOUS
  <1>3. IsFlatten(g, s, Len(s))
    BY <1>1, <1>2
  <1>4. FlattenSeq(s) = g[Len(s)]
    BY <1>2 DEF FlattenSeq, IsFlatten
  <1> QED
    BY <1>3, <1>4

\* The first n of them.
Flat(s, n) == FlattenSeq([i \in 1 .. n |-> s[i]])

LEMMA FlatIs ==
  ASSUME NEW s, NEW n \in Nat \ {0}
  PROVE  \E g : /\ Flat(s, n) = g[n] /\ g[1] = s[1]
                /\ \A i \in 1 .. n : i # 1 => g[i] = g[i - 1] \o s[i]
  <1>1. PICK t : t = [i \in 1 .. n |-> s[i]]
    OBVIOUS
  <1>2. Len(t) = n
    <2>1. t \in [1 .. n -> {s[i] : i \in 1 .. n}]
      BY <1>1
    <2> QED
      BY <2>1, SeqOfFunction
  <1>3. PICK g : IsFlatten(g, t, n) /\ FlattenSeq(t) = g[n]
    BY <1>2, FlattenIs
  <1>4. \A i \in 1 .. n : g[i] = IF i = 1 THEN t[i] ELSE g[i - 1] \o t[i]
    <2>1. PICK e : e = [i \in 1 .. n |-> IF i = 1 THEN t[i] ELSE g[i - 1] \o t[i]]
      OBVIOUS
    <2>2. e = g
      BY <1>3, <2>1 DEF IsFlatten
    <2> QED
      BY <2>1, <2>2
  <1>5. \A i \in 1 .. n : t[i] = s[i]
    BY <1>1
  <1>6. 1 \in 1 .. n
    OBVIOUS
  <1>7. Flat(s, n) = g[n]
    BY <1>1, <1>3 DEF Flat
  <1> QED
    BY <1>4, <1>5, <1>6, <1>7

LEMMA FlatEmpty ==
  ASSUME NEW s
  PROVE  Flat(s, 0) = <<>>
  <1>1. PICK t : t = [i \in 1 .. 0 |-> s[i]]
    OBVIOUS
  <1>2. t = <<>> /\ Len(t) = 0
    BY <1>1
  <1> QED
    BY <1>1, <1>2 DEF Flat, FlattenSeq

LEMMA FlatNext ==
  ASSUME NEW S, NEW s, NEW n \in Nat, s[n + 1] \in Seq(S)
  PROVE  Flat(s, n + 1) = Flat(s, n) \o s[n + 1]
  <1>1. CASE n = 0
    <2>0. 1 \in Nat \ {0}
      OBVIOUS
    <2>1. PICK g : /\ Flat(s, 1) = g[1] /\ g[1] = s[1]
                   /\ \A i \in 1 .. 1 : i # 1 => g[i] = g[i - 1] \o s[i]
      BY <2>0, FlatIs
    <2>2. <<>> \o s[1] = s[1]
      BY <1>1, ConcatEmptySeq
    <2> QED
      BY <1>1, <2>1, <2>2, FlatEmpty
  <1>2. CASE n # 0
    <2>0. n \in Nat \ {0} /\ n + 1 \in Nat \ {0}
      BY <1>2
    <2>1. PICK g : /\ Flat(s, n) = g[n] /\ g[1] = s[1]
                   /\ \A i \in 1 .. n : i # 1 => g[i] = g[i - 1] \o s[i]
      BY <2>0, FlatIs
    <2>2. PICK h : /\ Flat(s, n + 1) = h[n + 1] /\ h[1] = s[1]
                   /\ \A i \in 1 .. n + 1 : i # 1 => h[i] = h[i - 1] \o s[i]
      BY <2>0, FlatIs
    <2> DEFINE T == {i \in Nat : i + 1 <= n => h[i + 1] = g[i + 1]}
    <2>3. 0 \in T
      BY <2>1, <2>2
    <2>4. ASSUME NEW i \in T
          PROVE  i + 1 \in T
      <3>1. PICK j : j = i + 1
        OBVIOUS
      <3>2. SUFFICES ASSUME j + 1 <= n PROVE h[j + 1] = g[j + 1]
        BY <3>1
      <3>3. /\ j + 1 \in 1 .. n /\ j + 1 \in 1 .. n + 1 /\ j + 1 # 1
            /\ (j + 1) - 1 = j /\ j <= n
        BY <3>1, <3>2
      <3>4. h[j] = g[j]
        BY <3>1, <3>3
      <3>5. g[j + 1] = g[j] \o s[j + 1]
        BY <2>1, <3>3
      <3>6. h[j + 1] = h[j] \o s[j + 1]
        BY <2>2, <3>3
      <3> QED
        BY <3>4, <3>5, <3>6
    <2>5. T = Nat
      <3> HIDE DEF T
      <3>1. T \in SUBSET Nat
        BY DEF T
      <3> QED
        BY <2>3, <2>4, <3>1, InductionOnNat
    <2>6. h[n] = g[n]
      <3>1. PICK j : j = n - 1
        OBVIOUS
      <3>2. j \in Nat /\ j + 1 = n /\ n <= n
        BY <1>2, <3>1
      <3>3. j \in T
        BY <2>5, <3>2
      <3> QED
        BY <3>2, <3>3
    <2>7. h[n + 1] = h[n] \o s[n + 1]
      <3>1. n + 1 \in 1 .. n + 1 /\ n + 1 # 1 /\ (n + 1) - 1 = n
        BY <1>2
      <3> QED
        BY <2>2, <3>1
    <2> QED
      BY <2>1, <2>2, <2>6, <2>7
  <1> QED
    BY <1>1, <1>2

LEMMA FlatTyped ==
  ASSUME NEW S, NEW s, NEW n \in Nat, \A i \in 1 .. n : s[i] \in Seq(S)
  PROVE  \A i \in 0 .. n : Flat(s, i) \in Seq(S)
  <1> DEFINE T == {i \in Nat : i <= n => Flat(s, i) \in Seq(S)}
  <1>1. 0 \in T
    <2>1. Flat(s, 0) = <<>> /\ <<>> \in Seq(S)
      BY FlatEmpty
    <2> QED
      BY <2>1
  <1>2. ASSUME NEW i \in T
        PROVE  i + 1 \in T
    <2>1. SUFFICES ASSUME i + 1 <= n PROVE Flat(s, i + 1) \in Seq(S)
      OBVIOUS
    <2>2. i \in Nat /\ i <= n /\ i + 1 \in 1 .. n
      BY <2>1
    <2>3. Flat(s, i) \in Seq(S) /\ s[i + 1] \in Seq(S)
      BY <2>2
    <2>4. Flat(s, i) \o s[i + 1] \in Seq(S)
      BY <2>3, ConcatProperties
    <2> QED
      BY <2>2, <2>3, <2>4, FlatNext
  <1>3. T = Nat
    <2> HIDE DEF T
    <2>1. T \in SUBSET Nat
      BY DEF T
    <2> QED
      BY <1>1, <1>2, <2>1, InductionOnNat
  <1>4. ASSUME NEW i \in 0 .. n
        PROVE  Flat(s, i) \in Seq(S)
    <2>1. i \in T /\ i <= n
      BY <1>3
    <2> QED
      BY <2>1
  <1> QED
    BY <1>4

\* It depends on the sequences that are flattened only.
LEMMA FlatSame ==
  ASSUME NEW s, NEW t, NEW n, \A i \in 1 .. n : s[i] = t[i]
  PROVE  Flat(s, n) = Flat(t, n)
  <1>1. [i \in 1 .. n |-> s[i]] = [i \in 1 .. n |-> t[i]]
    OBVIOUS
  <1> QED
    BY <1>1 DEF Flat

AreSeqs(s, n, S) == \A i \in 1 .. n : s[i] \in Seq(S)

\* The first m of t are those of s that follow its first n, up to k.
IsPart(t, s, n, m, k) == k = n + m /\ \A i \in 1 .. m : t[i] = s[n + i]

IsJoined(s, k, n, t, m) == Flat(s, k) = Flat(s, n) \o Flat(t, m)

\* First the first n, then the m that follow.
LEMMA FlatParts ==
  ASSUME NEW S, NEW s, NEW n \in Nat, NEW m \in Nat, NEW t,
         NEW k, AreSeqs(s, k, S), IsPart(t, s, n, m, k)
  PROVE  IsJoined(s, k, n, t, m)
  <1>0. /\ \A i \in 1 .. n + m : s[i] \in Seq(S)
        /\ \A i \in 1 .. m : t[i] = s[n + i]
        /\ k = n + m
    BY DEF AreSeqs, IsPart
  <1>1. \A i \in 0 .. n + m : Flat(s, i) \in Seq(S)
    <2>1. n + m \in Nat
      OBVIOUS
    <2> QED
      BY <1>0, <2>1, FlatTyped
  <1>2. \A i \in 1 .. m : t[i] \in Seq(S)
    <2> TAKE i \in 1 .. m
    <2>1. n + i \in 1 .. n + m
      OBVIOUS
    <2> QED
      BY <1>0, <2>1
  <1>3. \A i \in 0 .. m : Flat(t, i) \in Seq(S)
    BY <1>2, FlatTyped
  <1> DEFINE T == {i \in Nat : i <= m => Flat(s, n + i) = Flat(s, n) \o Flat(t, i)}
  <1>4. 0 \in T
    <2>1. n + 0 = n /\ n \in 0 .. n + m
      OBVIOUS
    <2>2. Flat(s, n) \o <<>> = Flat(s, n)
      BY <1>1, <2>1, ConcatEmptySeq
    <2> QED
      BY <2>1, <2>2, FlatEmpty
  <1>5. ASSUME NEW i \in T
        PROVE  i + 1 \in T
    <2>1. SUFFICES ASSUME i + 1 <= m
                   PROVE  Flat(s, n + (i + 1)) = Flat(s, n) \o Flat(t, i + 1)
      OBVIOUS
    <2>2. i \in Nat /\ i <= m /\ i + 1 \in 1 .. m /\ i \in 0 .. m /\ n \in 0 .. n + m
          /\ n + i \in Nat /\ n + (i + 1) = (n + i) + 1
      BY <2>1
    <2>3. Flat(s, n + i) = Flat(s, n) \o Flat(t, i)
      BY <2>2
    <2>4. PICK a, b, d : a = Flat(s, n) /\ b = Flat(t, i) /\ d = t[i + 1]
      OBVIOUS
    <2>5. a \in Seq(S) /\ b \in Seq(S) /\ d \in Seq(S)
      BY <1>1, <1>2, <1>3, <2>2, <2>4
    <2>6. Flat(t, i + 1) = b \o d
      BY <2>2, <2>4, <2>5, FlatNext
    <2>7. d = s[(n + i) + 1]
      BY <1>0, <2>2, <2>4
    <2>8. Flat(s, (n + i) + 1) = Flat(s, n + i) \o d
      BY <2>2, <2>5, <2>7, FlatNext
    <2>9. (a \o b) \o d = a \o (b \o d)
      <3> HIDE DEF T
      <3> QED
        BY <2>5, ConcatAssociative
    <2> QED
      BY <2>2, <2>3, <2>4, <2>6, <2>8, <2>9
  <1>6. T = Nat
    <2> HIDE DEF T
    <2>1. T \in SUBSET Nat
      BY DEF T
    <2> QED
      BY <1>4, <1>5, <2>1, InductionOnNat
  <1>7. m \in T
    <2> HIDE DEF T
    <2> QED
      BY <1>6
  <1>8. m <= m
    OBVIOUS
  <1> QED
    BY <1>0, <1>7, <1>8 DEF IsJoined

\* Of sequences of one element.
LEMMA FlatSingles ==
  ASSUME NEW S, NEW s \in Seq(S), NEW o, \A i \in 1 .. Len(s) : o[i] = <<s[i]>>
  PROVE  Flat(o, Len(s)) = s
  <1>1. PICK n : n = Len(s)
    OBVIOUS
  <1>2. n \in Nat /\ \A i \in 1 .. n : s[i] \in S /\ o[i] = <<s[i]>> /\ o[i] \in Seq(S)
    <2>1. n \in Nat
      BY <1>1, LenProperties
    <2>2. ASSUME NEW i \in 1 .. n
          PROVE  s[i] \in S /\ o[i] = <<s[i]>>
      BY <1>1, ElementOfSeq
    <2>3. \A x \in S : <<x>> \in Seq(S)
      OBVIOUS
    <2> QED
      BY <2>1, <2>2, <2>3
  <1> DEFINE T == {i \in Nat : i <= n => Flat(o, i) = SubSeq(s, 1, i)}
  <1>3. 0 \in T
    <2>1. SubSeq(s, 1, 0) = <<>>
      BY SubSeqEmpty
    <2>2. Flat(o, 0) = <<>>
      BY FlatEmpty
    <2> QED
      BY <2>1, <2>2
  <1>4. ASSUME NEW i \in T
        PROVE  i + 1 \in T
    <2>1. SUFFICES ASSUME i + 1 <= n PROVE Flat(o, i + 1) = SubSeq(s, 1, i + 1)
      OBVIOUS
    <2>2. /\ i \in Nat /\ i <= n /\ i + 1 \in 1 .. n /\ Flat(o, i) = SubSeq(s, 1, i)
          /\ (i + 1) - 1 = i /\ 1 \in 1 .. n /\ i + 1 \in 1 .. Len(s)
      BY <1>1, <1>2, <2>1
    <2>3. Flat(o, i + 1) = Flat(o, i) \o o[i + 1]
      BY <1>2, <2>2, FlatNext
    <2>4. PICK m : m = i + 1
      OBVIOUS
    <2>5. 1 \in 1 .. Len(s) /\ m \in 1 .. Len(s) /\ m - 1 = i
      BY <1>1, <2>2, <2>4
    <2>6. SubSeq(s, 1, m) = SubSeq(s, 1, m - 1) \o <<s[m]>>
      <3> HIDE DEF T
      <3> QED
        BY <2>5, SubSeqRecursiveSecond
    <2> QED
      BY <1>2, <2>2, <2>3, <2>4, <2>5, <2>6
  <1>5. T = Nat
    <2> HIDE DEF T
    <2>1. T \in SUBSET Nat
      BY DEF T
    <2> QED
      BY <1>3, <1>4, <2>1, InductionOnNat
  <1>6. Flat(o, n) = SubSeq(s, 1, n)
    <2>1. n \in T
      <3> HIDE DEF T
      <3> QED
        BY <1>2, <1>5
    <2> QED
      BY <1>2, <2>1
  <1>7. SubSeq(s, 1, n) = s
    BY <1>1, SubSeqFull
  <1> QED
    BY <1>1, <1>6, <1>7
-----------------------------------------------------------------------------
(***************************************************************************)
(* Sums.  The library folds a function over a set element by element, in   *)
(* an order it does not say.                                               *)
(***************************************************************************)

AnyOf(s) == CHOOSE x \in s : TRUE
IsIter(g, f, D) ==
  g = [s \in D |-> IF s = {} THEN 0 ELSE f[AnyOf(s)] + g[s \ {AnyOf(s)}]]

Iter(f, S) ==
  CHOOSE g : g = [s \in SUBSET S |->
                    IF s = {} THEN 0
                    ELSE f[CHOOSE x \in s : TRUE] + g[s \ {CHOOSE x \in s : TRUE}]]

SumOver(f, S) == Iter(f, S)[S]

LEMMA AnyIsElement ==
  ASSUME NEW s, s # {}
  PROVE  AnyOf(s) \in s
  BY DEF AnyOf

Small(S, n) == {s \in SUBSET S : Cardinality(s) <= n}

LEMMA SmallSets ==
  ASSUME NEW S, IsFiniteSet(S), NEW n \in Nat
  PROVE  /\ \A s \in Small(S, n + 1) : \A x \in s : s \ {x} \in Small(S, n)
         /\ Small(S, n) \subseteq Small(S, n + 1)
         /\ Small(S, 0) = {{}}
         /\ Small(S, Cardinality(S)) = SUBSET S
         /\ Cardinality(S) \in Nat
  <1>1. \A s \in SUBSET S : IsFiniteSet(s) /\ Cardinality(s) \in Nat
                            /\ Cardinality(s) <= Cardinality(S)
    BY FS_Subset, FS_CardinalityType
  <1>2. Cardinality(S) \in Nat
    BY FS_CardinalityType
  <1>3. ASSUME NEW s \in Small(S, n + 1), NEW x \in s
        PROVE  s \ {x} \in Small(S, n)
    <2>1. s \in SUBSET S /\ Cardinality(s) <= n + 1
      BY DEF Small
    <2>2. Cardinality(s \ {x}) = Cardinality(s) - 1 /\ Cardinality(s) \in Nat
      BY <1>1, <2>1, FS_RemoveElement
    <2> QED
      BY <2>1, <2>2 DEF Small
  <1>4. Small(S, n) \subseteq Small(S, n + 1)
    BY <1>1 DEF Small
  <1>5. \A s \in SUBSET S : Cardinality(s) <= 0 <=> s = {}
    BY <1>1, FS_EmptySet
  <1>6. Small(S, 0) = {{}}
    BY <1>5 DEF Small
  <1>7. Small(S, Cardinality(S)) = SUBSET S
    BY <1>1 DEF Small
  <1> QED
    BY <1>2, <1>3, <1>4, <1>6, <1>7

(* What the library's fold leaves to a CHOOSE exists.                        *)
LEMMA IterExists ==
  ASSUME NEW f, NEW S, IsFiniteSet(S)
  PROVE  \E g : IsIter(g, f, SUBSET S)
  <1> DEFINE T == {n \in Nat : \E g : IsIter(g, f, Small(S, n))}
  <1>1. 0 \in T
    <2> DEFINE g == [s \in Small(S, 0) |-> 0]
    <2>1. IsIter(g, f, Small(S, 0))
      BY SmallSets DEF IsIter
    <2> QED
      BY <2>1
  <1>2. ASSUME NEW n \in T
        PROVE  n + 1 \in T
    <2>1. PICK g : IsIter(g, f, Small(S, n))
      OBVIOUS
    <2> DEFINE h == [s \in Small(S, n + 1) |->
                       IF s = {} THEN 0 ELSE f[AnyOf(s)] + g[s \ {AnyOf(s)}]]
    <2>2. \A s \in Small(S, n) : h[s] = g[s]
      <3>1. Small(S, n) \subseteq Small(S, n + 1)
        BY SmallSets
      <3> QED
        BY <2>1, <3>1 DEF IsIter
    <2>3. ASSUME NEW s \in Small(S, n + 1), s # {}
          PROVE  h[s \ {AnyOf(s)}] = g[s \ {AnyOf(s)}]
      <3>1. s \ {AnyOf(s)} \in Small(S, n)
        BY <2>3, AnyIsElement, SmallSets
      <3> QED
        BY <2>2, <3>1
    <2>4. IsIter(h, f, Small(S, n + 1))
      BY <2>3 DEF IsIter
    <2> QED
      BY <2>4
  <1>3. T = Nat
    BY <1>1, <1>2, InductionOnNat
  <1>4. Cardinality(S) \in T
    BY <1>3, FS_CardinalityType
  <1> QED
    BY <1>4, SmallSets, FS_CardinalityType

LEMMA IterIs ==
  ASSUME NEW f, NEW S, IsFiniteSet(S)
  PROVE  IsIter(Iter(f, S), f, SUBSET S)
  <1>1. PICK g : IsIter(g, f, SUBSET S)
    BY IterExists
  <1>2. \E h : h = [s \in SUBSET S |->
                    IF s = {} THEN 0
                    ELSE f[CHOOSE x \in s : TRUE] + h[s \ {CHOOSE x \in s : TRUE}]]
    BY <1>1 DEF IsIter, AnyOf
  <1>3. Iter(f, S) = [s \in SUBSET S |->
                    IF s = {} THEN 0
                    ELSE f[CHOOSE x \in s : TRUE] + Iter(f, S)[s \ {CHOOSE x \in s : TRUE}]]
    BY <1>2 DEF Iter
  <1> QED
    BY <1>3 DEF IsIter, AnyOf

LEMMA IterStep ==
  ASSUME NEW f, NEW D, NEW g, IsIter(g, f, D), NEW s \in D
  PROVE  g[s] = IF s = {} THEN 0 ELSE f[AnyOf(s)] + g[s \ {AnyOf(s)}]
  <1>1. PICK h : h = [t \in D |-> IF t = {} THEN 0 ELSE f[AnyOf(t)] + g[t \ {AnyOf(t)}]]
    OBVIOUS
  <1>2. g = h
    BY <1>1 DEF IsIter
  <1>3. h[s] = IF s = {} THEN 0 ELSE f[AnyOf(s)] + g[s \ {AnyOf(s)}]
    BY <1>1
  <1> QED
    BY <1>2, <1>3

LEMMA IterValues ==
  ASSUME NEW f, NEW S, IsFiniteSet(S)
  PROVE  \A s \in SUBSET S :
           Iter(f, S)[s] = IF s = {} THEN 0 ELSE f[AnyOf(s)] + Iter(f, S)[s \ {AnyOf(s)}]
  <1>1. PICK g : g = Iter(f, S)
    OBVIOUS
  <1>2. IsIter(g, f, SUBSET S)
    BY <1>1, IterIs
  <1>3. ASSUME NEW s \in SUBSET S
        PROVE  g[s] = IF s = {} THEN 0 ELSE f[AnyOf(s)] + g[s \ {AnyOf(s)}]
    BY <1>2, IterStep
  <1> QED
    BY <1>1, <1>3

(* The sum over a smaller set is the same wherever it is computed.           *)
LEMMA IterAgrees ==
  ASSUME NEW f, NEW S, IsFiniteSet(S), NEW R \in SUBSET S
  PROVE  Iter(f, S)[R] = Iter(f, R)[R]
  <1> DEFINE Good == {s \in SUBSET R : Iter(f, S)[s] = Iter(f, R)[s]}
  <1>1. IsFiniteSet(R)
    BY FS_Subset
  <1>2. \A s \in SUBSET S :
          Iter(f, S)[s] = IF s = {} THEN 0 ELSE f[AnyOf(s)] + Iter(f, S)[s \ {AnyOf(s)}]
    BY IterValues
  <1>3. ASSUME NEW s \in SUBSET R, \A x \in s : s \ {x} \in Good
        PROVE  s \in Good
    <2>1. s \in SUBSET S
      OBVIOUS
    <2>2. s # {} => Iter(f, S)[s \ {AnyOf(s)}] = Iter(f, R)[s \ {AnyOf(s)}]
      BY <1>3, AnyIsElement
    <2>3. Iter(f, S)[s] =
            IF s = {} THEN 0 ELSE f[AnyOf(s)] + Iter(f, S)[s \ {AnyOf(s)}]
      BY <1>2, <2>1
    <2>4. Iter(f, R)[s] =
            IF s = {} THEN 0 ELSE f[AnyOf(s)] + Iter(f, R)[s \ {AnyOf(s)}]
      BY <1>1, IterValues
    <2> QED
      BY <2>2, <2>3, <2>4
  <1>4. Good = SUBSET R
    <2> HIDE DEF Good
    <2>1. Good \in SUBSET (SUBSET R)
      BY DEF Good
    <2> QED
      BY <1>1, <1>3, <2>1, InductionOnSubsets
  <1> QED
    BY <1>4

NumberOn(f, S) == \A x \in S : f[x] \in Int
NaturalOn(f, S) == \A x \in S : f[x] \in Nat

LEMMA IterIn ==
  ASSUME NEW f, NEW S, IsFiniteSet(S), NEW T, 0 \in T, \A a, b \in T : a + b \in T,
         \A x \in S : f[x] \in T
  PROVE  \A s \in SUBSET S : Iter(f, S)[s] \in T
  <1> DEFINE Good == {s \in SUBSET S : Iter(f, S)[s] \in T}
  <1>1. ASSUME NEW s \in SUBSET S, \A x \in s : s \ {x} \in Good
        PROVE  s \in Good
    <2>1. s # {} => AnyOf(s) \in S /\ Iter(f, S)[s \ {AnyOf(s)}] \in T
      BY <1>1, AnyIsElement
    <2>2. Iter(f, S)[s] =
            IF s = {} THEN 0 ELSE f[AnyOf(s)] + Iter(f, S)[s \ {AnyOf(s)}]
      BY IterValues
    <2>3. PICK a, b : a = f[AnyOf(s)] /\ b = Iter(f, S)[s \ {AnyOf(s)}]
      OBVIOUS
    <2>4. s # {} => a + b \in T
      BY <2>1, <2>3
    <2> QED
      BY <2>2, <2>3, <2>4
  <1>2. Good = SUBSET S
    <2> HIDE DEF Good
    <2>1. Good \in SUBSET (SUBSET S)
      BY DEF Good
    <2> QED
      BY <1>1, <2>1, InductionOnSubsets
  <1> QED
    BY <1>2

LEMMA IterType ==
  ASSUME NEW f, NEW S, IsFiniteSet(S), NumberOn(f, S)
  PROVE  \A s \in SUBSET S : Iter(f, S)[s] \in Int
  <1>1. \A a, b \in Int : a + b \in Int
    OBVIOUS
  <1> QED
    BY <1>1, IterIn DEF NumberOn

LEMMA IterNatural ==
  ASSUME NEW f, NEW S, IsFiniteSet(S), NaturalOn(f, S)
  PROVE  \A s \in SUBSET S : Iter(f, S)[s] \in Nat
  <1>1. \A a, b \in Nat : a + b \in Nat
    OBVIOUS
  <1> QED
    BY <1>1, IterIn DEF NaturalOn

(* The order does not matter.                                                *)
AnyOrder(f, S) ==
  \A s \in SUBSET S : \A x \in s : Iter(f, S)[s] = f[x] + Iter(f, S)[s \ {x}]
LEMMA IterAnyOrder ==
  ASSUME NEW f, NEW S, IsFiniteSet(S), NumberOn(f, S)
  PROVE  AnyOrder(f, S)
  <1> DEFINE g == Iter(f, S)
             Good == {s \in SUBSET S : \A x \in s : g[s] = f[x] + g[s \ {x}]}
  <1>1. \A s \in SUBSET S :
          /\ g[s] \in Int
          /\ g[s] = IF s = {} THEN 0 ELSE f[AnyOf(s)] + g[s \ {AnyOf(s)}]
    BY IterValues, IterType
  <1> HIDE DEF g
  <1>2. ASSUME NEW s \in SUBSET S, \A x \in s : s \ {x} \in Good
        PROVE  s \in Good
    <2>1. SUFFICES ASSUME NEW x \in s
                   PROVE  g[s] = f[x] + g[s \ {x}]
      OBVIOUS
    <2>2. PICK c : c = AnyOf(s)
      OBVIOUS
    <2>3. c \in s /\ g[s] = f[c] + g[s \ {c}]
      BY <1>1, <2>2, AnyIsElement
    <2>4. CASE x # c
      <3>0. /\ s \ {c} \in Good /\ x \in s \ {c}
            /\ s \ {x} \in Good /\ c \in s \ {x}
        BY <1>2, <2>3, <2>4
      <3>1. g[s \ {c}] = f[x] + g[(s \ {c}) \ {x}]
        BY <3>0
      <3>2. g[s \ {x}] = f[c] + g[(s \ {x}) \ {c}]
        BY <3>0
      <3>3. (s \ {c}) \ {x} = (s \ {x}) \ {c}
        OBVIOUS
      <3>4. PICK r : r = (s \ {x}) \ {c}
        OBVIOUS
      <3>5. /\ f[x] \in Int /\ f[c] \in Int /\ r \in SUBSET S
        BY <2>3, <3>4 DEF NumberOn
      <3>6. PICK a, b, n : a = f[x] /\ b = f[c] /\ n = g[r]
        OBVIOUS
      <3>7. a \in Int /\ b \in Int /\ n \in Int
        <4>1. g[r] \in Int
          BY <1>1, <3>5
        <4> QED
          BY <3>5, <3>6, <4>1
      <3>8. g[s \ {c}] = a + n /\ g[s \ {x}] = b + n
        BY <3>1, <3>2, <3>3, <3>4, <3>6
      <3> QED
        BY <2>3, <3>6, <3>7, <3>8
    <2> QED
      BY <2>3, <2>4
  <1>3. Good = SUBSET S
    <2> HIDE DEF Good
    <2>1. Good \in SUBSET (SUBSET S)
      BY DEF Good
    <2> QED
      BY <1>2, <2>1, InductionOnSubsets
  <1> QED
    BY <1>3 DEF g, AnyOrder

LEMMA SumOverNumbers ==
  ASSUME NEW f, NEW S, IsFiniteSet(S), NumberOn(f, S)
  PROVE  /\ SumOver(f, S) \in Int
         /\ S = {} => SumOver(f, S) = 0
         /\ \A x \in S : SumOver(f, S) = f[x] + SumOver(f, S \ {x})
  <1>1. Iter(f, S)[S] \in Int
    BY IterType
  <1>2. S = {} => Iter(f, S)[S] = 0
    <2>1. S \in SUBSET S
      OBVIOUS
    <2>2. Iter(f, S)[S] = IF S = {} THEN 0 ELSE f[AnyOf(S)] + Iter(f, S)[S \ {AnyOf(S)}]
      BY <2>1, IterValues
    <2> QED
      BY <2>2
  <1>4. AnyOrder(f, S)
    BY IterAnyOrder
  <1>3. ASSUME NEW x \in S
        PROVE  Iter(f, S)[S] = f[x] + Iter(f, S \ {x})[S \ {x}]
    <2>1. Iter(f, S)[S] = f[x] + Iter(f, S)[S \ {x}]
      <3>2. PICK s : s = S
        OBVIOUS
      <3>3. s \in SUBSET S /\ x \in s
        BY <3>2
      <3>4. \A y \in s : Iter(f, S)[s] = f[y] + Iter(f, S)[s \ {y}]
        BY <1>4, <3>3 DEF AnyOrder
      <3> QED
        BY <3>2, <3>3, <3>4
    <2>2. S \ {x} \in SUBSET S
      OBVIOUS
    <2> QED
      BY <2>1, <2>2, IterAgrees
  <1> QED
    BY <1>1, <1>2, <1>3 DEF SumOver

LEMMA SumOverIs ==
  ASSUME NEW f, NEW S, IsFiniteSet(S), NaturalOn(f, S)
  PROVE  /\ SumOver(f, S) \in Nat
         /\ S = {} => SumOver(f, S) = 0
         /\ \A x \in S : SumOver(f, S) = f[x] + SumOver(f, S \ {x})
  <1>1. NumberOn(f, S)
    BY DEF NaturalOn, NumberOn
  <1>2. SumOver(f, S) \in Nat
    BY IterNatural DEF SumOver
  <1> QED
    BY <1>1, <1>2, SumOverNumbers

LEMMA SumOfSequence ==
  ASSUME NEW q \in Seq(Nat)
  PROVE  SumFunction(q) \in Nat
  <1>1. DOMAIN q = 1 .. Len(q) /\ Len(q) \in Nat /\ \A i \in DOMAIN q : q[i] \in Nat
    BY LenProperties
  <1>2. IsFiniteSet(DOMAIN q)
    BY <1>1, FS_Interval
  <1>3. SumFunction(q) = SumOver(q, DOMAIN q)
    BY DEF SumFunction, SumFunctionOnSet, FoldFunctionOnSet, MapThenFoldSet, Iter, SumOver
  <1> QED
    BY <1>1, <1>2, <1>3, SumOverIs DEF NaturalOn

LEMMA SumFunctionIs ==
  ASSUME NEW f
  PROVE  SumFunction(f) = SumOver(f, DOMAIN f)
  BY DEF SumFunction, SumFunctionOnSet, FoldFunctionOnSet, MapThenFoldSet, Iter, SumOver

(* A sum depends on its terms only, and on those that are not 0.             *)
AgreeOn(f, g, S) == \A x \in S : f[x] = g[x]
ZeroOn(f, S) == \A x \in S : f[x] = 0

LEMMA SumAgrees ==
  ASSUME NEW f, NEW g, NEW S, IsFiniteSet(S), NumberOn(f, S), AgreeOn(f, g, S)
  PROVE  SumOver(g, S) = SumOver(f, S)
  <1> DEFINE Good == {s \in SUBSET S : SumOver(g, s) = SumOver(f, s)}
  <1>1. ASSUME NEW s \in SUBSET S, \A x \in s : s \ {x} \in Good
        PROVE  s \in Good
    <2>1. IsFiniteSet(s) /\ NumberOn(f, s) /\ NumberOn(g, s)
      BY FS_Subset DEF NumberOn, AgreeOn
    <2>2. CASE s = {}
      BY <2>1, <2>2, SumOverNumbers
    <2>3. ASSUME NEW x \in s
          PROVE  SumOver(g, s) = SumOver(f, s)
      <3>1. SumOver(g, s \ {x}) = SumOver(f, s \ {x}) /\ g[x] = f[x]
        BY <1>1 DEF AgreeOn
      <3>2. /\ SumOver(f, s) = f[x] + SumOver(f, s \ {x})
            /\ SumOver(g, s) = g[x] + SumOver(g, s \ {x})
        BY <2>1, SumOverNumbers
      <3> QED
        BY <3>1, <3>2
    <2> QED
      BY <2>2, <2>3
  <1>2. Good = SUBSET S
    <2> HIDE DEF Good
    <2>1. Good \in SUBSET (SUBSET S)
      BY DEF Good
    <2> QED
      BY <1>1, <2>1, InductionOnSubsets
  <1> QED
    BY <1>2

LEMMA SumOfZeros ==
  ASSUME NEW f, NEW S, IsFiniteSet(S), ZeroOn(f, S)
  PROVE  SumOver(f, S) = 0
  <1> DEFINE Good == {s \in SUBSET S : SumOver(f, s) = 0}
  <1>1. ASSUME NEW s \in SUBSET S, \A x \in s : s \ {x} \in Good
        PROVE  s \in Good
    <2>1. IsFiniteSet(s) /\ NumberOn(f, s)
      BY FS_Subset DEF NumberOn, ZeroOn
    <2>2. CASE s = {}
      BY <2>1, <2>2, SumOverNumbers
    <2>3. ASSUME NEW x \in s
          PROVE  SumOver(f, s) = 0
      <3>1. SumOver(f, s \ {x}) = 0 /\ f[x] = 0
        BY <1>1 DEF ZeroOn
      <3>2. SumOver(f, s) = f[x] + SumOver(f, s \ {x})
        BY <2>1, SumOverNumbers
      <3> QED
        BY <3>1, <3>2
    <2> QED
      BY <2>2, <2>3
  <1>2. Good = SUBSET S
    <2> HIDE DEF Good
    <2>1. Good \in SUBSET (SUBSET S)
      BY DEF Good
    <2> QED
      BY <1>1, <2>1, InductionOnSubsets
  <1> QED
    BY <1>2

LEMMA SumOfOne ==
  ASSUME NEW f, NEW S, IsFiniteSet(S), NumberOn(f, S), NEW x \in S, ZeroOn(f, S \ {x})
  PROVE  SumOver(f, S) = f[x]
  <1>1. SumOver(f, S) = f[x] + SumOver(f, S \ {x})
    BY SumOverNumbers
  <1>2. SumOver(f, S \ {x}) = 0
    <2>1. IsFiniteSet(S \ {x})
      BY FS_Subset
    <2> QED
      BY <2>1, SumOfZeros
  <1>3. PICK a \in Int : a = f[x]
    BY DEF NumberOn
  <1> QED
    BY <1>1, <1>2, <1>3

(* A term that changes changes the sum by as much.                           *)
LEMMA SumChanges ==
  ASSUME NEW f, NEW g, NEW S, IsFiniteSet(S), NumberOn(f, S), NEW x \in S, NEW e \in Int,
         AgreeOn(f, g, S \ {x}), g[x] = f[x] + e
  PROVE  SumOver(g, S) = SumOver(f, S) + e
  <1>1. /\ IsFiniteSet(S \ {x}) /\ NumberOn(f, S \ {x})
    BY FS_Subset DEF NumberOn
  <1>2. f[x] \in Int
    BY DEF NumberOn
  <1>3. NumberOn(g, S)
    <2>1. g[x] \in Int
      BY <1>2
    <2> QED
      BY <2>1 DEF NumberOn, AgreeOn
  <1>4. PICK a, b : a = f[x] /\ b = SumOver(f, S \ {x})
    OBVIOUS
  <1>5. a \in Int /\ b \in Int
    BY <1>1, <1>2, <1>4, SumOverNumbers
  <1>6. SumOver(f, S) = a + b
    BY <1>4, SumOverNumbers
  <1>7. SumOver(g, S) = (a + e) + b
    <2>1. SumOver(g, S) = g[x] + SumOver(g, S \ {x})
      BY <1>3, SumOverNumbers
    <2>2. SumOver(g, S \ {x}) = b
      BY <1>1, <1>4, SumAgrees
    <2> QED
      BY <1>4, <2>1, <2>2
  <1> QED
    BY <1>5, <1>6, <1>7
=============================================================================
