----------------------------- MODULE Induction -----------------------------
(***************************************************************************)
(* Induction for the proofs of this project.  The induction theorems of    *)
(* the library take the property as a parameter, which the provers cannot  *)
(* instantiate; NatInd takes the set of the numbers that have it instead.  *)
(*                                                                         *)
(* The rest of the module is what induction says of SumFunctionOnSet, with *)
(* which modules Lru and DrutaHash count memory, and of numbers and        *)
(* sequences.                                                              *)
(***************************************************************************)
EXTENDS Integers, FiniteSetsExt, SequenceTheorems, FiniteSetTheorems, WellFoundedInduction, TLAPS

\* Induction over the natural numbers, from the least counterexample: S is the
\* set of the numbers that have the property.
LEMMA NatInd ==
  ASSUME NEW S, 0 \in S, \A n \in Nat : n \in S => n + 1 \in S
  PROVE  \A n \in Nat : n \in S
<1> DEFINE T == {n \in Nat : n \notin S}
<1> SUFFICES ASSUME T # {} PROVE FALSE
  OBVIOUS
<1>1. PICK x \in T : \A y \in T : ~(<<y, x>> \in OpToRel(<, Nat))
  BY NatLessThanWellFounded, WFMin
<1>2. x # 0 /\ x - 1 \in Nat
  OBVIOUS
<1>3. <<x - 1, x>> \in OpToRel(<, Nat)
  BY <1>2 DEF OpToRel
<1>4. x - 1 \notin T
  BY <1>1, <1>3
<1> QED BY <1>2, <1>4

\* The subsets of a finite set and their sizes.
LEMMA SubsetSizes ==
  ASSUME NEW S, IsFiniteSet(S)
  PROVE  \A T \in SUBSET S :
           /\ IsFiniteSet(T) /\ Cardinality(T) \in Nat
           /\ Cardinality(T) <= Cardinality(S)
           /\ Cardinality(T) = 0 <=> T = {}
           /\ \A k \in T : Cardinality(T \ {k}) = Cardinality(T) - 1
<1> SUFFICES ASSUME NEW T \in SUBSET S
             PROVE  /\ IsFiniteSet(T) /\ Cardinality(T) \in Nat
                    /\ Cardinality(T) <= Cardinality(S)
                    /\ Cardinality(T) = 0 <=> T = {}
                    /\ \A k \in T : Cardinality(T \ {k}) = Cardinality(T) - 1
  OBVIOUS
<1>1. IsFiniteSet(T) /\ Cardinality(T) <= Cardinality(S)
  BY FS_Subset
<1> QED BY <1>1, FS_CardinalityType, FS_EmptySet, FS_RemoveElement

\* The same with all the smaller numbers as hypothesis.
LEMMA StrongInd ==
  ASSUME NEW S, \A n \in Nat : (\A m \in Nat : m < n => m \in S) => n \in S
  PROVE  \A n \in Nat : n \in S
<1> DEFINE T == {n \in Nat : \A m \in Nat : m < n => m \in S}
<1>1. 0 \in T
  OBVIOUS
<1>2. ASSUME NEW n \in Nat, n \in T PROVE n + 1 \in T
  <2>1. n \in S
    BY <1>2
  <2>2. \A m \in Nat : m < n + 1 => m < n \/ m = n
    OBVIOUS
  <2> QED BY <1>2, <2>1, <2>2
<1>3. \A n \in Nat : n \in T
  <2> HIDE DEF T
  <2> QED BY <1>1, <1>2, NatInd
<1> QED BY <1>3

(***************************************************************************)
(* Sums over finite sets.                                                  *)
(***************************************************************************)

\* The element a fold takes out of s.
Pick(s) == CHOOSE x \in s : TRUE

\* g holds the sum of f over every set in S, as the fold computes it.
Table(f, S, g) ==
  g = [s \in S |-> IF s = {} THEN 0 ELSE f[Pick(s)] + g[s \ {Pick(s)}]]

\* The subsets of S of at most n elements.
Small(S, n) == {s \in SUBSET S : Cardinality(s) <= n}

\* SumFunctionOnSet, with the fold of the library spelt out.
LEMMA SumDef ==
  ASSUME NEW f, NEW S
  PROVE  SumFunctionOnSet(f, S) = (CHOOSE g : Table(f, SUBSET S, g))[S]
BY DEF SumFunctionOnSet, FoldFunctionOnSet, MapThenFoldSet, Table, Pick

\* A table of partial sums exists for every finite set.
LEMMA TableExists ==
  ASSUME NEW f, NEW S, IsFiniteSet(S)
  PROVE  \E g : Table(f, SUBSET S, g)
<1> DEFINE N == {n \in Nat : \E g : Table(f, Small(S, n), g)}
<1>0. \A s \in SUBSET S : /\ IsFiniteSet(s) /\ Cardinality(s) \in Nat
                          /\ Cardinality(s) <= Cardinality(S)
                          /\ Cardinality(s) = 0 <=> s = {}
  BY FS_Subset, FS_CardinalityType, FS_EmptySet
<1>1. 0 \in N
  <2> DEFINE g == [s \in Small(S, 0) |-> 0]
  <2>1. \A s \in Small(S, 0) : s = {}
    BY <1>0 DEF Small
  <2>2. g = [s \in Small(S, 0) |-> IF s = {} THEN 0 ELSE f[Pick(s)] + g[s \ {Pick(s)}]]
    BY <2>1
  <2>3. \E h : Table(f, Small(S, 0), h)
    <3> HIDE DEF g
    <3> QED BY <2>2 DEF Table
  <2> QED BY <2>3
<1>2. ASSUME NEW n \in Nat, n \in N PROVE n + 1 \in N
  <2>1. PICK g : Table(f, Small(S, n), g)
    BY <1>2
  <2> DEFINE h == [s \in Small(S, n + 1) |->
                     IF s = {} THEN 0 ELSE f[Pick(s)] + g[s \ {Pick(s)}]]
  <2>2. ASSUME NEW s \in Small(S, n + 1), s # {}
        PROVE  s \ {Pick(s)} \in Small(S, n) \cap Small(S, n + 1)
    <3>1. Pick(s) \in s
      BY <2>2 DEF Pick
    <3>2. Cardinality(s \ {Pick(s)}) = Cardinality(s) - 1 /\ s \in SUBSET S
      BY <1>0, <3>1, FS_RemoveElement DEF Small
    <3>3. s \ {Pick(s)} \in SUBSET S /\ Cardinality(s) \in Nat /\ Cardinality(s) <= n + 1
      BY <1>0 DEF Small
    <3> QED BY <3>2, <3>3 DEF Small
  <2>3. ASSUME NEW s \in Small(S, n) \cap Small(S, n + 1)
        PROVE  h[s] = g[s]
    <3>1. g[s] = IF s = {} THEN 0 ELSE f[Pick(s)] + g[s \ {Pick(s)}]
      BY <2>1 DEF Table
    <3> QED BY <3>1
  <2>4. ASSUME NEW s \in Small(S, n + 1), s # {}
        PROVE  h[s \ {Pick(s)}] = g[s \ {Pick(s)}]
    <3> HIDE DEF h
    <3> QED BY <2>2, <2>3, <2>4
  <2>5. \A s \in Small(S, n + 1) :
           h[s] = IF s = {} THEN 0 ELSE f[Pick(s)] + h[s \ {Pick(s)}]
    BY <2>4
  <2>6. \E k : Table(f, Small(S, n + 1), k)
    <3>1. Table(f, Small(S, n + 1), h)
      BY <2>5 DEF Table
    <3> HIDE DEF h
    <3> QED BY <3>1
  <2> QED BY <2>6
<1>3. Cardinality(S) \in N
  <2> HIDE DEF N
  <2> QED BY <1>1, <1>2, NatInd, FS_CardinalityType
<1>4. SUBSET S = Small(S, Cardinality(S))
  BY <1>0 DEF Small
<1> QED BY <1>3, <1>4

\* Two tables agree where both are defined.
LEMMA TableUnique ==
  ASSUME NEW f, NEW S, IsFiniteSet(S), NEW T \in SUBSET S, NEW g, NEW h,
         Table(f, SUBSET S, g), Table(f, SUBSET T, h)
  PROVE  h[T] = g[T]
<1> DEFINE N == {n \in Nat : \A s \in SUBSET T : Cardinality(s) = n => g[s] = h[s]}
<1>0. \A s \in SUBSET T : IsFiniteSet(s) /\ Cardinality(s) \in Nat
                          /\ (Cardinality(s) = 0 <=> s = {})
  BY FS_Subset, FS_CardinalityType, FS_EmptySet
<1>1. ASSUME NEW s \in SUBSET T
      PROVE  /\ g[s] = IF s = {} THEN 0 ELSE f[Pick(s)] + g[s \ {Pick(s)}]
             /\ h[s] = IF s = {} THEN 0 ELSE f[Pick(s)] + h[s \ {Pick(s)}]
  BY DEF Table
<1>2. 0 \in N
  BY <1>0, <1>1
<1>3. ASSUME NEW n \in Nat, n \in N PROVE n + 1 \in N
  <2> SUFFICES ASSUME NEW s \in SUBSET T, Cardinality(s) = n + 1 PROVE g[s] = h[s]
    OBVIOUS
  <2>1. s # {} /\ Pick(s) \in s
    BY <1>0 DEF Pick
  <2>2. Cardinality(s \ {Pick(s)}) = n
    BY <2>1, <1>0, FS_RemoveElement
  <2>3. g[s \ {Pick(s)}] = h[s \ {Pick(s)}]
    BY <2>2, <1>3
  <2> QED BY <2>1, <2>3, <1>1
<1>4. Cardinality(T) \in N
  <2> HIDE DEF N
  <2> QED BY <1>0, <1>2, <1>3, NatInd
<1> QED BY <1>4

\* The sum of f over a finite set, from the element the fold takes first.
LEMMA SumPick ==
  ASSUME NEW f, NEW S, IsFiniteSet(S)
  PROVE  SumFunctionOnSet(f, S) =
           IF S = {} THEN 0 ELSE f[Pick(S)] + SumFunctionOnSet(f, S \ {Pick(S)})
<1>1. ASSUME NEW T \in SUBSET S
      PROVE  Table(f, SUBSET T, CHOOSE g : Table(f, SUBSET T, g))
  BY TableExists, FS_Subset
<1> DEFINE G(T) == CHOOSE g : Table(f, SUBSET T, g)
           T == S \ {Pick(S)}
<1>2. G(S)[S] = IF S = {} THEN 0 ELSE f[Pick(S)] + G(S)[T]
  <2> HIDE DEF G
  <2>1. Table(f, SUBSET S, G(S))
    BY <1>1 DEF G
  <2> QED BY <2>1 DEF Table
<1>3. G(T)[T] = G(S)[T]
  <2> HIDE DEF G
  <2>1. Table(f, SUBSET S, G(S)) /\ Table(f, SUBSET T, G(T))
    BY <1>1 DEF G
  <2>2. T \in SUBSET S
    OBVIOUS
  <2> HIDE DEF T
  <2> QED BY <2>1, <2>2, TableUnique
<1>4. SumFunctionOnSet(f, S) = G(S)[S] /\ SumFunctionOnSet(f, T) = G(T)[T]
  BY SumDef
<1> HIDE DEF G
<1> QED BY <1>2, <1>3, <1>4

\* The sum over a finite set does not depend on the order: any element may be
\* taken out first.
LEMMA SumRemove ==
  ASSUME NEW S, IsFiniteSet(S), NEW f, \A x \in S : f[x] \in Nat
  PROVE  /\ SumFunctionOnSet(f, S) \in Nat
         /\ \A k \in S : SumFunctionOnSet(f, S) = f[k] + SumFunctionOnSet(f, S \ {k})
<1> DEFINE Sum(T) == SumFunctionOnSet(f, T)
           P(T) == Sum(T) \in Nat /\ \A k \in T : Sum(T) = f[k] + Sum(T \ {k})
           N == {n \in Nat : \A T \in SUBSET S : Cardinality(T) <= n => P(T)}
<1>1. \A T \in SUBSET S : /\ IsFiniteSet(T) /\ Cardinality(T) \in Nat
                          /\ Cardinality(T) = 0 <=> T = {}
                          /\ \A k \in T : Cardinality(T \ {k}) = Cardinality(T) - 1
  BY SubsetSizes
<1>2. \A T \in SUBSET S : Sum(T) = IF T = {} THEN 0 ELSE f[Pick(T)] + Sum(T \ {Pick(T)})
  BY <1>1, SumPick
<1> HIDE DEF Sum
<1>3. 0 \in N
  <2> SUFFICES ASSUME NEW T \in SUBSET S, Cardinality(T) <= 0 PROVE P(T)
    OBVIOUS
  <2>1. T = {}
    BY <1>1
  <2>2. Sum(T) = 0
    BY <2>1, <1>2
  <2> QED BY <2>1, <2>2
<1>4. ASSUME NEW n \in Nat, n \in N PROVE n + 1 \in N
  <2> SUFFICES ASSUME NEW T \in SUBSET S, Cardinality(T) = n + 1 PROVE P(T)
    BY <1>1, <1>4
  <2> DEFINE c == Pick(T)
  <2>1. T # {} /\ c \in T
    BY <1>1 DEF Pick
  <2>2. Sum(T) = f[c] + Sum(T \ {c})
    BY <2>1, <1>2
  <2>3. \A k \in T : Cardinality(T \ {k}) = n /\ T \ {k} \in SUBSET S
    BY <1>1
  <2>4. \A k \in T : P(T \ {k})
    BY <2>3, <1>4
  <2> HIDE DEF c
  <2>5. Sum(T) \in Nat
    BY <2>1, <2>2, <2>4
  <2>6. ASSUME NEW k \in T, k # c PROVE Sum(T) = f[k] + Sum(T \ {k})
    <3> DEFINE R == (T \ {c}) \ {k}
    <3>1. R = (T \ {k}) \ {c} /\ R \in SUBSET S
      OBVIOUS
    <3>2. Cardinality(R) <= n
      <4>1. T \ {c} \in SUBSET S /\ k \in T \ {c} /\ Cardinality(T \ {c}) = n
        BY <2>1, <2>3, <2>6
      <4>2. Cardinality(R) = n - 1
        BY <4>1, <1>1
      <4> QED BY <4>2
    <3>3. Sum(R) \in Nat
      BY <3>1, <3>2, <1>4
    <3>4. Sum(T \ {c}) = f[k] + Sum(R)
      BY <2>1, <2>4, <2>6
    <3>5. Sum(T \ {k}) = f[c] + Sum(R)
      BY <2>1, <2>4, <2>6, <3>1
    <3>6. f[c] \in Nat /\ f[k] \in Nat
      BY <2>1
    <3> HIDE DEF R
    <3> QED BY <2>2, <3>3, <3>4, <3>5, <3>6
  <2> QED BY <2>2, <2>5, <2>6
<1>5. Cardinality(S) \in N
  <2> HIDE DEF N
  <2> QED BY <1>1, <1>3, <1>4, NatInd
<1>6. P(S)
  BY <1>5, <1>1
<1> QED BY <1>6 DEF Sum

\* The sum depends only on the values of f on the set.
LEMMA SumCongruent ==
  ASSUME NEW S, IsFiniteSet(S), NEW f, NEW g, \A x \in S : f[x] = g[x]
  PROVE  SumFunctionOnSet(f, S) = SumFunctionOnSet(g, S)
<1> DEFINE F(T) == SumFunctionOnSet(f, T)
           G(T) == SumFunctionOnSet(g, T)
           N == {n \in Nat : \A T \in SUBSET S : Cardinality(T) = n => F(T) = G(T)}
<1>1. \A T \in SUBSET S : /\ IsFiniteSet(T) /\ Cardinality(T) \in Nat
                          /\ Cardinality(T) = 0 <=> T = {}
                          /\ \A k \in T : Cardinality(T \ {k}) = Cardinality(T) - 1
  BY SubsetSizes
<1>2. \A T \in SUBSET S :
        /\ F(T) = IF T = {} THEN 0 ELSE f[Pick(T)] + F(T \ {Pick(T)})
        /\ G(T) = IF T = {} THEN 0 ELSE g[Pick(T)] + G(T \ {Pick(T)})
  BY <1>1, SumPick
<1> HIDE DEF F, G
<1>3. 0 \in N
  BY <1>1, <1>2
<1>4. ASSUME NEW n \in Nat, n \in N PROVE n + 1 \in N
  <2> SUFFICES ASSUME NEW T \in SUBSET S, Cardinality(T) = n + 1 PROVE F(T) = G(T)
    OBVIOUS
  <2>1. T # {} /\ Pick(T) \in T
    BY <1>1 DEF Pick
  <2>2. Cardinality(T \ {Pick(T)}) = n
    BY <2>1, <1>1
  <2>3. F(T \ {Pick(T)}) = G(T \ {Pick(T)}) /\ f[Pick(T)] = g[Pick(T)]
    BY <2>1, <2>2, <1>4
  <2> QED BY <2>1, <2>3, <1>2
<1>5. Cardinality(S) \in N
  <2> HIDE DEF N
  <2> QED BY <1>1, <1>3, <1>4, NatInd
<1> QED BY <1>5, <1>1 DEF F, G

(***************************************************************************)
(* Numbers and sequences.                                                  *)
(***************************************************************************)

\* The least and the greatest element of a set of numbers.
LEMMA MinProperties ==
  ASSUME NEW S \in SUBSET Nat, S # {}
  PROVE  Min(S) \in S /\ \A y \in S : Min(S) <= y
<1>1. \E x \in S : \A y \in S : x <= y
  <2> SUFFICES ASSUME \A x \in S : \E y \in S : y < x PROVE FALSE
    OBVIOUS
  <2> DEFINE T == {n \in Nat : n \notin S}
  <2>1. ASSUME NEW n \in Nat, \A m \in Nat : m < n => m \in T PROVE n \in T
    BY <2>1
  <2> HIDE DEF T
  <2>2. \A n \in Nat : n \in T
    BY <2>1, StrongInd
  <2> QED BY <2>2 DEF T
<1> QED BY <1>1 DEF Min

\* The same for the greatest, in a set that has a bound.
LEMMA MaxProperties ==
  ASSUME NEW n \in Nat, NEW S \in SUBSET (0 .. n), S # {}
  PROVE  Max(S) \in S /\ \A y \in S : y <= Max(S)
<1>1. \E x \in S : \A y \in S : x >= y
  <2> DEFINE T == {m \in Nat : n - m \in S}
  <2>1. \A x \in S : n - x \in T
    <3>1. \A x \in S : n - x \in Nat /\ n - (n - x) = x
      OBVIOUS
    <3> QED BY <3>1
  <2>2. T \in SUBSET Nat /\ T # {}
    BY <2>1
  <2>3. \E m \in T : \A t \in T : m <= t
    <3> HIDE DEF T
    <3> QED BY <2>2, MinProperties
  <2>4. PICK m \in T : \A t \in T : m <= t
    BY <2>3
  <2>5. \A y \in S : m <= n - y
    BY <2>1, <2>4
  <2> QED BY <2>5
<1> QED BY <1>1 DEF Max

\* Appending to the second of two sequences appends to both.
LEMMA ConcatAppend ==
  ASSUME NEW S, NEW s \in Seq(S), NEW t \in Seq(S), NEW e \in S
  PROVE  s \o Append(t, e) = Append(s \o t, e)
<1>1. <<e>> \in Seq(S) /\ s \o t \in Seq(S)
  BY ConcatProperties
<1>2. Append(t, e) = t \o <<e>> /\ Append(s \o t, e) = (s \o t) \o <<e>>
  BY <1>1, AppendIsConcat
<1> QED BY <1>1, <1>2, ConcatAssociative

\* To show something for all sequences, append a character.
LEMMA SeqInd ==
  ASSUME NEW Ch, NEW S, <<>> \in S,
         \A s \in Seq(Ch), c \in Ch : s \in S => Append(s, c) \in S
  PROVE  \A s \in Seq(Ch) : s \in S
<1> DEFINE N == {n \in Nat : \A s \in Seq(Ch) : Len(s) = n => s \in S}
<1>1. 0 \in N
  <2>1. \A s \in Seq(Ch) : Len(s) = 0 => s = <<>>
    BY EmptySeq
  <2> QED BY <2>1
<1>2. ASSUME NEW n \in Nat, n \in N PROVE n + 1 \in N
  <2> SUFFICES ASSUME NEW s \in Seq(Ch), Len(s) = n + 1 PROVE s \in S
    OBVIOUS
  <2>1. s # <<>>
    BY EmptySeq
  <2>2. PICK t \in Seq(Ch), c \in Ch : s = Append(t, c)
    BY <2>1, SequenceEmptyOrAppend
  <2>3. Len(t) = n
    BY <2>2, AppendProperties, LenProperties
  <2> QED BY <2>2, <2>3, <1>2
<1> HIDE DEF N
<1>3. \A n \in Nat : n \in N
  BY <1>1, <1>2, NatInd
<1> QED BY <1>3, LenProperties DEF N

\* The beginnings of a sequence and of a concatenation.
LEMMA Beginning ==
  ASSUME NEW S, NEW s \in Seq(S), NEW i \in 0 .. Len(s)
  PROVE  SubSeq(s, 1, i) \in Seq(S) /\ Len(SubSeq(s, 1, i)) = i
<1>1. \A j \in 1 .. i : s[j] \in S
  BY ElementOfSeq
<1> QED BY <1>1, SubSeqProperties, LenProperties

\* A beginning of a concatenation is one of the first sequence, or all of it and one
\* of the second.
LEMMA Cut ==
  ASSUME NEW S, NEW s \in Seq(S), NEW t \in Seq(S)
  PROVE  /\ \A i \in 0 .. Len(s) : SubSeq(s \o t, 1, i) = SubSeq(s, 1, i)
         /\ \A i \in 0 .. Len(t) : SubSeq(s \o t, 1, Len(s) + i) = s \o SubSeq(t, 1, i)
<1> DEFINE w == s \o t
<1>1. /\ w \in Seq(S) /\ Len(w) = Len(s) + Len(t) /\ Len(s) \in Nat /\ Len(t) \in Nat
      /\ \A i \in 1 .. Len(s) : w[i] = s[i]
      /\ \A i \in 1 .. Len(t) : w[Len(s) + i] = t[i]
  BY ConcatProperties, LenProperties
<1> HIDE DEF w
<1>2. ASSUME NEW i \in 0 .. Len(s) PROVE SubSeq(w, 1, i) = SubSeq(s, 1, i)
  <2>1. i \in 0 .. Len(w)
    BY <1>1
  <2>2. /\ SubSeq(w, 1, i) \in Seq(S) /\ Len(SubSeq(w, 1, i)) = i
        /\ SubSeq(s, 1, i) \in Seq(S) /\ Len(SubSeq(s, 1, i)) = i
    BY <1>1, <2>1, Beginning
  <2>3. \A j \in 1 .. i : SubSeq(w, 1, i)[j] = SubSeq(s, 1, i)[j]
    BY <1>1, <2>2
  <2> QED BY <2>2, <2>3, SeqEqual
<1>3. ASSUME NEW i \in 0 .. Len(t) PROVE SubSeq(w, 1, Len(s) + i) = s \o SubSeq(t, 1, i)
  <2> DEFINE m == Len(s) + i
             u == SubSeq(t, 1, i)
  <2>1. m \in 0 .. Len(w)
    BY <1>1
  <2>2. SubSeq(w, 1, m) \in Seq(S) /\ Len(SubSeq(w, 1, m)) = m
    <3> HIDE DEF m
    <3> QED BY <1>1, <2>1, Beginning
  <2>3. u \in Seq(S) /\ Len(u) = i /\ \A j \in 1 .. i : u[j] = t[j]
    BY <1>1, Beginning
  <2> HIDE DEF u
  <2>4. /\ s \o u \in Seq(S) /\ Len(s \o u) = m
        /\ \A j \in 1 .. m : (s \o u)[j] = IF j <= Len(s) THEN s[j] ELSE u[j - Len(s)]
    BY <2>3, ConcatProperties
  <2>5. ASSUME NEW j \in 1 .. m PROVE SubSeq(w, 1, m)[j] = (s \o u)[j]
    <3>1. SubSeq(w, 1, m)[j] = w[j]
      BY <1>1, <2>1
    <3>2. CASE j <= Len(s)
      BY <3>1, <3>2, <2>4, <1>1
    <3>3. CASE j > Len(s)
      <4>1. j - Len(s) \in 1 .. i /\ j - Len(s) \in 1 .. Len(t) /\ j = Len(s) + (j - Len(s))
        BY <3>3, <1>1
      <4>2. w[j] = t[j - Len(s)] /\ u[j - Len(s)] = t[j - Len(s)]
        BY <4>1, <1>1, <2>3
      <4>3. (s \o u)[j] = u[j - Len(s)]
        BY <3>3, <2>4, <1>1
      <4> QED BY <3>1, <4>2, <4>3
    <3>4. j <= Len(s) \/ j > Len(s)
      BY <1>1
    <3> QED BY <3>2, <3>3, <3>4
  <2> HIDE DEF m
  <2>6. SubSeq(w, 1, m) = s \o u
    BY <2>2, <2>4, <2>5, SeqEqual
  <2> QED BY <2>6 DEF m, u
<1> QED BY <1>2, <1>3 DEF w

\* A sequence is its first n elements and the others.
LEMMA Halves ==
  ASSUME NEW S, NEW s \in Seq(S), NEW n \in 0 .. Len(s)
  PROVE  /\ SubSeq(s, 1, n) \in Seq(S) /\ SubSeq(s, n + 1, Len(s)) \in Seq(S)
         /\ SubSeq(s, 1, n) \o SubSeq(s, n + 1, Len(s)) = s
<1>1. Len(s) \in Nat
  BY LenProperties
<1>2. 1 \in 1 .. Len(s) + 1 /\ n \in 1 - 1 .. Len(s) /\ Len(s) \in n .. Len(s)
  BY <1>1
<1>3. SubSeq(s, 1, n) \in Seq(S)
  BY Beginning
<1>4. \A i \in n + 1 .. Len(s) : s[i] \in S
  BY <1>1, ElementOfSeq
<1>5. SubSeq(s, n + 1, Len(s)) \in Seq(S)
  BY <1>1, <1>4, SubSeqProperties
<1>6. SubSeq(s, 1, n) \o SubSeq(s, n + 1, Len(s)) = SubSeq(s, 1, Len(s))
  BY <1>1, <1>2, ConcatAdjacentSubSeq
<1> QED BY <1>3, <1>5, <1>6, SubSeqFull
=============================================================================
