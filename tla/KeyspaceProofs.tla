--------------------------- MODULE KeyspaceProofs ---------------------------
(***************************************************************************)
(* Proofs about the stores and the commands of modules Keyspace and        *)
(* Queries, for all sets of keys and values and every memory limit.        *)
(***************************************************************************)
EXTENDS Queries, Induction

(***************************************************************************)
(* Nodes and stores.                                                       *)
(***************************************************************************)

Finite == {S \in SUBSET Values : IsFiniteSet(S)}
Hashes == UNION {[S -> Values] : S \in Finite}

\* What the type of a node says of its fields.
LEMMA NodeFields ==
  ASSUME NEW n \in Nodes
  PROVE  /\ n = Node(n.key, n.type, n.data, n.expiry)
         /\ n.key \in Keys /\ n.expiry \in Int
         /\ n.type \in {"STRING", "LIST", "HASH", "SET"}
         /\ n.type = "STRING" => n.data \in Values
         /\ n.type = "LIST" => n.data \in Seq(Values)
         /\ n.type = "HASH" => n.data \in Hashes
         /\ n.type = "SET" => n.data \in Finite
         /\ n.type # "STRING" => n.expiry = 0
BY DEF Nodes, Node, Hashes, Finite

\* What makes a node.
LEMMA MakesNode ==
  ASSUME NEW k \in Keys
  PROVE  /\ \A v \in Values, e \in Int : Node(k, "STRING", v, e) \in Nodes
         /\ \A s \in Seq(Values) : Node(k, "LIST", s, 0) \in Nodes
         /\ \A h \in Hashes : Node(k, "HASH", h, 0) \in Nodes
         /\ \A S \in Finite : Node(k, "SET", S, 0) \in Nodes
BY DEF Nodes, Node, Hashes, Finite

\* A hash is a function on a finite set.
LEMMA HashFields ==
  ASSUME NEW h \in Hashes
  PROVE  DOMAIN h \in Finite /\ h \in [DOMAIN h -> Values] /\ IsFiniteSet(DOMAIN h)
BY DEF Hashes, Finite

\* A node has a number of elements, and weighs more than nothing.
LEMMA NodeWeighs ==
  ASSUME NEW n \in Nodes
  PROVE  /\ Elements(n) \in Nat /\ Weight(n) \in Nat /\ Weight(n) > 0
         /\ Weight(n) = NodeWeight + Elements(n)
<1>1. CASE n.type = "STRING"
  BY <1>1, WeightAssumption DEF Elements, Weight
<1>2. CASE n.type = "LIST"
  <2>1. Len(n.data) \in Nat
    BY <1>2, NodeFields, LenProperties
  <2> QED BY <1>2, <2>1, WeightAssumption DEF Elements, Weight
<1>3. CASE n.type = "HASH"
  <2>1. Cardinality(DOMAIN n.data) \in Nat
    BY <1>3, NodeFields, HashFields, FS_CardinalityType
  <2> QED BY <1>3, <2>1, WeightAssumption DEF Elements, Weight
<1>4. CASE n.type = "SET"
  <2>1. Cardinality(n.data) \in Nat
    BY <1>4, NodeFields, FS_CardinalityType DEF Finite
  <2> QED BY <1>4, <2>1, WeightAssumption DEF Elements, Weight
<1>5. n.type \in {"STRING", "LIST", "HASH", "SET"}
  BY NodeFields
<1> QED BY <1>1, <1>2, <1>3, <1>4, <1>5

\* A store is a sequence of nodes.
LEMMA StoreNodes ==
  ASSUME NEW db, IsStore(db)
  PROVE  /\ db \in Seq(Nodes) /\ Len(db) \in Nat /\ DOMAIN db = 1 .. Len(db)
         /\ \A i \in 1 .. Len(db) : db[i] \in Nodes /\ db[i] \in Range(db)
         /\ Range(db) \subseteq Nodes
         /\ \A m, n \in Range(db) : m.key = n.key => m = n
<1>1. db \in Seq(Nodes) /\ Len(db) \in Nat /\ DOMAIN db = 1 .. Len(db)
  BY LenProperties DEF IsStore
<1>2. \A i \in 1 .. Len(db) : db[i] \in Nodes
  BY <1>1, ElementOfSeq
<1> QED BY <1>1, <1>2 DEF IsStore, Range

\* A sequence of nodes with different keys is a store.
LEMMA IsStoreIntro ==
  ASSUME NEW db \in Seq(Nodes),
         \A i, j \in 1 .. Len(db) : db[i].key = db[j].key => i = j
  PROVE  IsStore(db)
<1>1. DOMAIN db = 1 .. Len(db)
  BY LenProperties
<1> QED BY <1>1 DEF IsStore

\* Find is the place of the only node of the key.
LEMMA FindNode ==
  ASSUME NEW db, IsStore(db), NEW k
  PROVE  /\ Find(db, k) \in 0 .. Len(db)
         /\ Find(db, k) > 0 => /\ Find(db, k) \in 1 .. Len(db)
                               /\ db[Find(db, k)].key = k
                               /\ db[Find(db, k)] \in Nodes
                               /\ db[Find(db, k)] \in Range(db)
                               /\ \A n \in Range(db) : n.key = k <=> n = db[Find(db, k)]
         /\ Find(db, k) = 0 => \A n \in Range(db) : n.key # k
<1> DEFINE I == {i \in 1 .. Len(db) : db[i].key = k}
<1>1. /\ Len(db) \in Nat /\ DOMAIN db = 1 .. Len(db)
      /\ \A i \in 1 .. Len(db) : db[i] \in Nodes /\ db[i] \in Range(db)
      /\ \A m, n \in Range(db) : m.key = n.key => m = n
  BY StoreNodes
<1>2. Find(db, k) = IF I # {} THEN Min(I) ELSE 0
  BY DEF Find, SelectInSeq
<1>3. CASE I # {}
  <2>1. Min(I) \in I
    BY <1>1, <1>3, MinProperties
  <2>2. Find(db, k) \in I
    BY <1>2, <1>3, <2>1
  <2>3. Find(db, k) \in 1 .. Len(db) /\ db[Find(db, k)].key = k /\ Find(db, k) # 0
    BY <2>2, <1>1
  <2>4. \A n \in Range(db) : n.key = k <=> n = db[Find(db, k)]
    BY <2>3, <1>1
  <2>5. Find(db, k) \in 0 .. Len(db)
    BY <2>3, <1>1
  <2> QED BY <2>3, <2>4, <2>5, <1>1
<1>4. CASE I = {}
  <2>1. Find(db, k) = 0
    BY <1>2, <1>4
  <2>2. \A n \in Range(db) : n.key # k
    BY <1>4, <1>1 DEF Range
  <2> QED BY <2>1, <2>2, <1>1
<1> QED BY <1>3, <1>4

(***************************************************************************)
(* The elements of a sequence that are in a set.                           *)
(***************************************************************************)

KeepTable(s, S, n, v) ==
  v = [i \in 0 .. n |-> IF i = 0 THEN <<>>
                        ELSE IF s[i] \in S THEN Append(v[i - 1], s[i]) ELSE v[i - 1]]

\* The recursion of Keep has a solution.
LEMMA KeepTableExists ==
  ASSUME NEW s, NEW S
  PROVE  \A n \in Nat : \E v : KeepTable(s, S, n, v)
<1> DEFINE N == {n \in Nat : \E v : KeepTable(s, S, n, v)}
<1>1. 0 \in N
  <2>1. KeepTable(s, S, 0, [i \in 0 .. 0 |-> <<>>])
    BY DEF KeepTable
  <2> QED BY <2>1
<1>2. ASSUME NEW n \in Nat, n \in N PROVE n + 1 \in N
  <2>1. PICK v : KeepTable(s, S, n, v)
    BY <1>2
  <2> DEFINE w == [i \in 0 .. n + 1 |->
                     IF i = n + 1 THEN IF s[i] \in S THEN Append(v[n], s[i]) ELSE v[n] ELSE v[i]]
  <2>2. \A i \in 0 .. n : v[i] = IF i = 0 THEN <<>>
                                 ELSE IF s[i] \in S THEN Append(v[i - 1], s[i]) ELSE v[i - 1]
    BY <2>1 DEF KeepTable
  <2>3. ASSUME NEW i \in 0 .. n + 1
        PROVE  w[i] = IF i = 0 THEN <<>>
                      ELSE IF s[i] \in S THEN Append(w[i - 1], s[i]) ELSE w[i - 1]
    <3>1. CASE i = n + 1
      <4>1. w[i - 1] = v[n] /\ i # 0
        BY <3>1
      <4> QED BY <3>1, <4>1
    <3>2. CASE i # n + 1
      <4>1. i \in 0 .. n /\ w[i] = v[i]
        BY <3>2
      <4>2. CASE i = 0
        BY <4>1, <4>2, <2>2
      <4>3. CASE i # 0
        <5>1. w[i - 1] = v[i - 1]
          BY <4>1, <4>3
        <5> QED BY <4>1, <5>1, <2>2
      <4> QED BY <4>2, <4>3
    <3> QED BY <3>1, <3>2
  <2>4. KeepTable(s, S, n + 1, w)
    BY <2>3 DEF KeepTable
  <2> QED BY <2>4
<1>3. \A n \in Nat : n \in N
  BY <1>1, <1>2, NatInd
<1> QED BY <1>3

\* Keep of a sequence that is one element longer.
LEMMA KeepAppend ==
  ASSUME NEW T, NEW s \in Seq(T), NEW e \in T, NEW S
  PROVE  /\ Keep(<<>>, S) = <<>>
         /\ Keep(Append(s, e), S) = IF e \in S THEN Append(Keep(s, S), e) ELSE Keep(s, S)
<1> DEFINE n == Len(s)
           t == Append(s, e)
           z == <<>>
           g == CHOOSE v : KeepTable(s, S, n, v)
           h == CHOOSE v : KeepTable(t, S, n + 1, v)
           o == CHOOSE v : KeepTable(z, S, 0, v)
<1>1. /\ n \in Nat /\ n + 1 \in Nat /\ Len(t) = n + 1
      /\ \A i \in 1 .. n : t[i] = s[i]
      /\ t[n + 1] = e
  BY LenProperties, AppendProperties
<1>0. Len(z) = 0
  BY EmptySeq
<1> HIDE DEF t, z
<1>2. Keep(s, S) = g[n]
  BY DEF Keep, KeepTable
<1>3. Keep(t, S) = h[n + 1]
  BY <1>1 DEF Keep, KeepTable
<1>4. Keep(z, S) = o[0]
  BY <1>0 DEF Keep, KeepTable
<1> HIDE DEF n
<1>5. KeepTable(s, S, n, g)
  BY <1>1, KeepTableExists, Zenon
<1>6. KeepTable(t, S, n + 1, h)
  BY <1>1, KeepTableExists, Zenon
<1>7. KeepTable(z, S, 0, o)
  <2>1. 0 \in Nat
    OBVIOUS
  <2> QED BY <2>1, KeepTableExists, Zenon
<1> HIDE DEF g, h, o
<1>8. o[0] = <<>>
  BY <1>7 DEF KeepTable
<1>9. /\ \A i \in 0 .. n : g[i] = IF i = 0 THEN <<>>
                                  ELSE IF s[i] \in S THEN Append(g[i - 1], s[i]) ELSE g[i - 1]
      /\ \A i \in 0 .. n + 1 : h[i] = IF i = 0 THEN <<>>
                                      ELSE IF t[i] \in S THEN Append(h[i - 1], t[i]) ELSE h[i - 1]
  BY <1>5, <1>6 DEF KeepTable
<1> DEFINE N == {i \in Nat : i <= n => g[i] = h[i]}
<1>10. 0 \in N
  BY <1>9, <1>1
<1>11. ASSUME NEW i \in Nat, i \in N PROVE i + 1 \in N
  <2> SUFFICES ASSUME i + 1 <= n PROVE g[i + 1] = h[i + 1]
    OBVIOUS
  <2>1. /\ i + 1 \in 0 .. n /\ i + 1 \in 0 .. n + 1 /\ i + 1 # 0 /\ (i + 1) - 1 = i
        /\ t[i + 1] = s[i + 1] /\ g[i] = h[i]
    BY <1>1, <1>11
  <2> QED BY <2>1, <1>9
<1>12. n \in N
  BY <1>1, <1>10, <1>11, NatInd
<1>13. h[n + 1] = IF e \in S THEN Append(g[n], e) ELSE g[n]
  <2>1. n + 1 \in 0 .. n + 1 /\ n + 1 # 0 /\ (n + 1) - 1 = n /\ g[n] = h[n]
    BY <1>1, <1>12
  <2> QED BY <2>1, <1>9, <1>1
<1> QED BY <1>2, <1>3, <1>4, <1>8, <1>13 DEF t, z

\* The elements of a sequence that is one element longer.
LEMMA RangeAppend ==
  ASSUME NEW T, NEW s \in Seq(T), NEW e \in T
  PROVE  Range(Append(s, e)) = Range(s) \cup {e} /\ Range(<<>>) = {} /\ Range(s) \subseteq T
<1> DEFINE t == Append(s, e)
<1>1. /\ Len(s) \in Nat /\ Len(t) = Len(s) + 1
      /\ DOMAIN s = 1 .. Len(s) /\ DOMAIN t = 1 .. Len(s) + 1
      /\ \A i \in 1 .. Len(s) : t[i] = s[i]
      /\ t[Len(s) + 1] = e
  BY LenProperties, AppendProperties
<1> HIDE DEF t
<1>2. Range(t) \subseteq Range(s) \cup {e}
  <2> SUFFICES ASSUME NEW i \in 1 .. Len(s) + 1 PROVE t[i] \in Range(s) \cup {e}
    BY <1>1 DEF Range
  <2>1. CASE i = Len(s) + 1
    BY <2>1, <1>1
  <2>2. CASE i # Len(s) + 1
    <3>1. i \in 1 .. Len(s)
      BY <2>2, <1>1
    <3> QED BY <3>1, <1>1 DEF Range
  <2> QED BY <2>1, <2>2
<1>3. Range(s) \cup {e} \subseteq Range(t)
  <2>1. \A i \in 1 .. Len(s) : i \in 1 .. Len(s) + 1
    BY <1>1
  <2>2. Len(s) + 1 \in 1 .. Len(s) + 1
    BY <1>1
  <2> QED BY <2>1, <2>2, <1>1 DEF Range
<1>4. Range(<<>>) = {}
  BY DEF Range
<1>5. Range(s) \subseteq T
  BY <1>1, ElementOfSeq DEF Range
<1> QED BY <1>2, <1>3, <1>4, <1>5 DEF t

\* A sequence has finitely many elements.
LEMMA RangeFinite == ASSUME NEW T PROVE \A s \in Seq(T) : IsFiniteSet(Range(s))
<1> DEFINE S == {s \in Seq(T) : IsFiniteSet(Range(s))}
<1>1. <<>> \in S
  <2>1. Range(<<>>) = {} /\ <<>> \in Seq(T)
    BY EmptySeq DEF Range
  <2> QED BY <2>1, FS_EmptySet
<1>2. ASSUME NEW s \in Seq(T), NEW e \in T, s \in S PROVE Append(s, e) \in S
  <2>1. Append(s, e) \in Seq(T) /\ Range(Append(s, e)) = Range(s) \cup {e}
    BY AppendProperties, RangeAppend
  <2> QED BY <1>2, <2>1, FS_AddElement
<1>3. \A s \in Seq(T) : s \in S
  BY <1>1, <1>2, SeqInd
<1> QED BY <1>3

\* A node can be added to a store that does not have its key, and only then.
LEMMA StoreAppend ==
  ASSUME NEW s \in Seq(Nodes), NEW e \in Nodes
  PROVE  IsStore(Append(s, e)) <=> IsStore(s) /\ \A n \in Range(s) : n.key # e.key
<1> DEFINE t == Append(s, e)
<1>1. /\ Len(s) \in Nat /\ Len(t) = Len(s) + 1 /\ t \in Seq(Nodes)
      /\ DOMAIN s = 1 .. Len(s) /\ DOMAIN t = 1 .. Len(s) + 1
      /\ \A i \in 1 .. Len(s) : t[i] = s[i]
      /\ t[Len(s) + 1] = e
  BY LenProperties, AppendProperties
<1> HIDE DEF t
<1>0. /\ \A i \in 1 .. Len(s) : i \in 1 .. Len(s) + 1 /\ i # Len(s) + 1
      /\ Len(s) + 1 \in 1 .. Len(s) + 1
  BY <1>1
<1>2. ASSUME IsStore(t) PROVE IsStore(s) /\ \A n \in Range(s) : n.key # e.key
  <2>1. \A i, j \in 1 .. Len(s) + 1 : t[i].key = t[j].key => i = j
    BY <1>2, <1>1 DEF IsStore
  <2>2. \A i, j \in 1 .. Len(s) : s[i].key = s[j].key => i = j
    BY <2>1, <1>0, <1>1
  <2>3. \A i \in 1 .. Len(s) : s[i].key # e.key
    BY <2>1, <1>0, <1>1
  <2> QED BY <2>2, <2>3, <1>1 DEF IsStore, Range
<1>3. ASSUME IsStore(s), \A n \in Range(s) : n.key # e.key PROVE IsStore(t)
  <2>1. \A i, j \in 1 .. Len(s) : s[i].key = s[j].key => i = j
    BY <1>3, <1>1 DEF IsStore
  <2>2. \A i \in 1 .. Len(s) : s[i].key # e.key
    BY <1>3, <1>1 DEF Range
  <2>3. ASSUME NEW i \in 1 .. Len(s) + 1, NEW j \in 1 .. Len(s) + 1, t[i].key = t[j].key
        PROVE  i = j
    <3>1. i \in 1 .. Len(s) \/ i = Len(s) + 1
      BY <1>1
    <3>2. j \in 1 .. Len(s) \/ j = Len(s) + 1
      BY <1>1
    <3> QED BY <3>1, <3>2, <2>1, <2>2, <2>3, <1>1
  <2> QED BY <2>3, <1>1 DEF IsStore
<1> QED BY <1>2, <1>3 DEF t

\* The empty store.
LEMMA EmptyStore == IsStore(<<>>)
<1>1. <<>> \in Seq(Nodes) /\ DOMAIN <<>> = {}
  BY EmptySeq
<1> QED BY <1>1 DEF IsStore

\* A store has as many nodes as its range.
LEMMA StoreSize ==
  \A db \in Seq(Nodes) : IsFiniteSet(Range(db)) /\ (IsStore(db) => Cardinality(Range(db)) = Len(db))
<1> DEFINE P(s) == IsFiniteSet(Range(s)) /\ (IsStore(s) => Cardinality(Range(s)) = Len(s))
           S == {s \in Seq(Nodes) : P(s)}
<1>1. <<>> \in S
  <2>1. Range(<<>>) = {}
    BY DEF Range
  <2> QED BY <2>1, FS_EmptySet, EmptySeq
<1>2. ASSUME NEW s \in Seq(Nodes), NEW e \in Nodes, s \in S PROVE Append(s, e) \in S
  <2>1. /\ Append(s, e) \in Seq(Nodes) /\ Len(Append(s, e)) = Len(s) + 1
        /\ Range(Append(s, e)) = Range(s) \cup {e}
    BY AppendProperties, RangeAppend
  <2>2. IsFiniteSet(Range(s) \cup {e}) /\
        Cardinality(Range(s) \cup {e}) = IF e \in Range(s) THEN Cardinality(Range(s)) ELSE Cardinality(Range(s)) + 1
    BY <1>2, FS_AddElement
  <2>3. ASSUME IsStore(Append(s, e)) PROVE IsStore(s) /\ e \notin Range(s)
    BY <2>3, StoreAppend
  <2> QED BY <1>2, <2>1, <2>2, <2>3
<1>3. \A s \in Seq(Nodes) : s \in S
  BY <1>1, <1>2, SeqInd
<1> QED BY <1>3

\* What Keep keeps.
LEMMA KeepRange ==
  ASSUME NEW S
  PROVE  \A s \in Seq(Nodes) :
           /\ Keep(s, S) \in Seq(Nodes)
           /\ Range(Keep(s, S)) = Range(s) \cap S
           /\ IsStore(s) => IsStore(Keep(s, S))
           /\ Range(s) \subseteq S => Keep(s, S) = s
<1> DEFINE P(s) == /\ Keep(s, S) \in Seq(Nodes)
                   /\ Range(Keep(s, S)) = Range(s) \cap S
                   /\ IsStore(s) => IsStore(Keep(s, S))
                   /\ Range(s) \subseteq S => Keep(s, S) = s
           G == {s \in Seq(Nodes) : P(s)}
<1>1. <<>> \in G
  <2>1. <<>> \in Seq(Nodes) /\ Range(<<>>) = {}
    BY EmptySeq DEF Range
  <2>2. Keep(<<>>, S) = <<>>
    <3>1. <<>> \in Seq({0}) /\ 0 \in {0}
      BY EmptySeq
    <3> QED BY <3>1, KeepAppend
  <2> QED BY <2>1, <2>2
<1>2. ASSUME NEW s \in Seq(Nodes), NEW e \in Nodes, s \in G PROVE Append(s, e) \in G
  <2>1. /\ Append(s, e) \in Seq(Nodes) /\ Range(Append(s, e)) = Range(s) \cup {e}
        /\ Keep(Append(s, e), S) = IF e \in S THEN Append(Keep(s, S), e) ELSE Keep(s, S)
    BY AppendProperties, RangeAppend, KeepAppend
  <2>2. /\ Append(Keep(s, S), e) \in Seq(Nodes)
        /\ Range(Append(Keep(s, S), e)) = (Range(s) \cap S) \cup {e}
    BY <1>2, AppendProperties, RangeAppend
  <2>3. ASSUME IsStore(Append(s, e)) PROVE IsStore(Keep(Append(s, e), S))
    <3>1. IsStore(s) /\ \A n \in Range(s) : n.key # e.key
      BY <2>3, StoreAppend
    <3>2. IsStore(Append(Keep(s, S), e))
      BY <3>1, <1>2, StoreAppend
    <3> QED BY <3>1, <3>2, <1>2, <2>1
  <2>4. ASSUME Range(Append(s, e)) \subseteq S PROVE Keep(Append(s, e), S) = Append(s, e)
    BY <2>4, <2>1, <1>2
  <2>5. Keep(Append(s, e), S) \in Seq(Nodes) /\ Range(Keep(Append(s, e), S)) = Range(Append(s, e)) \cap S
    <3>1. CASE e \in S
      BY <3>1, <2>1, <2>2
    <3>2. CASE e \notin S
      BY <3>2, <2>1, <1>2
    <3> QED BY <3>1, <3>2
  <2> QED BY <2>1, <2>3, <2>4, <2>5
<1>3. \A s \in Seq(Nodes) : s \in G
  BY <1>1, <1>2, SeqInd
<1> QED BY <1>3

\* Keep looks only at the elements of the sequence, and keeping twice is keeping
\* what is in both sets.
LEMMA KeepCongruent ==
  ASSUME NEW S, NEW T, NEW U
  PROVE  \A s \in Seq(Nodes) :
           /\ (\A x \in Range(s) : x \in S <=> x \in T) => Keep(s, S) = Keep(s, T)
           /\ (\A x \in Range(s) : x \in U <=> x \in S /\ x \in T) => Keep(Keep(s, S), T) = Keep(s, U)
<1> DEFINE P(s) == /\ (\A x \in Range(s) : x \in S <=> x \in T) => Keep(s, S) = Keep(s, T)
                   /\ (\A x \in Range(s) : x \in U <=> x \in S /\ x \in T)
                        => Keep(Keep(s, S), T) = Keep(s, U)
           G == {s \in Seq(Nodes) : P(s)}
<1>1. <<>> \in G
  <2>1. <<>> \in Seq({0}) /\ 0 \in {0} /\ <<>> \in Seq(Nodes)
    BY EmptySeq
  <2>2. Keep(<<>>, S) = <<>> /\ Keep(<<>>, T) = <<>> /\ Keep(<<>>, U) = <<>>
    BY <2>1, KeepAppend
  <2> QED BY <2>1, <2>2
<1>2. ASSUME NEW s \in Seq(Nodes), NEW e \in Nodes, s \in G PROVE Append(s, e) \in G
  <2>1. /\ Append(s, e) \in Seq(Nodes) /\ Range(Append(s, e)) = Range(s) \cup {e}
        /\ Keep(Append(s, e), S) = IF e \in S THEN Append(Keep(s, S), e) ELSE Keep(s, S)
        /\ Keep(Append(s, e), T) = IF e \in T THEN Append(Keep(s, T), e) ELSE Keep(s, T)
        /\ Keep(Append(s, e), U) = IF e \in U THEN Append(Keep(s, U), e) ELSE Keep(s, U)
    BY AppendProperties, RangeAppend, KeepAppend
  <2>2. Keep(s, S) \in Seq(Nodes)
    BY KeepRange
  <2>3. Keep(Append(Keep(s, S), e), T)
          = IF e \in T THEN Append(Keep(Keep(s, S), T), e) ELSE Keep(Keep(s, S), T)
    BY <2>2, KeepAppend
  <2>4. ASSUME \A x \in Range(Append(s, e)) : x \in S <=> x \in T
        PROVE  Keep(Append(s, e), S) = Keep(Append(s, e), T)
    BY <2>4, <2>1, <1>2
  <2>5. ASSUME \A x \in Range(Append(s, e)) : x \in U <=> x \in S /\ x \in T
        PROVE  Keep(Keep(Append(s, e), S), T) = Keep(Append(s, e), U)
    <3>1. Keep(Keep(s, S), T) = Keep(s, U) /\ (e \in U <=> e \in S /\ e \in T)
      BY <2>5, <2>1, <1>2
    <3>2. CASE e \in S
      BY <3>1, <3>2, <2>1, <2>3
    <3>3. CASE e \notin S
      BY <3>1, <3>3, <2>1
    <3> QED BY <3>2, <3>3
  <2> QED BY <2>1, <2>4, <2>5
<1>3. \A s \in Seq(Nodes) : s \in G
  BY <1>1, <1>2, SeqInd
<1> QED BY <1>3

(***************************************************************************)
(* The memory of a set of nodes.                                           *)
(***************************************************************************)

Total(S) == SumFunction([n \in S |-> Weight(n)])

\* The memory of a set is that of one of its nodes and that of the rest.
LEMMA TotalRemove ==
  ASSUME NEW S \in SUBSET Nodes, IsFiniteSet(S)
  PROVE  /\ Total(S) \in Nat
         /\ \A n \in S : Total(S) = Weight(n) + Total(S \ {n}) /\ Total(S \ {n}) \in Nat
         /\ Total({}) = 0
<1> DEFINE w(T) == [n \in T |-> Weight(n)]
<1>1. \A T \in SUBSET Nodes : /\ DOMAIN w(T) = T /\ \A x \in T : w(T)[x] \in Nat /\ w(T)[x] = Weight(x)
                              /\ Total(T) = SumFunctionOnSet(w(T), T)
  BY NodeWeighs DEF Total, SumFunction
<1>2. \A T \in SUBSET S : IsFiniteSet(T) /\ T \in SUBSET Nodes
  BY FS_Subset
<1> HIDE DEF w
<1>3. ASSUME NEW T \in SUBSET S
      PROVE  /\ SumFunctionOnSet(w(T), T) \in Nat
             /\ \A k \in T : SumFunctionOnSet(w(T), T) = w(T)[k] + SumFunctionOnSet(w(T), T \ {k})
  <2>1. IsFiniteSet(T) /\ \A x \in T : w(T)[x] \in Nat
    BY <1>1, <1>2
  <2> QED BY <2>1, SumRemove
<1>4. ASSUME NEW n \in S PROVE SumFunctionOnSet(w(S), S \ {n}) = SumFunctionOnSet(w(S \ {n}), S \ {n})
  <2>1. S \ {n} \in SUBSET S /\ IsFiniteSet(S \ {n})
    BY <1>2
  <2>2. \A x \in S \ {n} : w(S)[x] = w(S \ {n})[x]
    BY <1>1, <1>2, <2>1
  <2> QED BY <2>1, <2>2, SumCongruent
<1>5. Total({}) = 0
  <2>1. IsFiniteSet({}) /\ {} \in SUBSET Nodes
    BY FS_EmptySet
  <2>2. SumFunctionOnSet(w({}), {}) = 0
    BY <2>1, SumPick
  <2> QED BY <2>1, <2>2, <1>1
<1>6. Total(S) = SumFunctionOnSet(w(S), S) /\ Total(S) \in Nat
  BY <1>1, <1>3
<1>7. ASSUME NEW n \in S PROVE Total(S) = Weight(n) + Total(S \ {n}) /\ Total(S \ {n}) \in Nat
  <2>1. S \ {n} \in SUBSET S /\ S \ {n} \in SUBSET Nodes
    OBVIOUS
  <2>2. Total(S \ {n}) = SumFunctionOnSet(w(S \ {n}), S \ {n}) /\ Total(S \ {n}) \in Nat
    BY <2>1, <1>1, <1>3
  <2>3. SumFunctionOnSet(w(S), S) = w(S)[n] + SumFunctionOnSet(w(S), S \ {n}) /\ w(S)[n] = Weight(n)
    BY <1>1, <1>3
  <2> QED BY <2>2, <2>3, <1>4, <1>6
<1> QED BY <1>5, <1>6, <1>7

\* A part weighs no more than the whole.
LEMMA TotalMonotone ==
  ASSUME NEW S \in SUBSET Nodes, IsFiniteSet(S), NEW T \in SUBSET S
  PROVE  Total(T) <= Total(S) /\ Total(T) \in Nat /\ Total(S) \in Nat
<1> DEFINE P(A) == \A B \in SUBSET A : Total(B) <= Total(A) /\ Total(B) \in Nat /\ Total(A) \in Nat
           N == {n \in Nat : \A A \in SUBSET Nodes : IsFiniteSet(A) /\ Cardinality(A) = n => P(A)}
<1>1. 0 \in N
  <2> SUFFICES ASSUME NEW A \in SUBSET Nodes, IsFiniteSet(A), Cardinality(A) = 0 PROVE P(A)
    OBVIOUS
  <2>1. A = {}
    BY FS_EmptySet
  <2>2. Total(A) \in Nat
    BY TotalRemove
  <2>3. \A B \in SUBSET A : B = A
    BY <2>1
  <2> QED BY <2>2, <2>3
<1>2. ASSUME NEW n \in Nat, n \in N PROVE n + 1 \in N
  <2> SUFFICES ASSUME NEW A \in SUBSET Nodes, IsFiniteSet(A), Cardinality(A) = n + 1,
                      NEW B \in SUBSET A
               PROVE  Total(B) <= Total(A) /\ Total(B) \in Nat /\ Total(A) \in Nat
    OBVIOUS
  <2>1. Total(A) \in Nat
    BY TotalRemove
  <2>2. CASE B = A
    BY <2>1, <2>2
  <2>3. CASE B # A
    <3>1. PICK x \in A : x \notin B
      BY <2>3
    <3>2. IsFiniteSet(A \ {x}) /\ Cardinality(A \ {x}) = n
      <4>1. IsFiniteSet(A \ {x}) /\ Cardinality(A \ {x}) = (n + 1) - 1
        BY FS_RemoveElement
      <4> QED BY <4>1
    <3>3. Total(B) <= Total(A \ {x}) /\ Total(B) \in Nat /\ Total(A \ {x}) \in Nat
      BY <3>1, <3>2, <1>2
    <3>4. Total(A) = Weight(x) + Total(A \ {x}) /\ Weight(x) \in Nat
      BY TotalRemove, NodeWeighs
    <3> QED BY <2>1, <3>3, <3>4
  <2> QED BY <2>2, <2>3
<1>3. \A n \in Nat : n \in N
  BY <1>1, <1>2, NatInd
<1>4. Cardinality(S) \in Nat
  BY FS_CardinalityType
<1> QED BY <1>3, <1>4

\* The memory of a set with one node more.
LEMMA TotalAdd ==
  ASSUME NEW S \in SUBSET Nodes, IsFiniteSet(S), NEW n \in Nodes, n \notin S
  PROVE  /\ Total(S \cup {n}) = Weight(n) + Total(S)
         /\ Total(S) \in Nat /\ Weight(n) \in Nat /\ IsFiniteSet(S \cup {n})
<1>1. IsFiniteSet(S \cup {n}) /\ S \cup {n} \in SUBSET Nodes /\ (S \cup {n}) \ {n} = S
  BY FS_AddElement
<1>2. Total(S \cup {n}) = Weight(n) + Total((S \cup {n}) \ {n})
  BY <1>1, TotalRemove
<1>3. Total(S) \in Nat /\ Weight(n) \in Nat
  BY TotalRemove, NodeWeighs
<1> QED BY <1>1, <1>2, <1>3

\* Usage is the memory of the nodes of the store.
LEMMA UsageTotal == ASSUME NEW db PROVE Usage(db) = Total(Range(db))
BY DEF Usage, Total

(***************************************************************************)
(* Moving the nodes of a store.                                            *)
(***************************************************************************)

\* Removing a node.
LEMMA RemoveStore ==
  ASSUME NEW db, IsStore(db), NEW i \in 1 .. Len(db)
  PROVE  /\ IsStore(RemoveAt(db, i))
         /\ Range(RemoveAt(db, i)) = Range(db) \ {db[i]}
<1> DEFINE a == SubSeq(db, 1, i - 1)
           b == SubSeq(db, i + 1, Len(db))
           r == RemoveAt(db, i)
<1>1. /\ db \in Seq(Nodes) /\ Len(db) \in Nat /\ DOMAIN db = 1 .. Len(db)
      /\ \A j \in 1 .. Len(db) : db[j] \in Nodes /\ db[j] \in Range(db)
      /\ \A j, l \in 1 .. Len(db) : db[j].key = db[l].key => j = l
  BY StoreNodes DEF IsStore
<1>2. /\ a \in Seq(Nodes) /\ Len(a) = i - 1 /\ \A j \in 1 .. i - 1 : a[j] = db[j]
  <2>1. \A j \in 1 .. i - 1 : db[j] \in Nodes
    BY <1>1
  <2>2. 1 \in 1 .. Len(db) + 1 /\ i - 1 \in 0 .. Len(db)
    BY <1>1
  <2> QED BY <1>1, <2>1, <2>2, SubSeqProperties
<1>3. /\ b \in Seq(Nodes) /\ Len(b) = Len(db) - i
      /\ \A j \in 1 .. Len(db) - i : b[j] = db[i + j]
  <2>1. \A j \in i + 1 .. Len(db) : db[j] \in Nodes
    BY <1>1
  <2>2. i + 1 \in Int /\ Len(db) \in Int
    BY <1>1
  <2>3. /\ b \in Seq(Nodes)
        /\ Len(b) = IF i + 1 <= Len(db) THEN Len(db) - (i + 1) + 1 ELSE 0
        /\ \A j \in 1 .. Len(db) - (i + 1) + 1 : b[j] = db[(i + 1) + j - 1]
    BY <2>1, <2>2, SubSeqProperties
  <2>4. Len(db) - (i + 1) + 1 = Len(db) - i /\ \A j \in Int : (i + 1) + j - 1 = i + j
    BY <1>1
  <2> HIDE DEF b
  <2>5. Len(b) = Len(db) - i
    <3>1. CASE i + 1 <= Len(db)
      BY <3>1, <2>3, <2>4
    <3>2. CASE ~(i + 1 <= Len(db))
      <4>0. Len(db) \in Int /\ i \in Int /\ i <= Len(db)
        BY <1>1
      <4>1. Len(db) - i = 0
        BY ONLY <3>2, <4>0
      <4> QED BY <3>2, <4>1, <2>3
    <3> QED BY <3>1, <3>2
  <2>6. ASSUME NEW j \in 1 .. Len(db) - i PROVE b[j] = db[i + j]
    <3>1. j \in 1 .. Len(db) - (i + 1) + 1 /\ j \in Int
      BY <2>4
    <3>2. b[j] = db[(i + 1) + j - 1]
      BY <3>1, <2>3
    <3> QED BY <3>1, <3>2, <2>4
  <2> QED BY <2>3, <2>5, <2>6
<1>4. r = a \o b
  BY DEF RemoveAt
<1> HIDE DEF a, b, r
<1>5. /\ r \in Seq(Nodes) /\ Len(r) = Len(db) - 1 /\ DOMAIN r = 1 .. Len(db) - 1
      /\ \A j \in 1 .. Len(a) : r[j] = a[j]
      /\ \A j \in 1 .. Len(b) : r[Len(a) + j] = b[j]
  <2>1. /\ a \o b \in Seq(Nodes) /\ Len(a \o b) = Len(a) + Len(b)
        /\ \A j \in 1 .. Len(a) + Len(b) : (a \o b)[j] = IF j <= Len(a) THEN a[j] ELSE b[j - Len(a)]
    BY <1>2, <1>3, ConcatProperties
  <2>2. Len(r) = Len(db) - 1 /\ Len(a) \in Nat /\ Len(b) \in Nat
    <3>1. Len(r) = (i - 1) + (Len(db) - i)
      BY <2>1, <1>2, <1>3, <1>4
    <3>2. i - 1 \in Nat /\ Len(db) - i \in Nat /\ (i - 1) + (Len(db) - i) = Len(db) - 1
      BY <1>1
    <3> QED BY <3>1, <3>2, <1>2, <1>3
  <2>3. \A j \in 1 .. Len(b) : Len(a) + j \in 1 .. Len(a) + Len(b) /\ ~(Len(a) + j <= Len(a)) /\ (Len(a) + j) - Len(a) = j
    BY <2>2
  <2>4. \A j \in 1 .. Len(a) : j \in 1 .. Len(a) + Len(b) /\ j <= Len(a)
    BY <2>2
  <2> QED BY <2>1, <2>2, <2>3, <2>4, <1>4, LenProperties
<1>6. ASSUME NEW j \in 1 .. Len(db) - 1 PROVE r[j] = db[IF j < i THEN j ELSE j + 1]
  <2>1. CASE j < i
    <3>1. j \in 1 .. i - 1
      BY <2>1, <1>1
    <3> QED BY <2>1, <3>1, <1>2, <1>5
  <2>2. CASE ~(j < i)
    <3>1. j - (i - 1) \in 1 .. Len(db) - i /\ (i - 1) + (j - (i - 1)) = j /\ i + (j - (i - 1)) = j + 1
      BY <2>2, <1>1
    <3> DEFINE l == j - (i - 1)
    <3>2. l \in 1 .. Len(b) /\ Len(a) + l = j
      BY <3>1, <1>2, <1>3
    <3>3. r[j] = b[l]
      BY <3>2, <1>5
    <3>4. b[l] = db[j + 1]
      BY <3>1, <1>3
    <3> QED BY <2>2, <3>3, <3>4
  <2> QED BY <2>1, <2>2
<1> DEFINE at(j) == IF j < i THEN j ELSE j + 1
<1>7. \A j \in 1 .. Len(db) - 1 : at(j) \in 1 .. Len(db) /\ at(j) # i
  BY <1>1
<1>8. \A j, l \in 1 .. Len(db) - 1 : at(j) = at(l) => j = l
  BY <1>1
<1>9. \A j \in 1 .. Len(db) : j # i => \E l \in 1 .. Len(db) - 1 : at(l) = j
  <2> SUFFICES ASSUME NEW j \in 1 .. Len(db), j # i PROVE \E l \in 1 .. Len(db) - 1 : at(l) = j
    OBVIOUS
  <2>1. CASE j < i
    <3>1. j \in 1 .. Len(db) - 1 /\ at(j) = j
      BY <2>1, <1>1
    <3> QED BY <3>1
  <2>2. CASE j > i
    <3>1. j - 1 \in 1 .. Len(db) - 1 /\ at(j - 1) = j
      BY <2>2, <1>1
    <3> QED BY <3>1
  <2> QED BY <2>1, <2>2, <1>1
<1>10. \A j \in 1 .. Len(db) - 1 : r[j] = db[at(j)]
  BY <1>6
<1> HIDE DEF at
<1>11. IsStore(r)
  <2>1. \A j, l \in 1 .. Len(r) : r[j].key = r[l].key => j = l
    BY <1>1, <1>5, <1>7, <1>8, <1>10
  <2> QED BY <2>1, <1>5, IsStoreIntro
<1>12. Range(r) \subseteq Range(db) \ {db[i]}
  <2> SUFFICES ASSUME NEW j \in 1 .. Len(db) - 1 PROVE r[j] \in Range(db) /\ r[j] # db[i]
    BY <1>5 DEF Range
  <2>1. r[j] = db[at(j)] /\ at(j) \in 1 .. Len(db) /\ at(j) # i
    BY <1>7, <1>10
  <2> QED BY <2>1, <1>1
<1>13. Range(db) \ {db[i]} \subseteq Range(r)
  <2> SUFFICES ASSUME NEW j \in 1 .. Len(db), db[j] # db[i] PROVE db[j] \in Range(r)
    BY <1>1 DEF Range
  <2>1. PICK l \in 1 .. Len(db) - 1 : at(l) = j
    BY <1>9
  <2>2. r[l] = db[j]
    BY <2>1, <1>10
  <2> QED BY <2>2, <1>5 DEF Range
<1> QED BY <1>11, <1>12, <1>13 DEF r

\* Moving a node to HEAD changes the order only (lru.cpp:57).
LEMMA TouchStore ==
  ASSUME NEW db, IsStore(db), NEW i \in 1 .. Len(db)
  PROVE  IsStore(touch_lru(db, i)) /\ Range(touch_lru(db, i)) = Range(db)
<1> DEFINE r == RemoveAt(db, i)
<1>1. IsStore(r) /\ Range(r) = Range(db) \ {db[i]}
  BY RemoveStore
<1>2. /\ db[i] \in Nodes /\ db[i] \in Range(db)
      /\ \A m, n \in Range(db) : m.key = n.key => m = n
  BY StoreNodes
<1>3. r \in Seq(Nodes)
  BY <1>1 DEF IsStore
<1> HIDE DEF r
<1>4. \A n \in Range(r) : n.key # db[i].key
  BY <1>1, <1>2
<1>5. IsStore(Append(r, db[i])) /\ Range(Append(r, db[i])) = Range(r) \cup {db[i]}
  BY <1>1, <1>2, <1>3, <1>4, StoreAppend, RangeAppend
<1>6. Range(r) \cup {db[i]} = Range(db)
  BY <1>1, <1>2
<1> QED BY <1>5, <1>6 DEF touch_lru, r

\* The nodes of a store that have another key.
Others(S, k) == {n \in S : n.key # k}

\* Replacing the node of a key.
LEMMA ReplaceStore ==
  ASSUME NEW db, IsStore(db), NEW i \in 1 .. Len(db), NEW n \in Nodes, n.key = db[i].key
  PROVE  /\ IsStore([db EXCEPT ![i] = n])
         /\ Range([db EXCEPT ![i] = n]) = Others(Range(db), n.key) \cup {n}
         /\ Len([db EXCEPT ![i] = n]) = Len(db)
<1> DEFINE r == [db EXCEPT ![i] = n]
<1>1. /\ db \in Seq(Nodes) /\ Len(db) \in Nat /\ DOMAIN db = 1 .. Len(db)
      /\ \A j \in 1 .. Len(db) : db[j] \in Nodes /\ db[j] \in Range(db)
      /\ \A j, l \in 1 .. Len(db) : db[j].key = db[l].key => j = l
  BY StoreNodes DEF IsStore
<1>2. r \in Seq(Nodes) /\ Len(r) = Len(db) /\ \A j \in 1 .. Len(db) : r[j] = IF j = i THEN n ELSE db[j]
  BY <1>1, ExceptSeq
<1> HIDE DEF r
<1>3. DOMAIN r = 1 .. Len(db)
  BY <1>2, LenProperties
<1>4. \A j \in 1 .. Len(db) : r[j].key = db[j].key
  BY <1>2
<1>5. IsStore(r)
  BY <1>1, <1>2, <1>3, <1>4 DEF IsStore
<1>6. Range(r) \subseteq Others(Range(db), n.key) \cup {n}
  <2> SUFFICES ASSUME NEW j \in 1 .. Len(db) PROVE r[j] \in Others(Range(db), n.key) \cup {n}
    BY <1>3 DEF Range
  <2>1. CASE j = i
    BY <2>1, <1>2
  <2>2. CASE j # i
    BY <2>2, <1>1, <1>2 DEF Others
  <2> QED BY <2>1, <2>2
<1>7. Others(Range(db), n.key) \cup {n} \subseteq Range(r)
  <2>1. n \in Range(r)
    BY <1>2, <1>3 DEF Range
  <2>2. ASSUME NEW j \in 1 .. Len(db), db[j].key # n.key PROVE db[j] \in Range(r)
    <3>1. r[j] = db[j]
      BY <2>2, <1>2
    <3> QED BY <3>1, <1>3 DEF Range
  <2> QED BY <2>1, <2>2, <1>1 DEF Others, Range
<1> QED BY <1>2, <1>5, <1>6, <1>7 DEF r

\* What eviction leaves: the nodes from some place on.
LEMMA SuffixStore ==
  ASSUME NEW db, IsStore(db), NEW i \in 1 .. Len(db) + 1
  PROVE  /\ IsStore(SubSeq(db, i, Len(db)))
         /\ Range(SubSeq(db, i, Len(db))) \subseteq Range(db)
         /\ Len(SubSeq(db, i, Len(db))) = Len(db) - i + 1
         /\ i = 1 => SubSeq(db, i, Len(db)) = db
<1> DEFINE r == SubSeq(db, i, Len(db))
<1>1. /\ db \in Seq(Nodes) /\ Len(db) \in Nat /\ DOMAIN db = 1 .. Len(db)
      /\ \A j \in 1 .. Len(db) : db[j] \in Nodes /\ db[j] \in Range(db)
      /\ \A j, l \in 1 .. Len(db) : db[j].key = db[l].key => j = l
  BY StoreNodes DEF IsStore
<1>2. /\ r \in Seq(Nodes)
      /\ Len(r) = IF i <= Len(db) THEN Len(db) - i + 1 ELSE 0
      /\ \A j \in 1 .. Len(db) - i + 1 : r[j] = db[i + j - 1]
  <2>1. i \in Int /\ Len(db) \in Int /\ \A j \in i .. Len(db) : db[j] \in Nodes
    BY <1>1
  <2> QED BY <2>1, SubSeqProperties
<1> HIDE DEF r
<1>3. Len(r) = Len(db) - i + 1
  <2>1. Len(db) \in Int /\ i \in Int /\ i <= Len(db) + 1
    BY <1>1
  <2>2. ~(i <= Len(db)) => Len(db) - i + 1 = 0
    BY ONLY <2>1
  <2> QED BY <1>2, <2>2
<1>4. \A j \in 1 .. Len(db) - i + 1 : i + j - 1 \in 1 .. Len(db)
  BY <1>1
<1>5. \A j, l \in 1 .. Len(db) - i + 1 : i + j - 1 = i + l - 1 => j = l
  BY <1>1
<1>6. IsStore(r)
  <2>1. ASSUME NEW j \in 1 .. Len(db) - i + 1, NEW l \in 1 .. Len(db) - i + 1, r[j].key = r[l].key
        PROVE  j = l
    <3>1. db[i + j - 1].key = db[i + l - 1].key
      BY <2>1, <1>2
    <3> QED BY <3>1, <1>1, <1>4, <1>5
  <2> QED BY <2>1, <1>2, <1>3, IsStoreIntro
<1>7. Range(r) \subseteq Range(db)
  <2>1. DOMAIN r = 1 .. Len(db) - i + 1
    BY <1>2, <1>3, LenProperties
  <2>2. \A j \in 1 .. Len(db) - i + 1 : r[j] \in Range(db)
    BY <1>1, <1>2, <1>4
  <2> QED BY <2>1, <2>2 DEF Range
<1>8. ASSUME i = 1 PROVE r = db
  <2>1. Len(r) = Len(db)
    BY <1>8, <1>1, <1>3
  <2>2. ASSUME NEW j \in 1 .. Len(db) PROVE r[j] = db[j]
    <3>1. j \in 1 .. Len(db) - i + 1 /\ i + j - 1 = j
      BY <1>8, <1>1
    <3> QED BY <3>1, <1>2
  <2> QED BY <2>1, <2>2, <1>1, <1>2, SeqEqual
<1> QED BY <1>3, <1>6, <1>7, <1>8 DEF r

\* The eviction loop ends within the limit, keeps the nodes from some place on and
\* removes none of a store within the limit.
LEMMA EvictStore ==
  ASSUME NEW db, IsStore(db)
  PROVE  /\ IsStore(EvictUntilSafe(db))
         /\ Range(EvictUntilSafe(db)) \subseteq Range(db)
         /\ Usage(EvictUntilSafe(db)) <= LRU_MAX_MEMORY
         /\ Len(EvictUntilSafe(db)) \in 0 .. Len(db)
         /\ Usage(db) <= LRU_MAX_MEMORY => EvictUntilSafe(db) = db
         /\ Len(EvictUntilSafe(db)) = Len(db) => EvictUntilSafe(db) = db
<1> DEFINE from(i) == SubSeq(db, i, Len(db))
           safe == {i \in 1 .. Len(db) + 1 : Usage(from(i)) <= LRU_MAX_MEMORY}
<1>1. EvictUntilSafe(db) = from(Min(safe))
  BY DEF EvictUntilSafe
<1>2. /\ Len(db) \in Nat
      /\ \A i \in 1 .. Len(db) + 1 : /\ IsStore(from(i)) /\ Range(from(i)) \subseteq Range(db)
                                     /\ Len(from(i)) = Len(db) - i + 1
      /\ from(1) = db
  BY SuffixStore, StoreNodes
<1> HIDE DEF from
<1>3. Len(db) + 1 \in safe
  <2>1. Len(db) + 1 \in 1 .. Len(db) + 1
    BY <1>2
  <2>2. IsStore(from(Len(db) + 1)) /\ Len(from(Len(db) + 1)) = Len(db) - (Len(db) + 1) + 1
    BY <2>1, <1>2
  <2>3. Len(from(Len(db) + 1)) = 0
    BY <2>2, <1>2
  <2>4. from(Len(db) + 1) = <<>>
    BY <2>2, <2>3, StoreNodes, EmptySeq
  <2>5. Range(<<>>) = {} /\ Total({}) = 0
    BY FS_EmptySet, TotalRemove DEF Range
  <2>6. Usage(from(Len(db) + 1)) = 0
    BY <2>4, <2>5, UsageTotal
  <2> QED BY <2>1, <2>6, WeightAssumption
<1>4. Min(safe) \in safe /\ \A i \in safe : Min(safe) <= i
  <2>1. safe \in SUBSET Nat
    BY <1>2
  <2> QED BY <2>1, <1>3, MinProperties
<1> DEFINE m == Min(safe)
<1>5. m \in 1 .. Len(db) + 1 /\ Usage(from(m)) <= LRU_MAX_MEMORY
  BY <1>4
<1>6. ASSUME Usage(db) <= LRU_MAX_MEMORY PROVE m = 1
  <2>1. 1 \in safe
    BY <1>6, <1>2
  <2> QED BY <2>1, <1>4, <1>5
<1> HIDE DEF m
<1>7. Len(from(m)) \in 0 .. Len(db) /\ (Len(from(m)) = Len(db) => m = 1)
  BY <1>2, <1>5
<1>8. EvictUntilSafe(db) = from(m)
  BY <1>1 DEF m
<1> QED BY <1>2, <1>5, <1>6, <1>7, <1>8

(***************************************************************************)
(* add_lru and update_lru.                                                 *)
(***************************************************************************)

IsOutcome(o) ==
  /\ o = [db |-> o.db, ok |-> o.ok, reply |-> o.reply, dead |-> o.dead, silent |-> o.silent]
  /\ o.dead \in BOOLEAN /\ o.ok \in BOOLEAN

\* Changing a field of an outcome.
LEMMA ExceptOutcome ==
  ASSUME NEW o, IsOutcome(o), NEW x
  PROVE  /\ [o EXCEPT !.silent = x]
              = [db |-> o.db, ok |-> o.ok, reply |-> o.reply, dead |-> o.dead, silent |-> x]
         /\ [o EXCEPT !.ok = x]
              = [db |-> o.db, ok |-> x, reply |-> o.reply, dead |-> o.dead, silent |-> o.silent]
         /\ [o EXCEPT !.dead = x]
              = [db |-> o.db, ok |-> o.ok, reply |-> o.reply, dead |-> x, silent |-> o.silent]
<1> DEFINE a == o.db
           b == o.ok
           c == o.reply
           d == o.dead
           e == o.silent
<1>1. o = [db |-> a, ok |-> b, reply |-> c, dead |-> d, silent |-> e]
  BY DEF IsOutcome
<1> HIDE DEF a, b, c, d, e
<1>2. /\ [o EXCEPT !.silent = x] = [db |-> a, ok |-> b, reply |-> c, dead |-> d, silent |-> x]
      /\ [o EXCEPT !.ok = x] = [db |-> a, ok |-> x, reply |-> c, dead |-> d, silent |-> e]
      /\ [o EXCEPT !.dead = x] = [db |-> a, ok |-> b, reply |-> c, dead |-> x, silent |-> e]
  BY ONLY <1>1
<1> QED BY <1>2 DEF a, b, c, d, e

\* What a command promises that gives the store the nodes S: it does so unless they
\* exceed the limit, and what it leaves is in any case within the limit.
Puts(o, S) ==
  /\ IsOutcome(o)
  /\ IsStore(o.db) /\ Range(o.db) \subseteq S /\ Usage(o.db) <= LRU_MAX_MEMORY
  /\ Total(S) <= LRU_MAX_MEMORY => ~o.dead /\ o.silent = {} /\ Range(o.db) = S
  /\ o.silent = {} => Total(S) <= LRU_MAX_MEMORY

\* add_lru of a key the store does not have (lru.cpp:68).
LEMMA AddPuts ==
  ASSUME NEW db, IsStore(db), NEW n \in Nodes, \A m \in Range(db) : m.key # n.key, NEW r
  PROVE  /\ Puts(add_lru(db, n, r), Others(Range(db), n.key) \cup {n})
         /\ add_lru(db, n, r).ok = TRUE /\ add_lru(db, n, r).reply = r
         /\ ~add_lru(db, n, r).dead
<1> DEFINE e == Append(db, n)
           kept == EvictUntilSafe(e)
           o == add_lru(db, n, r)
           S == Others(Range(db), n.key) \cup {n}
<1>1. Others(Range(db), n.key) = Range(db)
  BY DEF Others
<1>2. db \in Seq(Nodes) /\ Len(db) \in Nat
  BY StoreNodes
<1>3. IsStore(e) /\ Range(e) = S /\ Len(e) = Len(db) + 1
  BY <1>1, <1>2, StoreAppend, RangeAppend, AppendProperties
<1> HIDE DEF e
<1>4. /\ IsStore(kept) /\ Range(kept) \subseteq Range(e) /\ Usage(kept) <= LRU_MAX_MEMORY
      /\ Len(kept) \in 0 .. Len(e)
      /\ Usage(e) <= LRU_MAX_MEMORY => kept = e
      /\ Len(kept) = Len(e) => kept = e
  BY <1>3, EvictStore
<1>5. o = [db |-> kept, ok |-> TRUE, reply |-> r, dead |-> FALSE,
           silent |-> IF Len(kept) <= Len(db) THEN {"eviction"} ELSE {}]
  <2>1. o = [Outcome(kept, TRUE, r) EXCEPT !.silent = IF Len(kept) <= Len(db) THEN {"eviction"} ELSE {}]
    BY DEF add_lru, e
  <2> DEFINE p == Outcome(kept, TRUE, r)
             x == IF Len(kept) <= Len(db) THEN {"eviction"} ELSE {}
  <2> HIDE DEF kept, o
  <2>2. IsOutcome(p) /\ p.db = kept /\ p.ok = TRUE /\ p.reply = r /\ p.dead = FALSE
    BY DEF Outcome, IsOutcome
  <2> HIDE DEF p, x
  <2>3. [p EXCEPT !.silent = x]
          = [db |-> p.db, ok |-> p.ok, reply |-> p.reply, dead |-> p.dead, silent |-> x]
    BY <2>2, ExceptOutcome
  <2>4. o = [p EXCEPT !.silent = x]
    BY <2>1 DEF p, x
  <2>5. o = [db |-> kept, ok |-> TRUE, reply |-> r, dead |-> FALSE, silent |-> x]
    BY <2>2, <2>3, <2>4
  <2> QED BY <2>5 DEF x
<1> HIDE DEF kept, o
<1>6. IsOutcome(o) /\ o.db = kept /\ o.ok = TRUE /\ o.reply = r /\ o.dead = FALSE
      /\ o.silent = IF Len(kept) <= Len(db) THEN {"eviction"} ELSE {}
  BY <1>5 DEF IsOutcome
<1>7. Usage(e) = Total(S)
  BY <1>3, UsageTotal
<1>8. ASSUME Total(S) <= LRU_MAX_MEMORY PROVE o.silent = {} /\ Range(o.db) = S
  <2>1. kept = e
    BY <1>8, <1>4, <1>7
  <2>2. ~(Len(kept) <= Len(db))
    BY <2>1, <1>2, <1>3
  <2> QED BY <2>1, <2>2, <1>3, <1>6
<1>9. ASSUME o.silent = {} PROVE Total(S) <= LRU_MAX_MEMORY
  <2>1. ~(Len(kept) <= Len(db))
    BY <1>9, <1>6
  <2>2. Len(kept) = Len(e)
    BY <2>1, <1>2, <1>3, <1>4
  <2> QED BY <2>2, <1>4, <1>7
<1> QED BY <1>3, <1>4, <1>6, <1>8, <1>9 DEF Puts, o

\* update_lru of a node (lru.cpp:84).
LEMMA UpdatePuts ==
  ASSUME NEW db, IsStore(db), NEW i \in 1 .. Len(db), NEW n \in Nodes, n.key = db[i].key, NEW r
  PROVE  /\ Puts(update_lru(db, i, n, r), Others(Range(db), n.key) \cup {n})
         /\ update_lru(db, i, n, r).ok = TRUE /\ update_lru(db, i, n, r).reply = r
<1> DEFINE e == [db EXCEPT ![i] = n]
           kept == EvictUntilSafe(e)
           j == Find(kept, n.key)
           o == update_lru(db, i, n, r)
           S == Others(Range(db), n.key) \cup {n}
<1>2. db \in Seq(Nodes) /\ Len(db) \in Nat
  BY StoreNodes
<1>3. IsStore(e) /\ Range(e) = S /\ Len(e) = Len(db)
  BY ReplaceStore
<1>5. o = [db |-> IF j = 0 THEN kept ELSE touch_lru(kept, j), ok |-> TRUE, reply |-> r, dead |-> j = 0,
           silent |-> IF Len(kept) < Len(db) THEN {"eviction"} ELSE {}]
  BY DEF update_lru
<1> HIDE DEF e, o
<1>4. /\ IsStore(kept) /\ Range(kept) \subseteq Range(e) /\ Usage(kept) <= LRU_MAX_MEMORY
      /\ Len(kept) \in 0 .. Len(e)
      /\ Usage(e) <= LRU_MAX_MEMORY => kept = e
      /\ Len(kept) = Len(e) => kept = e
  BY <1>3, EvictStore
<1> HIDE DEF kept
<1>6. /\ j \in 0 .. Len(kept) /\ (j > 0 => j \in 1 .. Len(kept))
      /\ j = 0 => \A m \in Range(kept) : m.key # n.key
  BY <1>4, FindNode
<1>7. IsStore(o.db) /\ Range(o.db) = Range(kept)
  <2>1. CASE j = 0
    BY <2>1, <1>4, <1>5
  <2>2. CASE j # 0
    <3>1. j \in 1 .. Len(kept)
      BY <2>2, <1>6
    <3>2. IsStore(touch_lru(kept, j)) /\ Range(touch_lru(kept, j)) = Range(kept)
      BY <3>1, <1>4, TouchStore
    <3> QED BY <2>2, <3>2, <1>5
  <2> QED BY <2>1, <2>2
<1>8. IsOutcome(o) /\ o.ok = TRUE /\ o.reply = r /\ (o.dead <=> j = 0)
      /\ o.silent = IF Len(kept) < Len(db) THEN {"eviction"} ELSE {}
  BY <1>5 DEF IsOutcome
<1> HIDE DEF j
<1>9. Usage(e) = Total(S) /\ Usage(o.db) = Usage(kept)
  BY <1>3, <1>7, UsageTotal
<1>10. ASSUME Total(S) <= LRU_MAX_MEMORY PROVE ~o.dead /\ o.silent = {} /\ Range(o.db) = S
  <2>1. kept = e
    BY <1>10, <1>4, <1>9
  <2>2. ~(Len(kept) < Len(db))
    BY <2>1, <1>2, <1>3
  <2>3. n \in Range(kept)
    BY <2>1, <1>3
  <2> QED BY <2>1, <2>2, <2>3, <1>3, <1>6, <1>7, <1>8
<1>11. ASSUME o.silent = {} PROVE Total(S) <= LRU_MAX_MEMORY
  <2>1. ~(Len(kept) < Len(db))
    BY <1>11, <1>8
  <2>2. Len(kept) = Len(e)
    BY <2>1, <1>2, <1>3, <1>4
  <2> QED BY <2>2, <1>4, <1>9
<1> QED BY <1>3, <1>4, <1>7, <1>8, <1>9, <1>10, <1>11 DEF Puts, o

(***************************************************************************)
(* Hashes.                                                                 *)
(***************************************************************************)

\* The empty hash.
LEMMA EmptyHash ==
  /\ <<>> \in Hashes /\ DOMAIN <<>> = {} /\ {} \in Finite
  /\ \A h \in Hashes : DOMAIN h = {} => h = <<>>
<1>1. {} \in Finite
  BY FS_EmptySet DEF Finite
<1>2. <<>> \in [{} -> Values] /\ DOMAIN <<>> = {}
  OBVIOUS
<1>3. ASSUME NEW h \in Hashes, DOMAIN h = {} PROVE h = <<>>
  <2>1. h \in [{} -> Values]
    BY <1>3, HashFields
  <2> QED BY <2>1, <1>2
<1> QED BY <1>1, <1>2, <1>3 DEF Hashes

FillTable(hash, args, n, v) ==
  v = [i \in 0 .. n |-> IF i = 0 THEN hash ELSE SetField(v[i - 1], args[2 * i - 1], args[2 * i])]

\* The recursion of Filled has a solution.
LEMMA FillTableExists ==
  ASSUME NEW hash, NEW args
  PROVE  \A n \in Nat : \E v : FillTable(hash, args, n, v)
<1> DEFINE N == {n \in Nat : \E v : FillTable(hash, args, n, v)}
<1>1. 0 \in N
  <2>1. FillTable(hash, args, 0, [i \in 0 .. 0 |-> hash])
    BY DEF FillTable
  <2> QED BY <2>1
<1>2. ASSUME NEW n \in Nat, n \in N PROVE n + 1 \in N
  <2>1. PICK v : FillTable(hash, args, n, v)
    BY <1>2
  <2> DEFINE w == [i \in 0 .. n + 1 |->
                     IF i = n + 1 THEN SetField(v[n], args[2 * i - 1], args[2 * i]) ELSE v[i]]
  <2>2. \A i \in 0 .. n : v[i] = IF i = 0 THEN hash ELSE SetField(v[i - 1], args[2 * i - 1], args[2 * i])
    BY <2>1 DEF FillTable
  <2>3. ASSUME NEW i \in 0 .. n + 1
        PROVE  w[i] = IF i = 0 THEN hash ELSE SetField(w[i - 1], args[2 * i - 1], args[2 * i])
    <3>1. CASE i = n + 1
      <4>1. w[i - 1] = v[n] /\ i # 0
        BY <3>1
      <4> QED BY <3>1, <4>1
    <3>2. CASE i # n + 1
      <4>1. i \in 0 .. n /\ w[i] = v[i]
        BY <3>2
      <4>2. CASE i = 0
        BY <4>1, <4>2, <2>2
      <4>3. CASE i # 0
        <5>1. w[i - 1] = v[i - 1]
          BY <4>1, <4>3
        <5> QED BY <4>1, <4>3, <5>1, <2>2
      <4> QED BY <4>2, <4>3
    <3> QED BY <3>1, <3>2
  <2>4. FillTable(hash, args, n + 1, w)
    BY <2>3 DEF FillTable
  <2> QED BY <2>4
<1>3. \A n \in Nat : n \in N
  BY <1>1, <1>2, NatInd
<1> QED BY <1>3

\* The hashes after 0, 1, ... n pairs.
FillSteps(hash, args, n, g) ==
  /\ Filled(hash, args) = g[n]
  /\ g[0] = hash
  /\ \A i \in 0 .. n : i # 0 => g[i] = SetField(g[i - 1], args[2 * i - 1], args[2 * i])

\* Filled puts one pair after the other.
LEMMA FilledSteps ==
  ASSUME NEW hash, NEW args, NEW n \in Nat, n = Len(args) \div 2
  PROVE  \E g : FillSteps(hash, args, n, g)
<1> DEFINE g == CHOOSE v : FillTable(hash, args, n, v)
<1>1. Filled(hash, args) = g[n]
  BY DEF Filled, FillTable
<1>3. FillTable(hash, args, n, g)
  BY FillTableExists, Zenon
<1> HIDE DEF g
<1>4. g[0] = hash /\ \A i \in 0 .. n : i # 0 => g[i] = SetField(g[i - 1], args[2 * i - 1], args[2 * i])
  <2>1. 0 \in 0 .. n
    OBVIOUS
  <2> QED BY <1>3, <2>1 DEF FillTable
<1> QED BY <1>1, <1>4 DEF FillSteps

\* Setting a field of a hash gives a hash.
LEMMA SetFieldType ==
  ASSUME NEW h \in Hashes, NEW f \in Values, NEW v \in Values
  PROVE  /\ SetField(h, f, v) \in Hashes
         /\ DOMAIN SetField(h, f, v) = DOMAIN h \cup {f}
<1> DEFINE s == SetField(h, f, v)
           D == DOMAIN h \cup {f}
<1>1. DOMAIN h \in Finite /\ h \in [DOMAIN h -> Values] /\ IsFiniteSet(DOMAIN h)
  BY HashFields
<1>2. D \in Finite
  BY <1>1, FS_AddElement DEF Finite
<1>3. s \in [D -> Values] /\ DOMAIN s = D
  BY <1>1 DEF SetField
<1> QED BY <1>2, <1>3 DEF Hashes

\* Half of the arguments are fields.
LEMMA Pairing ==
  ASSUME NEW args \in Seq(Values)
  PROVE  /\ Len(args) \div 2 \in Nat
         /\ \A i \in 1 .. Len(args) \div 2 : args[2 * i - 1] \in Values /\ args[2 * i] \in Values
<1>1. Len(args) \in Nat /\ \A i \in 1 .. Len(args) : args[i] \in Values
  BY LenProperties, ElementOfSeq
<1> DEFINE n == Len(args) \div 2
<1>2. n \in Nat /\ 2 * n <= Len(args)
  BY <1>1
<1> HIDE DEF n
<1>3. \A i \in 1 .. n : 2 * i - 1 \in 1 .. Len(args) /\ 2 * i \in 1 .. Len(args)
  BY <1>1, <1>2
<1> QED BY <1>1, <1>2, <1>3 DEF n

\* HSET gives a hash and loses no field (commands.cpp:456).
LEMMA FilledType ==
  ASSUME NEW hash \in Hashes, NEW args \in Seq(Values)
  PROVE  Filled(hash, args) \in Hashes /\ DOMAIN hash \subseteq DOMAIN Filled(hash, args)
<1> DEFINE n == Len(args) \div 2
<1>1. n \in Nat /\ \A i \in 1 .. n : args[2 * i - 1] \in Values /\ args[2 * i] \in Values
  BY Pairing
<1>6. n \in Nat /\ n = Len(args) \div 2
  BY <1>1
<1> HIDE DEF n
<1>7. PICK g : FillSteps(hash, args, n, g)
  BY <1>6, FilledSteps
<1>2. /\ Filled(hash, args) = g[n]
      /\ g[0] = hash
      /\ \A i \in 0 .. n : i # 0 => g[i] = SetField(g[i - 1], args[2 * i - 1], args[2 * i])
  BY <1>7 DEF FillSteps
<1> DEFINE N == {i \in Nat : i <= n => g[i] \in Hashes /\ DOMAIN hash \subseteq DOMAIN g[i]}
<1>3. 0 \in N
  BY <1>2
<1>4. ASSUME NEW i \in Nat, i \in N PROVE i + 1 \in N
  <2> SUFFICES ASSUME i + 1 <= n PROVE g[i + 1] \in Hashes /\ DOMAIN hash \subseteq DOMAIN g[i + 1]
    OBVIOUS
  <2>1. i + 1 \in 0 .. n /\ i + 1 \in 1 .. n /\ i + 1 # 0 /\ (i + 1) - 1 = i
    BY <1>1
  <2>2. g[i] \in Hashes /\ DOMAIN hash \subseteq DOMAIN g[i]
    BY <1>1, <1>4
  <2> DEFINE f == args[2 * (i + 1) - 1]
             v == args[2 * (i + 1)]
  <2>3. g[i + 1] = SetField(g[i], f, v) /\ f \in Values /\ v \in Values
    BY <1>1, <1>2, <2>1
  <2> DEFINE h == g[i]
  <2>4. h \in Hashes /\ DOMAIN hash \subseteq DOMAIN h
    BY <2>2
  <2> HIDE DEF f, v, h
  <2>5. SetField(h, f, v) \in Hashes /\ DOMAIN SetField(h, f, v) = DOMAIN h \cup {f}
    BY ONLY <2>3, <2>4, SetFieldType
  <2>6. g[i + 1] = SetField(h, f, v)
    BY <2>3 DEF h
  <2> QED BY <2>4, <2>5, <2>6
<1>5. n \in N
  BY <1>1, <1>3, <1>4, NatInd
<1> QED BY <1>1, <1>2, <1>5

(***************************************************************************)
(* What the commands do.                                                   *)
(***************************************************************************)

\* The outcome is a store within the limit.
Holds(o) == IsOutcome(o) /\ IsStore(o.db) /\ Usage(o.db) <= LRU_MAX_MEMORY

\* The command is not logged and changes at most the order of the nodes.
Same(o, db) ==
  /\ IsOutcome(o) /\ IsStore(o.db) /\ Range(o.db) = Range(db)
  /\ ~o.dead /\ ~o.ok /\ o.silent = {}

\* A command that keeps the nodes keeps their memory.
LEMMA SameHolds ==
  ASSUME NEW o, NEW db, Same(o, db), Usage(db) <= LRU_MAX_MEMORY
  PROVE  Holds(o)
BY UsageTotal DEF Same, Holds

\* A command that answers without touching a node.
LEMMA ReadSame ==
  ASSUME NEW db, IsStore(db), NEW r
  PROVE  Same(Read(db, r), db)
<1> DEFINE o == Read(db, r)
<1>1. IsOutcome(o) /\ o.db = db /\ ~o.ok /\ ~o.dead /\ o.silent = {}
  BY DEF Read, Outcome, IsOutcome
<1> HIDE DEF o
<1>2. Same(o, db)
  BY <1>1 DEF Same
<1> QED BY <1>2 DEF o

\* A command that answers and touches a node.
LEMMA TouchSame ==
  ASSUME NEW db, IsStore(db), NEW i \in 1 .. Len(db), NEW r
  PROVE  Same(Read(touch_lru(db, i), r), db)
<1> DEFINE d == touch_lru(db, i)
<1>1. IsStore(d) /\ Range(d) = Range(db)
  BY TouchStore
<1> HIDE DEF d
<1>2. Same(Read(d, r), d)
  BY <1>1, ReadSame
<1>3. Same(Read(d, r), db)
  BY <1>1, <1>2 DEF Same
<1> QED BY <1>3 DEF d

\* The fields of a command.
LEMMA CommandFields ==
  ASSUME NEW c \in CommandType
  PROVE  /\ c.key \in Keys /\ c.args \in Seq(Values) /\ c.num \in Int
         /\ Range(c.args) \in Finite
         /\ c.op = "SET" => c.args[1] \in Values
<1>1. /\ c.key \in Keys /\ c.args \in Seq(Values) /\ c.num \in Int
      /\ c.op = "SET" => c.args # <<>>
  BY DEF CommandType
<1> DEFINE s == c.args
<1>2. Len(s) \in Nat /\ DOMAIN s = 1 .. Len(s) /\ \A i \in 1 .. Len(s) : s[i] \in Values
  BY <1>1, LenProperties, ElementOfSeq
<1> HIDE DEF s
<1>3. Range(s) \in Finite
  <2>2. Range(s) \subseteq Values
    BY <1>2 DEF Range
  <2>4. IsFiniteSet(Range(s))
    BY <1>1, RangeFinite DEF s
  <2> QED BY <2>2, <2>4 DEF Finite
<1>4. ASSUME s # <<>> PROVE s[1] \in Values
  <2>1. Len(s) # 0
    BY <1>1, <1>4, EmptySeq DEF s
  <2> QED BY <2>1, <1>2
<1> QED BY <1>1, <1>3, <1>4 DEF s

\* A node put under its key, whatever is there.
LEMMA PutNode ==
  ASSUME NEW db, IsStore(db), NEW n \in Nodes, NEW r
  PROVE  LET i == Find(db, n.key)
             o == IF i > 0 THEN update_lru(db, i, n, r) ELSE add_lru(db, n, r)
         IN Puts(o, Others(Range(db), n.key) \cup {n}) /\ o.ok = TRUE
<1> DEFINE i == Find(db, n.key)
<1>1. /\ i \in 0 .. Len(db) /\ Len(db) \in Nat
      /\ i > 0 => i \in 1 .. Len(db) /\ db[i].key = n.key
      /\ i = 0 => \A m \in Range(db) : m.key # n.key
  BY FindNode, StoreNodes
<1> HIDE DEF i
<1>2. CASE i > 0
  <2>1. i \in 1 .. Len(db) /\ n.key = db[i].key
    BY <1>1, <1>2
  <2>2. /\ Puts(update_lru(db, i, n, r), Others(Range(db), n.key) \cup {n})
        /\ update_lru(db, i, n, r).ok = TRUE
    BY <2>1, UpdatePuts
  <2> QED BY <2>2, <1>2 DEF i
<1>3. CASE ~(i > 0)
  <2>1. \A m \in Range(db) : m.key # n.key
    BY <1>1, <1>3
  <2>2. /\ Puts(add_lru(db, n, r), Others(Range(db), n.key) \cup {n})
        /\ add_lru(db, n, r).ok = TRUE
    BY <2>1, AddPuts
  <2> QED BY <2>2, <1>3 DEF i
<1> QED BY <1>2, <1>3

\* The data of the node at i replaced.
LEMMA DataPuts ==
  ASSUME NEW db, IsStore(db), NEW i \in 1 .. Len(db), NEW data,
         Node(db[i].key, db[i].type, data, db[i].expiry) \in Nodes
  PROVE  LET n == Node(db[i].key, db[i].type, data, db[i].expiry)
             S == Others(Range(db), n.key) \cup {n}
         IN /\ \A r : Puts(WithData(db, i, data, r), S) /\ WithData(db, i, data, r).ok = TRUE
            /\ \A x \in Int : Puts(WithCount(db, i, data, x), S) /\ WithCount(db, i, data, x).ok = (x > 0)
<1> DEFINE m == db[i]
           n == Node(m.key, m.type, data, m.expiry)
           S == Others(Range(db), n.key) \cup {n}
<1>1. m \in Nodes
  BY StoreNodes
<1>2. m = Node(m.key, m.type, m.data, m.expiry)
  BY <1>1, NodeFields
<1>3. [m EXCEPT !.data = data] = n
  <2> DEFINE a == m.key
             b == m.type
             d == m.data
             e == m.expiry
  <2>1. m = [key |-> a, type |-> b, data |-> d, expiry |-> e]
    BY <1>2 DEF Node
  <2> HIDE DEF a, b, d, e, m
  <2>2. [m EXCEPT !.data = data] = [key |-> a, type |-> b, data |-> data, expiry |-> e]
    BY ONLY <2>1
  <2> QED BY <2>2 DEF a, b, e, Node
<1>4. n.key = m.key /\ n \in Nodes
  BY DEF Node
<1>5. ASSUME NEW r PROVE Puts(WithData(db, i, data, r), S) /\ WithData(db, i, data, r).ok = TRUE
  <2>1. WithData(db, i, data, r) = update_lru(db, i, n, r)
    BY <1>3 DEF WithData
  <2> HIDE DEF n
  <2>2. Puts(update_lru(db, i, n, r), S) /\ update_lru(db, i, n, r).ok = TRUE
    BY <1>4, UpdatePuts
  <2> QED BY <2>1, <2>2
<1>6. ASSUME NEW x \in Int
      PROVE  Puts(WithCount(db, i, data, x), S) /\ WithCount(db, i, data, x).ok = (x > 0)
  <2> DEFINE o == WithData(db, i, data, send_integer(x))
             p == WithCount(db, i, data, x)
  <2>1. Puts(o, S)
    BY <1>5
  <2>2. p = [o EXCEPT !.ok = x > 0]
    BY DEF WithCount
  <2> HIDE DEF S, o, p
  <2>3. IsOutcome(o)
    BY <2>1 DEF Puts
  <2>4. p = [db |-> o.db, ok |-> x > 0, reply |-> o.reply, dead |-> o.dead, silent |-> o.silent]
    BY <2>2, <2>3, ExceptOutcome
  <2>5. IsOutcome(p) /\ p.db = o.db /\ p.dead = o.dead /\ p.silent = o.silent /\ p.ok = (x > 0)
    BY <2>3, <2>4 DEF IsOutcome
  <2>6. Puts(p, S)
    BY <2>1, <2>5 DEF Puts
  <2> QED BY <2>5, <2>6 DEF p, S
<1> QED BY <1>5, <1>6

\* Putting a node leaves a store within the limit.
LEMMA PutsHolds == ASSUME NEW o, NEW S, Puts(o, S) PROVE Holds(o)
BY DEF Puts, Holds

\* The memory of the nodes with one of them put under its key.
LEMMA PutTotal ==
  ASSUME NEW db, IsStore(db), NEW n \in Nodes
  PROVE  LET S == Others(Range(db), n.key)
             i == Find(db, n.key)
         IN /\ S \in SUBSET Nodes /\ IsFiniteSet(S) /\ Total(S) \in Nat /\ Weight(n) \in Nat
            /\ Total(S \cup {n}) = Weight(n) + Total(S)
            /\ S \cup {n} \in SUBSET Nodes /\ IsFiniteSet(S \cup {n})
            /\ i = 0 => Range(db) = S
            /\ i > 0 => /\ Range(db) = S \cup {db[i]}
                        /\ Usage(db) = Weight(db[i]) + Total(S)
<1> DEFINE S == Others(Range(db), n.key)
           i == Find(db, n.key)
<1>1. db \in Seq(Nodes) /\ Range(db) \subseteq Nodes
  BY StoreNodes
<1>2. IsFiniteSet(Range(db))
  BY <1>1, StoreSize
<1>3. S \in SUBSET Nodes /\ S \in SUBSET Range(db) /\ n \notin S
  BY <1>1 DEF Others
<1>4. IsFiniteSet(S)
  BY <1>2, <1>3, FS_Subset
<1>5. /\ i \in 0 .. Len(db)
      /\ i > 0 => /\ db[i].key = n.key /\ db[i] \in Nodes /\ db[i] \in Range(db)
                  /\ \A m \in Range(db) : m.key = n.key <=> m = db[i]
      /\ i = 0 => \A m \in Range(db) : m.key # n.key
  BY FindNode
<1> HIDE DEF i
<1>6. i = 0 => Range(db) = S
  BY <1>5 DEF Others
<1>7. i > 0 => Range(db) = S \cup {db[i]} /\ db[i] \notin S
  BY <1>5 DEF Others
<1> HIDE DEF S
<1>8. Total(S \cup {n}) = Weight(n) + Total(S) /\ Total(S) \in Nat /\ Weight(n) \in Nat /\ IsFiniteSet(S \cup {n})
  BY <1>3, <1>4, TotalAdd
<1>9. i > 0 => Usage(db) = Weight(db[i]) + Total(S)
  BY <1>3, <1>4, <1>5, <1>7, TotalAdd, UsageTotal
<1> QED BY <1>3, <1>4, <1>6, <1>7, <1>8, <1>9 DEF S, i

\* A part of a finite set that is as large is the set.
LEMMA SameSize ==
  ASSUME NEW B, IsFiniteSet(B), NEW A \in SUBSET B
  PROVE  /\ Cardinality(B) - Cardinality(A) \in Nat
         /\ Cardinality(A) \in Nat /\ Cardinality(B) \in Nat
         /\ ~(Cardinality(B) - Cardinality(A) > 0) => A = B
<1>1. /\ IsFiniteSet(A) /\ Cardinality(A) <= Cardinality(B)
      /\ Cardinality(A) = Cardinality(B) => A = B
  BY FS_Subset
<1>2. Cardinality(A) \in Nat /\ Cardinality(B) \in Nat
  BY <1>1, FS_CardinalityType
<1> QED BY <1>1, <1>2

SetNode(c, t) == Node(c.key, "STRING", c.args[1], expire_at(c, t))

\* SET (commands.cpp:25).
LEMMA SetEffect ==
  ASSUME NEW db, IsStore(db), Usage(db) <= LRU_MAX_MEMORY, NEW c \in CommandType, c.op = "SET", NEW t \in Int
  PROVE  LET o == command_set(db, c, t)
         IN /\ Holds(o)
            /\ c.opt = "invalid" => Same(o, db)
            /\ c.opt \in {"EX", "PX"} => o.silent # {}
            /\ c.opt \notin {"invalid", "EX", "PX"} =>
                 /\ SetNode(c, t) \in Nodes /\ SetNode(c, t).key = c.key /\ o.ok
                 /\ Puts(o, Others(Range(db), c.key) \cup {SetNode(c, t)})
<1> DEFINE n == SetNode(c, t)
           i == Find(db, c.key)
           reply == <<"simple", "OK">>
           done == IF i > 0 THEN update_lru(db, i, n, reply) ELSE add_lru(db, n, reply)
           x == done.silent \cup IF c.opt \in {"EX", "PX"} THEN {"relative"} ELSE {}
           S == Others(Range(db), c.key) \cup {n}
           o == command_set(db, c, t)
<1>1. c.key \in Keys /\ c.num \in Int /\ c.args[1] \in Values
  BY CommandFields
<1>2. expire_at(c, t) \in Int
  BY <1>1 DEF expire_at
<1>3. n \in Nodes /\ n.key = c.key
  <2>1. n.key = c.key
    BY DEF SetNode, Node
  <2> QED BY <1>1, <1>2, <2>1, MakesNode DEF SetNode
<1>4. o = IF c.opt = "invalid" THEN Read(db, Error("ERR")) ELSE [done EXCEPT !.silent = x]
  BY DEF command_set, SetNode
<1> HIDE DEF n, o
<1>5. Puts(done, S) /\ done.ok = TRUE
  <2>1. LET j == Find(db, n.key)
            d == IF j > 0 THEN update_lru(db, j, n, reply) ELSE add_lru(db, n, reply)
        IN Puts(d, Others(Range(db), n.key) \cup {n}) /\ d.ok = TRUE
    BY <1>3, PutNode
  <2> QED BY <1>3, <2>1
<1> HIDE DEF done, S
<1>6. CASE c.opt = "invalid"
  <2>1. Same(o, db)
    BY <1>4, <1>6, ReadSame
  <2> QED BY <1>6, <2>1, SameHolds DEF o
<1>7. CASE c.opt # "invalid"
  <2>1. IsOutcome(done)
    BY <1>5 DEF Puts
  <2>2. o = [db |-> done.db, ok |-> done.ok, reply |-> done.reply, dead |-> done.dead, silent |-> x]
    BY <1>4, <1>7, <2>1, ExceptOutcome
  <2>3. IsOutcome(o) /\ o.db = done.db /\ o.dead = done.dead /\ o.silent = x /\ o.ok
    BY <1>5, <2>1, <2>2 DEF IsOutcome
  <2>4. Holds(o)
    BY <1>5, <2>3 DEF Puts, Holds
  <2>5. c.opt \in {"EX", "PX"} => o.silent # {}
    BY <2>3
  <2>6. ASSUME c.opt \notin {"EX", "PX"} PROVE Puts(o, S)
    <3>1. o.silent = done.silent
      BY <2>3, <2>6
    <3> QED BY <3>1, <1>5, <2>3 DEF Puts
  <2> QED BY <1>3, <1>7, <2>3, <2>4, <2>5, <2>6 DEF o, n, S
<1> QED BY <1>6, <1>7

\* GET (commands.cpp:86).
LEMMA GetEffect ==
  ASSUME NEW db, IsStore(db), Usage(db) <= LRU_MAX_MEMORY, NEW c, NEW t
  PROVE  LET o == command_get(db, c, t)
         IN Holds(o) /\ (o.silent = {} => Same(o, db))
<1> DEFINE i == Find(db, c.key)
           o == command_get(db, c, t)
<1>1. i \in 0 .. Len(db) /\ (i > 0 => i \in 1 .. Len(db)) /\ Len(db) \in Nat
  BY FindNode, StoreNodes
<1>2. o = IF i = 0 THEN Read(db, Nil)
          ELSE IF db[i].type # "STRING" THEN Refused(db)
          ELSE IF Expired(db[i], t)
          THEN [Read(RemoveAt(db, i), Nil) EXCEPT !.silent = {"expiry"}]
          ELSE Read(touch_lru(db, i), Bulk(db[i].data))
  BY DEF command_get
<1> HIDE DEF o, i
<1>3. ASSUME Same(o, db) PROVE Holds(o) /\ (o.silent = {} => Same(o, db))
  BY <1>3, SameHolds
<1>4. CASE i = 0
  BY <1>2, <1>3, <1>4, ReadSame DEF o
<1>5. CASE i # 0 /\ db[i].type # "STRING"
  BY <1>2, <1>3, <1>5, ReadSame DEF Refused, o
<1>6. CASE i # 0 /\ db[i].type = "STRING" /\ ~Expired(db[i], t)
  <2>1. i \in 1 .. Len(db)
    BY <1>1, <1>6
  <2>2. o = Read(touch_lru(db, i), Bulk(db[i].data))
    BY <1>2, <1>6
  <2>3. Same(o, db)
    BY <2>1, <2>2, TouchSame
  <2> QED BY <2>3, <1>3 DEF o
<1>7. CASE i # 0 /\ db[i].type = "STRING" /\ Expired(db[i], t)
  <2> DEFINE d == RemoveAt(db, i)
             p == Read(d, Nil)
  <2>1. i \in 1 .. Len(db)
    BY <1>1, <1>7
  <2>2. IsStore(d) /\ Range(d) \subseteq Range(db)
    BY <2>1, RemoveStore
  <2> HIDE DEF d
  <2>3. IsOutcome(p) /\ p.db = d
    BY DEF Read, Outcome, IsOutcome
  <2>4. o = [p EXCEPT !.silent = {"expiry"}]
    BY <1>2, <1>7 DEF d
  <2> HIDE DEF p
  <2>5. o = [db |-> p.db, ok |-> p.ok, reply |-> p.reply, dead |-> p.dead, silent |-> {"expiry"}]
    BY <2>3, <2>4, ExceptOutcome
  <2>6. IsOutcome(o) /\ o.db = d /\ o.silent = {"expiry"}
    BY <2>3, <2>5 DEF IsOutcome
  <2>7. Usage(d) <= LRU_MAX_MEMORY
    <3>1. Range(db) \in SUBSET Nodes /\ IsFiniteSet(Range(db))
      BY StoreNodes, StoreSize
    <3>2. Total(Range(d)) <= Total(Range(db)) /\ Total(Range(d)) \in Nat /\ Total(Range(db)) \in Nat
      BY <2>2, <3>1, TotalMonotone
    <3> QED BY <3>2, UsageTotal, WeightAssumption
  <2>8. Holds(o) /\ o.silent # {}
    BY <2>2, <2>6, <2>7 DEF Holds
  <2> QED BY <2>8 DEF o
<1> QED BY <1>4, <1>5, <1>6, <1>7

\* The data of the node of a key, and what a missing key counts as.
DataAt(db, k, none) == IF Find(db, k) = 0 THEN none ELSE db[Find(db, k)].data

\* The command can work on the key: it is missing or has the type.
Fits(db, k, type) == Find(db, k) = 0 \/ db[Find(db, k)].type = type

\* Elements pushed onto a list make a list.
LEMMA PushedType ==
  ASSUME NEW a \in Seq(Values), NEW b \in Seq(Values), NEW f \in BOOLEAN
  PROVE  Pushed(a, b, f) \in Seq(Values)
<1>1. Reverse(b) \in Seq(Values)
  <2>1. Len(b) \in Nat /\ \A i \in 1 .. Len(b) : b[i] \in Values
    BY LenProperties, ElementOfSeq
  <2>2. \A i \in 1 .. Len(b) : (Len(b) - i) + 1 \in 1 .. Len(b)
    BY <2>1
  <2> QED BY <2>1, <2>2 DEF Reverse
<1> DEFINE r == Reverse(b)
<1> HIDE DEF r
<1>2. r \in Seq(Values)
  BY <1>1 DEF r
<1>3. r \o a \in Seq(Values) /\ a \o b \in Seq(Values)
  BY <1>2, ConcatProperties
<1> QED BY <1>3 DEF Pushed, r

\* LPUSH and RPUSH (commands.cpp:121).
LEMMA PushEffect ==
  ASSUME NEW db, IsStore(db), Usage(db) <= LRU_MAX_MEMORY, NEW c \in CommandType, NEW f \in BOOLEAN
  PROVE  LET o == generic_push(db, c, f)
             n == Node(c.key, "LIST", Pushed(DataAt(db, c.key, <<>>), c.args, f), 0)
         IN /\ Holds(o)
            /\ ~Fits(db, c.key, "LIST") => Same(o, db)
            /\ Fits(db, c.key, "LIST") =>
                 n \in Nodes /\ n.key = c.key /\ o.ok /\ Puts(o, Others(Range(db), c.key) \cup {n})
<1> DEFINE k == c.key
           i == Find(db, k)
           new == Pushed(DataAt(db, k, <<>>), c.args, f)
           n == Node(k, "LIST", new, 0)
           o == generic_push(db, c, f)
<1>1. k \in Keys /\ c.args \in Seq(Values)
  BY CommandFields
<1>2. /\ i \in 0 .. Len(db) /\ Len(db) \in Nat
      /\ i > 0 => i \in 1 .. Len(db) /\ db[i].key = k /\ db[i] \in Nodes
      /\ i = 0 => \A m \in Range(db) : m.key # k
  BY FindNode, StoreNodes
<1>3. o = IF i = 0 THEN add_lru(db, n, send_integer(Len(new)))
          ELSE IF db[i].type # "LIST" THEN Refused(db)
          ELSE WithData(db, i, new, send_integer(Len(new)))
  BY DEF generic_push, DataAt
<1>4. n.key = k
  BY DEF Node
<1> HIDE DEF o
<1>5. CASE i > 0 /\ db[i].type # "LIST"
  <2>1. Same(o, db)
    BY <1>3, <1>5, ReadSame DEF Refused
  <2>2. ~Fits(db, k, "LIST")
    BY <1>5 DEF Fits
  <2> QED BY <2>1, <2>2, SameHolds DEF o
<1>6. CASE i = 0
  <2>1. DataAt(db, k, <<>>) = <<>> /\ <<>> \in Seq(Values)
    BY <1>6, EmptySeq DEF DataAt
  <2>2. new \in Seq(Values)
    BY <1>1, <2>1, PushedType
  <2> HIDE DEF new
  <2>3. n \in Nodes
    BY <1>1, <2>2, MakesNode
  <2>4. \A m \in Range(db) : m.key # n.key
    BY <1>2, <1>4, <1>6
  <2> HIDE DEF n
  <2>5. /\ Puts(add_lru(db, n, send_integer(Len(new))), Others(Range(db), n.key) \cup {n})
        /\ add_lru(db, n, send_integer(Len(new))).ok = TRUE
    BY <2>3, <2>4, AddPuts
  <2>6. Puts(o, Others(Range(db), k) \cup {n}) /\ o.ok
    BY <1>3, <1>4, <1>6, <2>5
  <2> QED BY <1>6, <2>3, <2>6, <1>4, PutsHolds DEF o, n, new, Fits
<1>7. CASE i > 0 /\ db[i].type = "LIST"
  <2>1. db[i].data \in Seq(Values) /\ db[i].expiry = 0 /\ i \in 1 .. Len(db) /\ db[i].key = k
    BY <1>2, <1>7, NodeFields
  <2>2. DataAt(db, k, <<>>) = db[i].data
    BY <1>7 DEF DataAt
  <2>3. new \in Seq(Values)
    BY <1>1, <2>1, <2>2, PushedType
  <2> HIDE DEF new
  <2>4. n \in Nodes
    BY <1>1, <2>3, MakesNode
  <2>5. Node(db[i].key, db[i].type, new, db[i].expiry) = n
    BY <1>7, <2>1
  <2> HIDE DEF n
  <2>6. LET m == Node(db[i].key, db[i].type, new, db[i].expiry)
            S == Others(Range(db), m.key) \cup {m}
        IN \A r : Puts(WithData(db, i, new, r), S) /\ WithData(db, i, new, r).ok = TRUE
    BY <2>1, <2>4, <2>5, DataPuts
  <2> DEFINE w == WithData(db, i, new, send_integer(Len(new)))
  <2>8. Puts(w, Others(Range(db), n.key) \cup {n}) /\ w.ok = TRUE
    BY <2>5, <2>6
  <2>9. o = w
    BY <1>3, <1>7
  <2> HIDE DEF w
  <2>7. Puts(o, Others(Range(db), k) \cup {n}) /\ o.ok
    BY <1>4, <2>8, <2>9
  <2> QED BY <1>7, <2>4, <2>7, <1>4, PutsHolds DEF o, n, new, Fits
<1> QED BY <1>2, <1>5, <1>6, <1>7

PopCount(list, c) ==
  LET count_pop == IF c.opt = "invalid" THEN 1 ELSE c.num
  IN IF count_pop < Len(list) THEN count_pop ELSE Len(list)
PopLeft(list, c, f) ==
  IF f THEN SubSeq(list, PopCount(list, c) + 1, Len(list)) ELSE SubSeq(list, 1, Len(list) - PopCount(list, c))

\* What is left of a list is no longer than it.
LEMMA PopLeftType ==
  ASSUME NEW list \in Seq(Values), NEW c \in CommandType, NEW f \in BOOLEAN, ~(PopCount(list, c) < 0)
  PROVE  PopLeft(list, c, f) \in Seq(Values) /\ Len(PopLeft(list, c, f)) <= Len(list)
         /\ Len(PopLeft(list, c, f)) \in Nat
<1> DEFINE p == PopCount(list, c)
<1>1. Len(list) \in Nat /\ \A i \in 1 .. Len(list) : list[i] \in Values
  BY LenProperties, ElementOfSeq
<1>2. p \in 0 .. Len(list)
  <2>1. c.num \in Int
    BY CommandFields
  <2> QED BY <1>1, <2>1 DEF PopCount
<1> HIDE DEF p
<1>3. /\ SubSeq(list, p + 1, Len(list)) \in Seq(Values)
      /\ Len(SubSeq(list, p + 1, Len(list))) = IF p + 1 <= Len(list) THEN Len(list) - (p + 1) + 1 ELSE 0
  <2>1. p + 1 \in Int /\ Len(list) \in Int /\ \A i \in p + 1 .. Len(list) : list[i] \in Values
    BY <1>1, <1>2
  <2> QED BY <2>1, SubSeqProperties
<1>4. /\ SubSeq(list, 1, Len(list) - p) \in Seq(Values)
      /\ Len(SubSeq(list, 1, Len(list) - p)) = IF 1 <= Len(list) - p THEN (Len(list) - p) - 1 + 1 ELSE 0
  <2>1. 1 \in Int /\ Len(list) - p \in Int /\ \A i \in 1 .. Len(list) - p : list[i] \in Values
    BY <1>1, <1>2
  <2> QED BY <2>1, SubSeqProperties
<1>5. PopLeft(list, c, f) = IF f THEN SubSeq(list, p + 1, Len(list)) ELSE SubSeq(list, 1, Len(list) - p)
  BY DEF PopLeft, p
<1>6. CASE f
  BY <1>1, <1>2, <1>3, <1>5, <1>6
<1>7. CASE ~f
  BY <1>1, <1>2, <1>4, <1>5, <1>7
<1> QED BY <1>6, <1>7

\* LPOP and RPOP (commands.cpp:229).
LEMMA PopEffect ==
  ASSUME NEW db, IsStore(db), Usage(db) <= LRU_MAX_MEMORY, NEW c \in CommandType, NEW f \in BOOLEAN
  PROVE  LET o == generic_pop(db, c, f)
             list == DataAt(db, c.key, <<>>)
             n == Node(c.key, "LIST", PopLeft(list, c, f), 0)
             pops == c.opt # "extra" /\ Has(db, c.key, "LIST")
         IN /\ Holds(o)
            /\ ~pops => Same(o, db)
            /\ pops /\ PopCount(list, c) < 0 => o.dead
            /\ pops /\ ~(PopCount(list, c) < 0) =>
                 n \in Nodes /\ n.key = c.key /\ o.ok /\ Puts(o, Others(Range(db), c.key) \cup {n})
<1> DEFINE k == c.key
           i == Find(db, k)
           list == DataAt(db, k, <<>>)
           x == PopCount(list, c)
           left == PopLeft(list, c, f)
           n == Node(k, "LIST", left, 0)
           o == generic_pop(db, c, f)
           pops == c.opt # "extra" /\ Has(db, k, "LIST")
           answer == Array(Popped(list, x, f))
<1>1. k \in Keys
  BY CommandFields
<1>2. /\ i \in 0 .. Len(db) /\ Len(db) \in Nat
      /\ i > 0 => i \in 1 .. Len(db) /\ db[i].key = k /\ db[i] \in Nodes
      /\ i = 0 => \A m \in Range(db) : m.key # k
  BY FindNode, StoreNodes
<1>0. o = LET l == db[i].data
          IN IF c.opt = "extra" THEN Read(db, Error("ERR"))
             ELSE IF i = 0 THEN Read(db, Array(<<>>))
             ELSE IF db[i].type # "LIST" THEN Refused(db)
             ELSE IF PopCount(l, c) < 0 THEN [Outcome(db, TRUE, Nil) EXCEPT !.dead = TRUE]
             ELSE Outcome(touch_lru([db EXCEPT ![i].data = PopLeft(l, c, f)], i), TRUE,
                          Array(Popped(l, PopCount(l, c), f)))
  BY Zenon DEF generic_pop, PopCount, PopLeft
<1>3. CASE ~pops
  <2> HIDE DEF o
  <2>0. c.opt = "extra" \/ i = 0 \/ db[i].type # "LIST"
    BY <1>2, <1>3 DEF Has
  <2>1. o = Read(db, Error("ERR")) \/ o = Read(db, Array(<<>>)) \/ o = Refused(db)
    BY <1>0, <2>0
  <2>2. Same(o, db)
    BY <2>1, ReadSame DEF Refused
  <2> QED BY <1>3, <2>2, SameHolds DEF o
<1>4. ASSUME pops PROVE i > 0 /\ db[i].type = "LIST" /\ list = db[i].data /\ i \in 1 .. Len(db)
  BY <1>2, <1>4 DEF Has, DataAt
<1>5. ASSUME pops
      PROVE  o = IF x < 0 THEN [Outcome(db, TRUE, Nil) EXCEPT !.dead = TRUE]
                 ELSE Outcome(touch_lru([db EXCEPT ![i].data = left], i), TRUE, answer)
  <2>1. i # 0 /\ db[i].type = "LIST" /\ list = db[i].data /\ c.opt # "extra"
    BY <1>4, <1>5
  <2> HIDE DEF o, i, list
  <2> QED BY <2>1, <1>0
<1> HIDE DEF o
<1>6. CASE pops /\ x < 0
  <2> DEFINE p == Outcome(db, TRUE, Nil)
  <2>1. IsOutcome(p) /\ p.db = db
    BY DEF Outcome, IsOutcome
  <2>2. o = [p EXCEPT !.dead = TRUE]
    BY <1>5, <1>6
  <2> HIDE DEF p
  <2>3. o = [db |-> p.db, ok |-> p.ok, reply |-> p.reply, dead |-> TRUE, silent |-> p.silent]
    BY <2>1, <2>2, ExceptOutcome
  <2>4. IsOutcome(o) /\ o.db = db /\ o.dead
    BY <2>1, <2>3 DEF IsOutcome
  <2>5. Holds(o)
    BY <2>4 DEF Holds
  <2> QED BY <1>6, <2>4, <2>5 DEF o
<1>7. CASE pops /\ ~(x < 0)
  <2>1. i > 0 /\ db[i].type = "LIST" /\ list = db[i].data /\ i \in 1 .. Len(db) /\ db[i] \in Nodes /\ db[i].key = k
    BY <1>2, <1>4, <1>7
  <2>2. list \in Seq(Values) /\ db[i].expiry = 0 /\ Len(list) \in Nat
    BY <2>1, NodeFields, LenProperties
  <2>3. left \in Seq(Values) /\ Len(left) <= Len(list) /\ Len(left) \in Nat
    BY <2>2, <1>7, PopLeftType
  <2> DEFINE m == db[i]
             e == [db EXCEPT ![i].data = left]
  <2>4. [m EXCEPT !.data = left] = n
    <3>1. m = [key |-> k, type |-> "LIST", data |-> list, expiry |-> 0]
      BY <2>1, <2>2, NodeFields DEF Node
    <3> HIDE DEF m, left, list, k
    <3>2. [m EXCEPT !.data = left] = [key |-> k, type |-> "LIST", data |-> left, expiry |-> 0]
      BY ONLY <3>1
    <3> QED BY <3>2 DEF Node
  <2>5. e = [db EXCEPT ![i] = n]
    BY <2>4
  <2>6. n.key = k /\ n.type = "LIST" /\ n.data = left
    BY DEF Node
  <2> HIDE DEF left, list, x
  <2>7. n \in Nodes
    BY <1>1, <2>3, MakesNode
  <2> HIDE DEF n, e
  <2>8. IsStore(e) /\ Range(e) = Others(Range(db), n.key) \cup {n} /\ Len(e) = Len(db)
    BY <2>1, <2>5, <2>6, <2>7, ReplaceStore
  <2> DEFINE S == Others(Range(db), k) \cup {n}
             d == touch_lru(e, i)
  <2>9. IsStore(d) /\ Range(d) = S
    BY <2>1, <2>6, <2>8, TouchStore
  <2>10. o = Outcome(d, TRUE, answer)
    BY <1>5, <1>7 DEF e
  <2> HIDE DEF d, answer
  <2>11. IsOutcome(o) /\ o.db = d /\ o.ok /\ ~o.dead /\ o.silent = {}
    BY <2>10 DEF Outcome, IsOutcome
  <2>12. Weight(n) <= Weight(m)
    <3>1. Elements(n) = Len(left) /\ Elements(m) = Len(list)
      BY <2>1, <2>6 DEF Elements
    <3> QED BY <3>1, <2>2, <2>3, WeightAssumption DEF Weight
  <2>13. Total(S) <= LRU_MAX_MEMORY
    <3>1. LET T == Others(Range(db), n.key)
              j == Find(db, n.key)
          IN /\ Total(T) \in Nat /\ Weight(n) \in Nat /\ Total(T \cup {n}) = Weight(n) + Total(T)
             /\ j > 0 => Usage(db) = Weight(db[j]) + Total(T)
      BY <2>7, PutTotal
    <3>2. Total(S) = Weight(n) + Total(Others(Range(db), k)) /\ Usage(db) = Weight(m) + Total(Others(Range(db), k))
          /\ Total(Others(Range(db), k)) \in Nat /\ Weight(n) \in Nat
      BY <3>1, <2>1, <2>6
    <3>3. Weight(m) \in Nat
      BY <2>1, NodeWeighs
    <3> HIDE DEF S, m
    <3> QED BY <3>2, <3>3, <2>12, WeightAssumption
  <2>14. Puts(o, S)
    BY <2>9, <2>11, <2>13, UsageTotal DEF Puts
  <2> QED BY <1>7, <2>6, <2>7, <2>11, <2>14, PutsHolds DEF o, n, left, list, x
<1> QED BY <1>3, <1>6, <1>7

\* The nodes DEL leaves.
Spared(S, c) == {n \in S : n.key \notin {c.key} \cup Range(c.args)}

\* DEL (commands.cpp:366).
LEMMA DelEffect ==
  ASSUME NEW db, IsStore(db), Usage(db) <= LRU_MAX_MEMORY, NEW c
  PROVE  LET o == command_del(db, c)
         IN /\ Holds(o) /\ ~o.dead /\ o.silent = {}
            /\ Range(o.db) = Spared(Range(db), c)
            /\ ~o.ok => Range(o.db) = Range(db)
<1> DEFINE gone == {c.key} \cup Range(c.args)
           T == {n \in Range(db) : n.key \notin gone}
           kept == Keep(db, T)
           o == command_del(db, c)
<1>1. db \in Seq(Nodes) /\ Len(db) \in Nat /\ Range(db) \in SUBSET Nodes /\ IsFiniteSet(Range(db))
      /\ Cardinality(Range(db)) = Len(db)
  BY StoreNodes, StoreSize
<1>2. kept \in Seq(Nodes) /\ IsStore(kept) /\ Range(kept) = Range(db) \cap T
  BY <1>1, KeepRange
<1>3. Range(kept) = T /\ Range(kept) \in SUBSET Range(db)
  BY <1>2
<1>4. Len(kept) = Cardinality(Range(kept))
  BY <1>2, StoreSize
<1>5. /\ Cardinality(Range(db)) - Cardinality(Range(kept)) \in Nat
      /\ ~(Cardinality(Range(db)) - Cardinality(Range(kept)) > 0) => Range(kept) = Range(db)
  BY <1>1, <1>3, SameSize
<1>6. o = Outcome(kept, Len(db) - Len(kept) > 0, send_integer(Len(db) - Len(kept)))
  BY DEF command_del
<1> HIDE DEF kept, o
<1> DEFINE b == Len(db) - Len(kept) > 0
           r == send_integer(Len(db) - Len(kept))
<1>7. IsOutcome(o) /\ o.db = kept /\ (o.ok <=> Len(db) - Len(kept) > 0) /\ ~o.dead /\ o.silent = {}
  <2>1. b \in BOOLEAN /\ o = Outcome(kept, b, r)
    BY <1>6
  <2> HIDE DEF b, r
  <2>2. IsOutcome(o) /\ o.db = kept /\ o.ok = b /\ ~o.dead /\ o.silent = {}
    BY <2>1 DEF Outcome, IsOutcome
  <2> QED BY <2>2 DEF b
<1>8. Usage(kept) <= LRU_MAX_MEMORY
  <2>1. Total(Range(kept)) <= Total(Range(db)) /\ Total(Range(kept)) \in Nat /\ Total(Range(db)) \in Nat
    BY <1>1, <1>3, TotalMonotone
  <2> QED BY <2>1, UsageTotal, WeightAssumption
<1>9. Holds(o)
  BY <1>2, <1>7, <1>8 DEF Holds
<1>10. ~o.ok => Range(o.db) = Range(db)
  BY <1>1, <1>4, <1>5, <1>7
<1>11. T = Spared(Range(db), c)
  BY DEF Spared
<1> HIDE DEF T
<1> QED BY <1>3, <1>7, <1>9, <1>10, <1>11 DEF o

\* HSET on a hash (commands.cpp:470).
LEMMA HsetExistingEffect ==
  ASSUME NEW db, IsStore(db), NEW i \in 1 .. Len(db), db[i].type = "HASH", NEW c \in CommandType
  PROVE  LET o == HsetExisting(db, i, c)
             old == db[i].data
             new == Filled(old, c.args)
             n == Node(db[i].key, "HASH", new, 0)
             S == Others(Range(db), n.key) \cup {n}
         IN /\ Holds(o) /\ n \in Nodes /\ n.key = db[i].key
            /\ ~o.ok => DOMAIN new = DOMAIN old
            /\ o.silent = {} => Total(S) <= LRU_MAX_MEMORY /\ (~o.ok => new = old)
            /\ Total(S) <= LRU_MAX_MEMORY => ~o.dead /\ Range(o.db) = S
<1> DEFINE m == db[i]
           old == m.data
           new == Filled(old, c.args)
           created == Cardinality(DOMAIN new) - Cardinality(DOMAIN old)
           w == WithCount(db, i, new, created)
           x == w.silent \cup IF created = 0 /\ new # old THEN {"overwrite"} ELSE {}
           n == Node(m.key, "HASH", new, 0)
           S == Others(Range(db), n.key) \cup {n}
           o == HsetExisting(db, i, c)
<1>1. m \in Nodes /\ c.args \in Seq(Values)
  BY StoreNodes, CommandFields
<1>2. m.key \in Keys /\ old \in Hashes /\ m.expiry = 0
  BY <1>1, NodeFields
<1>3. new \in Hashes /\ DOMAIN old \subseteq DOMAIN new
  BY <1>1, <1>2, FilledType
<1>4. o = [w EXCEPT !.silent = x]
  BY DEF HsetExisting
<1>5. n.key = m.key
  BY DEF Node
<1> HIDE DEF new, old, o
<1>6. IsFiniteSet(DOMAIN new)
  BY <1>3, HashFields
<1>7. /\ created \in Nat
      /\ ~(created > 0) => DOMAIN old = DOMAIN new
  BY <1>3, <1>6, SameSize
<1> HIDE DEF created
<1>8. n \in Nodes
  BY <1>2, <1>3, MakesNode
<1>9. Node(m.key, m.type, new, m.expiry) = n
  BY <1>2
<1> HIDE DEF n
<1>10. Puts(w, S) /\ w.ok = (created > 0)
  <2>1. LET l == Node(db[i].key, db[i].type, new, db[i].expiry)
            T == Others(Range(db), l.key) \cup {l}
        IN \A y \in Int : Puts(WithCount(db, i, new, y), T) /\ WithCount(db, i, new, y).ok = (y > 0)
    BY <1>8, <1>9, DataPuts
  <2>2. created \in Int
    BY <1>7
  <2> QED BY <1>9, <2>1, <2>2
<1> HIDE DEF w, S
<1>11. IsOutcome(w)
  BY <1>10 DEF Puts
<1>12. o = [db |-> w.db, ok |-> w.ok, reply |-> w.reply, dead |-> w.dead, silent |-> x]
  BY <1>4, <1>11, ExceptOutcome
<1>13. IsOutcome(o) /\ o.db = w.db /\ o.dead = w.dead /\ o.silent = x /\ (o.ok <=> created > 0)
  BY <1>10, <1>11, <1>12 DEF IsOutcome
<1>14. Holds(o)
  BY <1>10, <1>13 DEF Puts, Holds
<1>15. ~o.ok => DOMAIN new = DOMAIN old
  BY <1>7, <1>13
<1>16. ASSUME o.silent = {} PROVE Total(S) <= LRU_MAX_MEMORY /\ (~o.ok => new = old)
  <2>1. w.silent = {} /\ ~(created = 0 /\ new # old)
    BY <1>13, <1>16
  <2> QED BY <2>1, <1>7, <1>10, <1>13 DEF Puts
<1>17. Total(S) <= LRU_MAX_MEMORY => ~o.dead /\ Range(o.db) = S
  BY <1>10, <1>13 DEF Puts
<1> QED BY <1>5, <1>8, <1>14, <1>15, <1>16, <1>17 DEF o, new, old, n, S

\* HSET (commands.cpp:456).
LEMMA HsetEffect ==
  ASSUME NEW db, IsStore(db), Usage(db) <= LRU_MAX_MEMORY, NEW c \in CommandType
  PROVE  LET o == command_hset(db, c)
             old == DataAt(db, c.key, <<>>)
             new == Filled(old, c.args)
             n == Node(c.key, "HASH", new, 0)
             S == Others(Range(db), c.key) \cup {n}
             works == Len(c.args) % 2 = 0 /\ Fits(db, c.key, "HASH")
         IN /\ Holds(o)
            /\ ~works => Same(o, db)
            /\ works => /\ n \in Nodes /\ n.key = c.key
                        /\ o.silent = {} /\ ~o.dead =>
                             /\ Total(S) <= LRU_MAX_MEMORY /\ Range(o.db) = S
                             /\ ~o.ok => new = old
                        /\ Total(S) <= LRU_MAX_MEMORY => ~o.dead /\ Range(o.db) = S
<1> DEFINE k == c.key
           i == Find(db, k)
           old == DataAt(db, k, <<>>)
           new == Filled(old, c.args)
           n == Node(k, "HASH", new, 0)
           S == Others(Range(db), k) \cup {n}
           works == Len(c.args) % 2 = 0 /\ Fits(db, k, "HASH")
           e == Node(k, "HASH", <<>>, 0)
           added == add_lru(db, e, Nil)
           j == Find(added.db, k)
           done == HsetExisting(added.db, j, c)
           o == command_hset(db, c)
<1>1. k \in Keys /\ c.args \in Seq(Values)
  BY CommandFields
<1>2. /\ i \in 0 .. Len(db) /\ Len(db) \in Nat
      /\ i > 0 => i \in 1 .. Len(db) /\ db[i].key = k /\ db[i] \in Nodes
      /\ i = 0 => \A m \in Range(db) : m.key # k
  BY FindNode, StoreNodes
<1>3. o = IF Len(c.args) % 2 # 0 THEN Read(db, Error("ERR"))
          ELSE IF i = 0
          THEN IF j = 0 THEN [added EXCEPT !.dead = TRUE]
               ELSE [done EXCEPT !.silent = done.silent \cup added.silent]
          ELSE IF db[i].type # "HASH" THEN Refused(db)
          ELSE HsetExisting(db, i, c)
  BY Zenon DEF command_hset
<1> HIDE DEF o, done, added
<1>4. CASE ~works
  <2>1. Len(c.args) % 2 # 0 \/ (i # 0 /\ db[i].type # "HASH")
    BY <1>4 DEF Fits
  <2>2. o = Read(db, Error("ERR")) \/ o = Refused(db)
    BY <1>3, <2>1
  <2>3. Same(o, db)
    BY <2>2, ReadSame DEF Refused
  <2> QED BY <1>4, <2>3, SameHolds DEF o
<1>5. CASE works /\ i # 0
  <2>1. i \in 1 .. Len(db) /\ db[i].key = k /\ db[i].type = "HASH" /\ old = db[i].data
    BY <1>2, <1>5 DEF Fits, DataAt
  <2>2. o = HsetExisting(db, i, c)
    BY <1>3, <1>5, <2>1
  <2> HIDE DEF i
  <2>3. LET p == HsetExisting(db, i, c)
            ol == db[i].data
            ne == Filled(ol, c.args)
            l == Node(db[i].key, "HASH", ne, 0)
            T == Others(Range(db), l.key) \cup {l}
        IN /\ Holds(p) /\ l \in Nodes /\ l.key = db[i].key
           /\ p.silent = {} => Total(T) <= LRU_MAX_MEMORY /\ (~p.ok => ne = ol)
           /\ Total(T) <= LRU_MAX_MEMORY => ~p.dead /\ Range(p.db) = T
    BY <2>1, HsetExistingEffect
  <2> HIDE DEF old
  <2>4. /\ Holds(o) /\ n \in Nodes /\ n.key = k
        /\ o.silent = {} => Total(S) <= LRU_MAX_MEMORY /\ (~o.ok => new = old)
        /\ Total(S) <= LRU_MAX_MEMORY => ~o.dead /\ Range(o.db) = S
    BY <2>1, <2>2, <2>3
  <2> QED BY <1>5, <2>4 DEF o, old
<1>6. CASE works /\ i = 0
  <2>1. old = <<>> /\ <<>> \in Hashes
    BY <1>6, EmptyHash DEF DataAt
  <2>2. e \in Nodes /\ e.key = k /\ e.type = "HASH" /\ e.data = <<>>
    BY <1>1, <2>1, MakesNode DEF Node
  <2>3. new \in Hashes
    BY <1>1, <2>1, FilledType
  <2> HIDE DEF old
  <2>4. n \in Nodes /\ n.key = k /\ n.type = "HASH" /\ n.data = new
    BY <1>1, <2>3, MakesNode DEF Node
  <2> HIDE DEF new
  <2> DEFINE R == Others(Range(db), k)
             U == R \cup {e}
  <2>5. Puts(added, U) /\ added.dead = FALSE
    <3>1. \A m \in Range(db) : m.key # e.key
      BY <1>2, <1>6, <2>2
    <3> HIDE DEF e
    <3>2. Puts(add_lru(db, e, Nil), Others(Range(db), e.key) \cup {e}) /\ ~add_lru(db, e, Nil).dead
      BY <2>2, <3>1, AddPuts
    <3>3. add_lru(db, e, Nil).dead \in BOOLEAN
      BY <3>2 DEF Puts, IsOutcome
    <3> QED BY <2>2, <3>2, <3>3 DEF added
  <2>6. /\ IsStore(added.db) /\ Range(added.db) \subseteq U /\ IsOutcome(added)
        /\ Usage(added.db) <= LRU_MAX_MEMORY
        /\ Total(U) <= LRU_MAX_MEMORY => added.silent = {} /\ Range(added.db) = U
        /\ added.silent = {} => Total(U) <= LRU_MAX_MEMORY
    BY <2>5 DEF Puts
  <2>7. Total(S) <= LRU_MAX_MEMORY => Total(U) <= LRU_MAX_MEMORY
    <3>1. Elements(e) = 0
      BY <2>2, EmptyHash, FS_EmptySet DEF Elements
    <3>2. Weight(e) <= Weight(n)
      <4>1. Elements(n) \in Nat /\ Weight(n) = NodeWeight + Elements(n)
        BY <2>4, NodeWeighs
      <4> QED BY <3>1, <4>1, WeightAssumption DEF Weight
    <3> HIDE DEF n, e
    <3>3. LET T == Others(Range(db), n.key)
          IN Total(T) \in Nat /\ Weight(n) \in Nat /\ Total(T \cup {n}) = Weight(n) + Total(T)
      BY <2>4, PutTotal
    <3>4. LET T == Others(Range(db), e.key)
          IN Total(T) \in Nat /\ Weight(e) \in Nat /\ Total(T \cup {e}) = Weight(e) + Total(T)
      BY <2>2, PutTotal
    <3>5. /\ Total(R) \in Nat /\ Weight(n) \in Nat /\ Weight(e) \in Nat
          /\ Total(S) = Weight(n) + Total(R) /\ Total(U) = Weight(e) + Total(R)
      BY <3>3, <3>4, <2>2, <2>4
    <3> HIDE DEF S, U, R
    <3> QED BY <3>2, <3>5, WeightAssumption
  <2>8. /\ j \in 0 .. Len(added.db)
        /\ j > 0 => /\ j \in 1 .. Len(added.db) /\ added.db[j].key = k
                    /\ added.db[j] \in Range(added.db)
        /\ j = 0 => \A m \in Range(added.db) : m.key # k
    BY <2>6, FindNode
  <2> HIDE DEF j
  <2>9. CASE j = 0
    <3>1. o = [added EXCEPT !.dead = TRUE]
      BY <1>3, <1>6, <2>9
    <3>2. o = [db |-> added.db, ok |-> added.ok, reply |-> added.reply, dead |-> TRUE, silent |-> added.silent]
      BY <3>1, <2>6, ExceptOutcome
    <3>3. IsOutcome(o) /\ o.db = added.db /\ o.dead
      BY <3>2, <2>6 DEF IsOutcome
    <3>4. Holds(o)
      BY <3>3, <2>6 DEF Holds
    <3>5. ~(Total(S) <= LRU_MAX_MEMORY)
      BY <2>2, <2>6, <2>7, <2>8, <2>9
    <3> HIDE DEF n, S
    <3> QED BY <1>6, <2>4, <3>3, <3>4, <3>5 DEF o, old, new, n, S
  <2>10. CASE j # 0
    <3>1. j \in 1 .. Len(added.db) /\ added.db[j] \in U /\ added.db[j].key = k
      BY <2>6, <2>8, <2>10
    <3>2. added.db[j] = e
      BY <3>1 DEF Others
    <3> DEFINE a == added.db
               V == Others(Range(a), k) \cup {n}
    <3> HIDE DEF e
    <3>3. /\ Holds(done)
          /\ done.silent = {} => Total(V) <= LRU_MAX_MEMORY /\ (~done.ok => new = old)
          /\ Total(V) <= LRU_MAX_MEMORY => ~done.dead /\ Range(done.db) = V
      <4>0. IsStore(a) /\ j \in 1 .. Len(a) /\ a[j].type = "HASH"
        BY <2>2, <2>6, <3>1, <3>2
      <4> HIDE DEF a
      <4>1. LET p == HsetExisting(a, j, c)
                ol == a[j].data
                ne == Filled(ol, c.args)
                l == Node(a[j].key, "HASH", ne, 0)
                T == Others(Range(a), l.key) \cup {l}
            IN /\ Holds(p) /\ l \in Nodes /\ l.key = a[j].key
               /\ p.silent = {} => Total(T) <= LRU_MAX_MEMORY /\ (~p.ok => ne = ol)
               /\ Total(T) <= LRU_MAX_MEMORY => ~p.dead /\ Range(p.db) = T
        BY <4>0, HsetExistingEffect
      <4>2. a[j].data = old /\ a[j].key = k /\ Filled(old, c.args) = new
        BY <2>1, <2>2, <3>2 DEF new, a
      <4> QED BY <4>1, <4>2, <2>4 DEF done, a
    <3>4. o = [done EXCEPT !.silent = done.silent \cup added.silent]
      BY <1>3, <1>6, <2>10
    <3>5. IsOutcome(done)
      BY <3>3 DEF Holds
    <3> DEFINE x == done.silent \cup added.silent
    <3> HIDE DEF x
    <3>6. o = [db |-> done.db, ok |-> done.ok, reply |-> done.reply, dead |-> done.dead, silent |-> x]
      BY <3>4, <3>5, ExceptOutcome DEF x
    <3>7. IsOutcome(o) /\ o.db = done.db /\ o.dead = done.dead /\ o.silent = x /\ o.ok = done.ok
      BY <3>5, <3>6 DEF IsOutcome
    <3>8. Holds(o)
      BY <3>3, <3>7 DEF Holds
    <3>9. Range(a) = U => V = S
      BY <2>2 DEF Others
    <3>10. ASSUME o.silent = {}
           PROVE  Total(S) <= LRU_MAX_MEMORY /\ Range(o.db) = S /\ (~o.ok => new = old)
      <4>1. done.silent = {} /\ added.silent = {}
        BY <3>7, <3>10 DEF x
      <4>2. V = S
        BY <4>1, <2>6, <3>9
      <4> HIDE DEF V, S
      <4> QED BY <4>1, <4>2, <3>3, <3>7
    <3>11. ASSUME Total(S) <= LRU_MAX_MEMORY PROVE ~o.dead /\ Range(o.db) = S
      <4>1. V = S
        BY <3>11, <2>6, <2>7, <3>9
      <4> HIDE DEF V, S
      <4> QED BY <4>1, <3>3, <3>7, <3>11
    <3> HIDE DEF n, S
    <3> QED BY <1>6, <2>4, <3>8, <3>10, <3>11 DEF o, old, new, n, S
  <2> QED BY <2>9, <2>10
<1> QED BY <1>4, <1>5, <1>6

\* What a command that changes a hash or a set promises: it puts the new data
\* under its key, and is logged if that is a change.
Changes(o, db, k, type, old, new) ==
  LET n == Node(k, type, new, 0)
  IN /\ n \in Nodes /\ n.key = k
     /\ Puts(o, Others(Range(db), k) \cup {n})
     /\ ~o.ok => new = old

\* SADD (commands.cpp:802).
LEMMA SaddEffect ==
  ASSUME NEW db, IsStore(db), Usage(db) <= LRU_MAX_MEMORY, NEW c \in CommandType
  PROVE  LET o == command_sadd(db, c)
             old == DataAt(db, c.key, {})
         IN /\ Holds(o)
            /\ ~Fits(db, c.key, "SET") => Same(o, db)
            /\ Fits(db, c.key, "SET") => Changes(o, db, c.key, "SET", old, old \cup Range(c.args))
<1> DEFINE k == c.key
           i == Find(db, k)
           old == DataAt(db, k, {})
           new == old \cup Range(c.args)
           n == Node(k, "SET", new, 0)
           o == command_sadd(db, c)
<1>1. k \in Keys /\ Range(c.args) \in Finite
  BY CommandFields
<1>2. /\ i \in 0 .. Len(db) /\ Len(db) \in Nat
      /\ i > 0 => i \in 1 .. Len(db) /\ db[i].key = k /\ db[i] \in Nodes
      /\ i = 0 => \A m \in Range(db) : m.key # k
  BY FindNode, StoreNodes
<1>3. o = IF i = 0 THEN add_lru(db, Node(k, "SET", Range(c.args), 0), send_integer(Cardinality(Range(c.args))))
          ELSE IF db[i].type # "SET" THEN Refused(db)
          ELSE WithCount(db, i, db[i].data \cup Range(c.args),
                         Cardinality(db[i].data \cup Range(c.args)) - Cardinality(db[i].data))
  BY Zenon DEF command_sadd
<1>4. n.key = k
  BY DEF Node
<1> HIDE DEF o
<1>5. CASE i > 0 /\ db[i].type # "SET"
  <2>1. Same(o, db)
    BY <1>3, <1>5, ReadSame DEF Refused
  <2>2. ~Fits(db, k, "SET")
    BY <1>5 DEF Fits
  <2> QED BY <2>1, <2>2, SameHolds DEF o
<1>6. CASE i = 0
  <2>1. old = {}
    BY <1>6 DEF DataAt
  <2>2. new = Range(c.args) /\ new \in Finite
    BY <1>1, <2>1
  <2> HIDE DEF new, old
  <2>3. n \in Nodes
    BY <1>1, <2>2, MakesNode
  <2>4. \A m \in Range(db) : m.key # n.key
    BY <1>2, <1>4, <1>6
  <2> HIDE DEF n
  <2> DEFINE r == send_integer(Cardinality(Range(c.args)))
             p == add_lru(db, n, r)
  <2> HIDE DEF r
  <2>5. Puts(p, Others(Range(db), n.key) \cup {n}) /\ p.ok = TRUE
    BY <2>3, <2>4, AddPuts
  <2>6. o = p
    BY <1>3, <1>6, <2>2 DEF n, r
  <2> HIDE DEF p
  <2>7. Puts(o, Others(Range(db), k) \cup {n}) /\ o.ok
    BY <1>4, <2>5, <2>6
  <2>8. Changes(o, db, k, "SET", old, new)
    BY <2>3, <2>7, <1>4 DEF Changes, n
  <2>9. Fits(db, k, "SET")
    BY <1>6 DEF Fits
  <2> QED BY <2>7, <2>8, <2>9, PutsHolds DEF o, new, old
<1>7. CASE i > 0 /\ db[i].type = "SET"
  <2>1. db[i].data \in Finite /\ db[i].expiry = 0 /\ i \in 1 .. Len(db) /\ db[i].key = k
    BY <1>2, <1>7, NodeFields
  <2>2. old = db[i].data
    BY <1>7 DEF DataAt
  <2>3. new \in Finite
    BY <1>1, <2>1, <2>2, FS_Union DEF Finite
  <2> DEFINE x == Cardinality(new) - Cardinality(old)
  <2>4. o = WithCount(db, i, new, x)
    BY <1>3, <1>7, <2>2
  <2>5. old \in SUBSET new
    OBVIOUS
  <2> HIDE DEF new, old
  <2>6. x \in Int /\ (~(x > 0) => new = old)
    <3>1. IsFiniteSet(new)
      BY <2>3 DEF Finite
    <3> QED BY <2>5, <3>1, SameSize
  <2> HIDE DEF x
  <2>7. n \in Nodes
    BY <1>1, <2>3, MakesNode
  <2>8. Node(db[i].key, db[i].type, new, db[i].expiry) = n
    BY <1>7, <2>1
  <2> HIDE DEF n
  <2>9. LET l == Node(db[i].key, db[i].type, new, db[i].expiry)
            T == Others(Range(db), l.key) \cup {l}
        IN \A y \in Int : Puts(WithCount(db, i, new, y), T) /\ WithCount(db, i, new, y).ok = (y > 0)
    BY <2>1, <2>7, <2>8, DataPuts
  <2>10. Puts(o, Others(Range(db), k) \cup {n}) /\ o.ok = (x > 0)
    BY <1>4, <2>4, <2>6, <2>8, <2>9
  <2>11. Changes(o, db, k, "SET", old, new)
    BY <2>6, <2>7, <2>10, <1>4 DEF Changes, n
  <2>12. Fits(db, k, "SET")
    BY <1>7 DEF Fits
  <2> QED BY <2>10, <2>11, <2>12, PutsHolds DEF o, new, old
<1> QED BY <1>2, <1>5, <1>6, <1>7

\* SDEL (commands.cpp:820).
LEMMA SdelEffect ==
  ASSUME NEW db, IsStore(db), Usage(db) <= LRU_MAX_MEMORY, NEW c \in CommandType
  PROVE  LET o == command_sdel(db, c)
             old == DataAt(db, c.key, {})
         IN /\ Holds(o)
            /\ ~Has(db, c.key, "SET") => Same(o, db)
            /\ Has(db, c.key, "SET") => Changes(o, db, c.key, "SET", old, old \ Range(c.args))
<1> DEFINE k == c.key
           i == Find(db, k)
           old == DataAt(db, k, {})
           new == old \ Range(c.args)
           n == Node(k, "SET", new, 0)
           o == command_sdel(db, c)
<1>1. k \in Keys
  BY CommandFields
<1>2. /\ i \in 0 .. Len(db) /\ Len(db) \in Nat
      /\ i > 0 => i \in 1 .. Len(db) /\ db[i].key = k /\ db[i] \in Nodes
  BY FindNode, StoreNodes
<1>3. o = IF i = 0 THEN Read(db, Error("ERR"))
          ELSE IF db[i].type # "SET" THEN Refused(db)
          ELSE WithCount(db, i, db[i].data \ Range(c.args),
                         Cardinality(db[i].data) - Cardinality(db[i].data \ Range(c.args)))
  BY Zenon DEF command_sdel
<1>4. n.key = k
  BY DEF Node
<1> HIDE DEF o
<1>5. CASE i = 0 \/ db[i].type # "SET"
  <2>1. Same(o, db)
    BY <1>3, <1>5, ReadSame DEF Refused
  <2>2. ~Has(db, k, "SET")
    BY <1>5 DEF Has
  <2> QED BY <2>1, <2>2, SameHolds DEF o
<1>7. CASE i > 0 /\ db[i].type = "SET"
  <2>1. db[i].data \in Finite /\ db[i].expiry = 0 /\ i \in 1 .. Len(db) /\ db[i].key = k
    BY <1>2, <1>7, NodeFields
  <2>2. old = db[i].data
    BY <1>7 DEF DataAt
  <2>3. new \in Finite /\ IsFiniteSet(old)
    BY <2>1, <2>2, FS_Subset DEF Finite
  <2> DEFINE x == Cardinality(old) - Cardinality(new)
  <2>4. o = WithCount(db, i, new, x)
    BY <1>3, <1>7, <2>2
  <2>5. new \in SUBSET old
    OBVIOUS
  <2> HIDE DEF new, old
  <2>6. x \in Int /\ (~(x > 0) => new = old)
    BY <2>3, <2>5, SameSize
  <2> HIDE DEF x
  <2>7. n \in Nodes
    BY <1>1, <2>3, MakesNode
  <2>8. Node(db[i].key, db[i].type, new, db[i].expiry) = n
    BY <1>7, <2>1
  <2> HIDE DEF n
  <2>9. LET l == Node(db[i].key, db[i].type, new, db[i].expiry)
            T == Others(Range(db), l.key) \cup {l}
        IN \A y \in Int : Puts(WithCount(db, i, new, y), T) /\ WithCount(db, i, new, y).ok = (y > 0)
    BY <2>1, <2>7, <2>8, DataPuts
  <2>10. Puts(o, Others(Range(db), k) \cup {n}) /\ o.ok = (x > 0)
    BY <1>4, <2>4, <2>6, <2>8, <2>9
  <2>11. Changes(o, db, k, "SET", old, new)
    BY <2>6, <2>7, <2>10, <1>4 DEF Changes, n
  <2>12. Has(db, k, "SET")
    BY <1>7 DEF Has
  <2> QED BY <2>10, <2>11, <2>12, PutsHolds DEF o, new, old
<1> QED BY <1>2, <1>5, <1>7

\* The fields left after HDEL.
Without(h, F) == [f \in DOMAIN h \ F |-> h[f]]

\* HDEL (commands.cpp:533).
LEMMA HdelEffect ==
  ASSUME NEW db, IsStore(db), Usage(db) <= LRU_MAX_MEMORY, NEW c \in CommandType
  PROVE  LET o == command_hdel(db, c)
             old == DataAt(db, c.key, <<>>)
         IN /\ Holds(o)
            /\ ~Has(db, c.key, "HASH") => Same(o, db)
            /\ Has(db, c.key, "HASH") => Changes(o, db, c.key, "HASH", old, Without(old, Range(c.args)))
<1> DEFINE k == c.key
           i == Find(db, k)
           old == DataAt(db, k, <<>>)
           new == Without(old, Range(c.args))
           n == Node(k, "HASH", new, 0)
           o == command_hdel(db, c)
<1>1. k \in Keys
  BY CommandFields
<1>2. /\ i \in 0 .. Len(db) /\ Len(db) \in Nat
      /\ i > 0 => i \in 1 .. Len(db) /\ db[i].key = k /\ db[i] \in Nodes
  BY FindNode, StoreNodes
<1>3. o = IF i = 0 THEN Read(db, send_integer(0))
          ELSE IF db[i].type # "HASH" THEN Refused(db)
          ELSE WithCount(db, i, Without(db[i].data, Range(c.args)),
                         Cardinality(DOMAIN db[i].data) - Cardinality(DOMAIN Without(db[i].data, Range(c.args))))
  BY Zenon DEF command_hdel, Without
<1>4. n.key = k
  BY DEF Node
<1> HIDE DEF o
<1>5. CASE i = 0 \/ db[i].type # "HASH"
  <2>1. Same(o, db)
    BY <1>3, <1>5, ReadSame DEF Refused
  <2>2. ~Has(db, k, "HASH")
    BY <1>5 DEF Has
  <2> QED BY <2>1, <2>2, SameHolds DEF o
<1>7. CASE i > 0 /\ db[i].type = "HASH"
  <2>1. db[i].data \in Hashes /\ db[i].expiry = 0 /\ i \in 1 .. Len(db) /\ db[i].key = k
    BY <1>2, <1>7, NodeFields
  <2>2. old = db[i].data
    BY <1>7 DEF DataAt
  <2> DEFINE x == Cardinality(DOMAIN old) - Cardinality(DOMAIN new)
  <2>4. o = WithCount(db, i, new, x)
    BY <1>3, <1>7, <2>2
  <2> HIDE DEF old
  <2>3. DOMAIN old \in Finite /\ old \in [DOMAIN old -> Values] /\ IsFiniteSet(DOMAIN old)
    BY <2>1, <2>2, HashFields
  <2>5. /\ DOMAIN new \in SUBSET DOMAIN old /\ new \in [DOMAIN new -> Values]
        /\ \A f \in DOMAIN new : new[f] = old[f]
    BY <2>3 DEF Without
  <2> HIDE DEF new
  <2>13. new \in Hashes
    <3>1. DOMAIN new \in Finite
      BY <2>3, <2>5, FS_Subset DEF Finite
    <3> QED BY <3>1, <2>5 DEF Hashes
  <2>14. DOMAIN new = DOMAIN old => new = old
    BY <2>3, <2>5
  <2>6. x \in Int /\ (~(x > 0) => new = old)
    BY <2>3, <2>5, <2>14, SameSize
  <2> HIDE DEF x
  <2>7. n \in Nodes
    BY <1>1, <2>13, MakesNode
  <2>8. Node(db[i].key, db[i].type, new, db[i].expiry) = n
    BY <1>7, <2>1
  <2> HIDE DEF n
  <2>9. LET l == Node(db[i].key, db[i].type, new, db[i].expiry)
            T == Others(Range(db), l.key) \cup {l}
        IN \A y \in Int : Puts(WithCount(db, i, new, y), T) /\ WithCount(db, i, new, y).ok = (y > 0)
    BY <2>1, <2>7, <2>8, DataPuts
  <2>10. Puts(o, Others(Range(db), k) \cup {n}) /\ o.ok = (x > 0)
    BY <1>4, <2>4, <2>6, <2>8, <2>9
  <2>11. Changes(o, db, k, "HASH", old, new)
    BY <2>6, <2>7, <2>10, <1>4 DEF Changes, n
  <2>12. Has(db, k, "HASH")
    BY <1>7 DEF Has
  <2> QED BY <2>10, <2>11, <2>12, PutsHolds DEF o, new, old
<1> QED BY <1>2, <1>5, <1>7

\* The commands that only read.
LEMMA QueryEffect ==
  ASSUME NEW db, IsStore(db), NEW c, NEW t,
         c.op \notin {"SET", "GET", "LPUSH", "RPUSH", "LPOP", "RPOP", "DEL", "HSET", "HDEL", "SADD", "SDEL"}
  PROVE  Same(Execute(db, c, t), db)
<1> DEFINE i == Find(db, c.key)
           o == Execute(db, c, t)
<1>1. i \in 0 .. Len(db) /\ (i > 0 => i \in 1 .. Len(db)) /\ Len(db) \in Nat
  BY FindNode, StoreNodes
<1>2. ASSUME NEW p, (\E r : p = Read(db, r)) \/ (i # 0 /\ \E r : p = Read(touch_lru(db, i), r))
      PROVE  Same(p, db)
  <2>1. i # 0 => i \in 1 .. Len(db)
    BY <1>1
  <2> HIDE DEF i
  <2> QED BY <1>2, <2>1, ReadSame, TouchSame
<1> DEFINE Q(p) == (\E r : p = Read(db, r)) \/ (i # 0 /\ \E r : p = Read(touch_lru(db, i), r))
<1>3. Q(command_lrange(db, c))
  BY Zenon DEF command_lrange, Refused
<1>4. Q(command_llen(db, c))
  BY Zenon DEF command_llen, Refused
<1>5. Q(command_hget(db, c))
  BY Zenon DEF command_hget, Refused
<1>6. Q(command_hgetall(db, c))
  BY Zenon DEF command_hgetall, Refused
<1>7. Q(command_hlen(db, c)) /\ Q(command_scard(db, c)) /\ Q(command_sismember(db, c))
      /\ Q(command_smembers(db, c)) /\ Q(command_smismember(db, c))
  BY Zenon DEF command_hlen, command_scard, command_sismember, command_smembers, command_smismember, Untouched
<1>8. Q(command_sinter(db, c))
  BY Zenon DEF command_sinter
<1>9. Q(command_sunion(db, c)) /\ Q(command_sdiff(db, c)) /\ Q(command_memstats(db))
  BY Zenon DEF command_sunion, command_sdiff, command_memstats
<1>10. \A r : Q(Read(db, r))
  BY Zenon
<1> HIDE DEF Q
<1>11. Q(o)
  BY <1>3, <1>4, <1>5, <1>6, <1>7, <1>8, <1>9, <1>10 DEF Execute
<1> QED BY <1>2, <1>11 DEF Q

\* Every command leaves a store, and one within the limit.
LEMMA ExecuteHolds ==
  ASSUME NEW db, IsStore(db), Usage(db) <= LRU_MAX_MEMORY, NEW c \in CommandType, NEW t \in Int
  PROVE  Holds(Execute(db, c, t))
<1>1. CASE c.op = "SET"
  BY <1>1, SetEffect DEF Execute
<1>2. CASE c.op = "GET"
  BY <1>2, GetEffect DEF Execute
<1>3. CASE c.op = "LPUSH"
  BY <1>3, PushEffect DEF Execute
<1>4. CASE c.op = "RPUSH"
  BY <1>4, PushEffect DEF Execute
<1>5. CASE c.op = "LPOP"
  BY <1>5, PopEffect DEF Execute
<1>6. CASE c.op = "RPOP"
  BY <1>6, PopEffect DEF Execute
<1>7. CASE c.op = "DEL"
  BY <1>7, DelEffect DEF Execute
<1>8. CASE c.op = "HSET"
  BY <1>8, HsetEffect DEF Execute
<1>9. CASE c.op = "HDEL"
  BY <1>9, HdelEffect DEF Execute
<1>10. CASE c.op = "SADD"
  BY <1>10, SaddEffect DEF Execute
<1>11. CASE c.op = "SDEL"
  BY <1>11, SdelEffect DEF Execute
<1>12. CASE c.op \notin {"SET", "GET", "LPUSH", "RPUSH", "LPOP", "RPOP", "DEL", "HSET", "HDEL", "SADD", "SDEL"}
  <2>1. Same(Execute(db, c, t), db)
    BY <1>12, QueryEffect
  <2> QED BY <2>1, SameHolds
<1> QED BY <1>1, <1>2, <1>3, <1>4, <1>5, <1>6, <1>7, <1>8, <1>9, <1>10, <1>11, <1>12

(***************************************************************************)
(* A store that another one simulates.                                     *)
(***************************************************************************)

\* A client cannot find the node.
Hidden(n, t) == Expired(n, t) \/ ~(Elements(n) > 0)

\* R has the nodes of D, but for some that no client can find.
Sim(R, D, t) ==
  /\ IsStore(R) /\ IsStore(D) /\ Range(R) \subseteq Range(D)
  /\ \A n \in Range(D) \ Range(R) : Hidden(n, t)

\* The node of a key in R is that in D, or that in D is hidden.
LEMMA SimSlot ==
  ASSUME NEW R, NEW D, NEW t, Sim(R, D, t), NEW k
  PROVE  LET i == Find(D, k)
             j == Find(R, k)
         IN \/ i = 0 /\ j = 0
            \/ i > 0 /\ j > 0 /\ R[j] = D[i]
            \/ i > 0 /\ j = 0 /\ Hidden(D[i], t) /\ D[i] \in Nodes
<1> DEFINE i == Find(D, k)
           j == Find(R, k)
<1>1. /\ IsStore(R) /\ IsStore(D) /\ Range(R) \subseteq Range(D)
      /\ \A n \in Range(D) \ Range(R) : Hidden(n, t)
  BY DEF Sim
<1>2. /\ i \in 0 .. Len(D) /\ Len(D) \in Nat
      /\ i > 0 => /\ D[i].key = k /\ D[i] \in Nodes /\ D[i] \in Range(D)
                  /\ \A n \in Range(D) : n.key = k <=> n = D[i]
      /\ i = 0 => \A n \in Range(D) : n.key # k
  BY <1>1, FindNode, StoreNodes
<1>3. /\ j \in 0 .. Len(R) /\ Len(R) \in Nat
      /\ j > 0 => R[j].key = k /\ R[j] \in Range(R)
      /\ j = 0 => \A n \in Range(R) : n.key # k
  BY <1>1, FindNode, StoreNodes
<1> HIDE DEF i, j
<1>4. CASE i = 0
  <2>1. j = 0
    BY <1>1, <1>2, <1>3, <1>4
  <2> QED BY <1>4, <2>1 DEF i, j
<1>5. CASE i > 0 /\ j > 0
  <2>1. R[j] = D[i]
    BY <1>1, <1>2, <1>3, <1>5
  <2> QED BY <1>5, <2>1 DEF i, j
<1>6. CASE i > 0 /\ j = 0
  <2>1. Hidden(D[i], t) /\ D[i] \in Nodes
    BY <1>1, <1>2, <1>3, <1>6
  <2> QED BY <1>6, <2>1 DEF i, j
<1> QED BY <1>2, <1>3, <1>4, <1>5, <1>6

\* A container that is hidden is empty.
LEMMA HiddenEmpty ==
  ASSUME NEW n \in Nodes, NEW t, Hidden(n, t)
  PROVE  /\ n.type = "LIST" => n.data = <<>>
         /\ n.type = "HASH" => n.data = <<>>
         /\ n.type = "SET" => n.data = {}
<1>1. Elements(n) \in Nat
  BY NodeWeighs
<1>2. n.type # "STRING" => Elements(n) = 0
  BY <1>1, NodeFields DEF Hidden, Expired
<1>3. ASSUME n.type = "LIST" PROVE n.data = <<>>
  <2>1. Len(n.data) = 0 /\ n.data \in Seq(Values)
    BY <1>2, <1>3, NodeFields DEF Elements
  <2> QED BY <2>1, EmptySeq
<1>4. ASSUME n.type = "HASH" PROVE n.data = <<>>
  <2>1. Cardinality(DOMAIN n.data) = 0 /\ n.data \in Hashes
    BY <1>2, <1>4, NodeFields DEF Elements
  <2>2. DOMAIN n.data = {}
    BY <2>1, HashFields, FS_EmptySet
  <2> QED BY <2>1, <2>2, EmptyHash
<1>5. ASSUME n.type = "SET" PROVE n.data = {}
  <2>1. Cardinality(n.data) = 0 /\ n.data \in Finite
    BY <1>2, <1>5, NodeFields DEF Elements
  <2> QED BY <2>1, FS_EmptySet DEF Finite
<1> QED BY <1>3, <1>4, <1>5

\* What an empty container of a type is.
Nothing(type) == IF type = "SET" THEN {} ELSE <<>>

\* Where a command works on D it works on R, and on the same data.
LEMMA SimData ==
  ASSUME NEW R, NEW D, NEW t, Sim(R, D, t), NEW k, NEW type \in {"LIST", "HASH", "SET"},
         Fits(D, k, type)
  PROVE  /\ Fits(R, k, type)
         /\ DataAt(R, k, Nothing(type)) = DataAt(D, k, Nothing(type))
         /\ ~Has(R, k, type) => DataAt(D, k, Nothing(type)) = Nothing(type)
<1> DEFINE i == Find(D, k)
           j == Find(R, k)
<1>1. \/ i = 0 /\ j = 0
      \/ i > 0 /\ j > 0 /\ R[j] = D[i]
      \/ i > 0 /\ j = 0 /\ Hidden(D[i], t) /\ D[i] \in Nodes
  BY SimSlot
<1>2. i = 0 \/ D[i].type = type
  BY DEF Fits
<1>3. CASE i = 0 /\ j = 0
  BY <1>3 DEF Fits, DataAt
<1>4. CASE i > 0 /\ j > 0 /\ R[j] = D[i]
  BY <1>2, <1>4 DEF Fits, DataAt, Has
<1>5. CASE i > 0 /\ j = 0 /\ Hidden(D[i], t) /\ D[i] \in Nodes
  <2> DEFINE m == D[i]
  <2>2. m \in Nodes /\ Hidden(m, t) /\ m.type = type
    BY <1>2, <1>5
  <2> HIDE DEF m
  <2>3. /\ m.type = "LIST" => m.data = <<>>
        /\ m.type = "HASH" => m.data = <<>>
        /\ m.type = "SET" => m.data = {}
    BY <2>2, HiddenEmpty
  <2>4. m.data = Nothing(type)
    BY <2>2, <2>3 DEF Nothing
  <2>1. D[i].data = Nothing(type)
    BY <2>4 DEF m
  <2> QED BY <1>5, <2>1 DEF Fits, DataAt
<1> QED BY <1>1, <1>3, <1>4, <1>5

\* Changing the order of the nodes changes nothing.
LEMMA SimSame ==
  ASSUME NEW R, NEW D, NEW t, Sim(R, D, t),
         NEW Q, IsStore(Q), Range(Q) = Range(R), NEW E, IsStore(E), Range(E) = Range(D)
  PROVE  Sim(Q, E, t)
BY DEF Sim

\* The same node put into both.
LEMMA SimPut ==
  ASSUME NEW R, NEW D, NEW t, Sim(R, D, t), NEW n \in Nodes
  PROVE  LET A == Others(Range(R), n.key) \cup {n}
             B == Others(Range(D), n.key) \cup {n}
         IN /\ Total(B) <= LRU_MAX_MEMORY => Total(A) <= LRU_MAX_MEMORY
            /\ \A Q, E : IsStore(Q) /\ Range(Q) = A /\ IsStore(E) /\ Range(E) = B => Sim(Q, E, t)
<1> DEFINE A == Others(Range(R), n.key) \cup {n}
           B == Others(Range(D), n.key) \cup {n}
<1>1. /\ IsStore(R) /\ IsStore(D) /\ Range(R) \subseteq Range(D)
      /\ \A m \in Range(D) \ Range(R) : Hidden(m, t)
  BY DEF Sim
<1>2. A \in SUBSET B /\ \A m \in B \ A : Hidden(m, t)
  BY <1>1 DEF Others
<1>3. B \in SUBSET Nodes /\ IsFiniteSet(B)
  BY <1>1, PutTotal
<1> HIDE DEF A, B
<1>4. Total(A) <= Total(B) /\ Total(A) \in Nat /\ Total(B) \in Nat
  BY <1>2, <1>3, TotalMonotone
<1>5. Total(B) <= LRU_MAX_MEMORY => Total(A) <= LRU_MAX_MEMORY
  BY <1>4, WeightAssumption
<1>6. ASSUME NEW Q, NEW E, IsStore(Q), Range(Q) = A, IsStore(E), Range(E) = B PROVE Sim(Q, E, t)
  BY <1>2, <1>6 DEF Sim
<1> QED BY <1>5, <1>6 DEF A, B

\* What is within the limit in D is in R.
LEMMA SimUsage ==
  ASSUME NEW R, NEW D, NEW t, Sim(R, D, t), Usage(D) <= LRU_MAX_MEMORY
  PROVE  Usage(R) <= LRU_MAX_MEMORY
<1>1. IsStore(D) /\ Range(R) \in SUBSET Range(D)
  BY DEF Sim
<1>2. Range(D) \in SUBSET Nodes /\ IsFiniteSet(Range(D))
  BY <1>1, StoreNodes, StoreSize
<1>3. Total(Range(R)) <= Total(Range(D)) /\ Total(Range(R)) \in Nat /\ Total(Range(D)) \in Nat
  BY <1>1, <1>2, TotalMonotone
<1> QED BY <1>3, UsageTotal, WeightAssumption

\* Data put back where it was, or nothing where nothing was.
LEMMA SimNoChange ==
  ASSUME NEW R, NEW D, NEW t, Sim(R, D, t), NEW k, NEW type \in {"LIST", "HASH", "SET"},
         Fits(D, k, type), NEW E, IsStore(E),
         Range(E) = Others(Range(D), k) \cup {Node(k, type, DataAt(D, k, Nothing(type)), 0)}
  PROVE  /\ Sim(R, E, t)
         /\ Find(D, k) > 0 => Range(E) = Range(D)
<1> DEFINE i == Find(D, k)
           n == Node(k, type, DataAt(D, k, Nothing(type)), 0)
<1>1. /\ IsStore(R) /\ IsStore(D) /\ Range(R) \subseteq Range(D)
      /\ \A m \in Range(D) \ Range(R) : Hidden(m, t)
  BY DEF Sim
<1>2. /\ i \in 0 .. Len(D) /\ Len(D) \in Nat
      /\ i > 0 => /\ D[i].key = k /\ D[i] \in Nodes /\ D[i] \in Range(D)
                  /\ \A m \in Range(D) : m.key = k <=> m = D[i]
      /\ i = 0 => \A m \in Range(D) : m.key # k
  BY <1>1, FindNode, StoreNodes
<1>3. CASE i > 0
  <2>1. D[i].type = type /\ D[i].expiry = 0 /\ D[i] = Node(D[i].key, D[i].type, D[i].data, D[i].expiry)
    BY <1>2, <1>3, NodeFields DEF Fits
  <2>2. DataAt(D, k, Nothing(type)) = D[i].data
    BY <1>3 DEF DataAt
  <2>3. n = D[i]
    BY <1>2, <1>3, <2>1, <2>2
  <2>4. Range(E) = Range(D)
    BY <1>2, <1>3, <2>3 DEF Others
  <2>5. Sim(R, E, t)
    BY <1>1, <2>4 DEF Sim
  <2> QED BY <2>4, <2>5
<1>4. CASE i = 0
  <2>1. DataAt(D, k, Nothing(type)) = Nothing(type)
    BY <1>4 DEF DataAt
  <2>2. n.type = type /\ n.data = Nothing(type)
    BY <2>1 DEF Node
  <2>3. Elements(n) = 0
    <3>1. CASE type = "LIST"
      BY <2>2, <3>1, EmptySeq DEF Elements, Nothing
    <3>2. CASE type = "HASH"
      BY <2>2, <3>2, EmptyHash, FS_EmptySet DEF Elements, Nothing
    <3>3. CASE type = "SET"
      BY <2>2, <3>3, FS_EmptySet DEF Elements, Nothing
    <3> QED BY <3>1, <3>2, <3>3
  <2>4. Hidden(n, t)
    BY <2>3 DEF Hidden
  <2>5. Range(E) = Range(D) \cup {n}
    BY <1>2, <1>4 DEF Others
  <2> HIDE DEF n
  <2>6. Sim(R, E, t)
    BY <1>1, <2>4, <2>5 DEF Sim
  <2> QED BY <1>4, <2>6
<1> QED BY <1>2, <1>3, <1>4

\* Executing a command again, if it was logged, keeps the simulation: o is what it
\* did to D, p what it does to R.
Follows(o, p, R, t) ==
  /\ o.ok => ~p.dead /\ Sim(p.db, o.db, t)
  /\ ~o.ok => Sim(R, o.db, t)

\* A command that changes nothing.
LEMMA FollowsSame ==
  ASSUME NEW R, NEW D, NEW t, Sim(R, D, t), NEW o, Same(o, D), NEW p
  PROVE  Follows(o, p, R, t)
<1>1. IsStore(R) /\ IsStore(o.db) /\ Range(o.db) = Range(D) /\ ~o.ok
  BY DEF Same, Sim
<1>2. Sim(R, o.db, t)
  BY <1>1, SimSame
<1> QED BY <1>1, <1>2 DEF Follows

\* The same node put into both stores.
LEMMA FollowsPuts ==
  ASSUME NEW R, NEW D, NEW t, Sim(R, D, t), NEW n \in Nodes, NEW k, n.key = k,
         NEW o, Puts(o, Others(Range(D), k) \cup {n}), o.silent = {},
         NEW p, Puts(p, Others(Range(R), k) \cup {n})
  PROVE  ~p.dead /\ Sim(p.db, o.db, t)
<1> DEFINE A == Others(Range(R), k) \cup {n}
           B == Others(Range(D), k) \cup {n}
<1>1. /\ Total(B) <= LRU_MAX_MEMORY => Total(A) <= LRU_MAX_MEMORY
      /\ \A Q, E : IsStore(Q) /\ Range(Q) = A /\ IsStore(E) /\ Range(E) = B => Sim(Q, E, t)
  BY SimPut
<1> HIDE DEF A, B
<1>2. Puts(o, B) /\ Puts(p, A)
  BY DEF A, B
<1>3. Total(B) <= LRU_MAX_MEMORY /\ IsStore(o.db) /\ Range(o.db) = B
  BY <1>2 DEF Puts
<1>4. IsStore(p.db) /\ Range(p.db) = A /\ ~p.dead
  BY <1>1, <1>2, <1>3 DEF Puts
<1> QED BY <1>1, <1>3, <1>4

\* SET.
LEMMA SetFollows ==
  ASSUME NEW R, NEW D, NEW t \in Int, NEW u \in Int, Sim(R, D, t), Usage(D) <= LRU_MAX_MEMORY,
         NEW c \in CommandType, c.op = "SET", command_set(D, c, t).silent = {}
  PROVE  Follows(command_set(D, c, t), command_set(R, c, u), R, t)
<1> DEFINE o == command_set(D, c, t)
           p == command_set(R, c, u)
           n == SetNode(c, t)
<1>1. IsStore(R) /\ IsStore(D) /\ Usage(R) <= LRU_MAX_MEMORY
  BY SimUsage DEF Sim
<1>2. /\ c.opt = "invalid" => Same(o, D)
      /\ c.opt \in {"EX", "PX"} => o.silent # {}
      /\ c.opt \notin {"invalid", "EX", "PX"} =>
           n \in Nodes /\ n.key = c.key /\ o.ok /\ Puts(o, Others(Range(D), c.key) \cup {n})
  BY <1>1, SetEffect
<1>3. c.opt \notin {"invalid", "EX", "PX"} => Puts(p, Others(Range(R), c.key) \cup {SetNode(c, u)})
  BY <1>1, SetEffect
<1>4. c.opt \notin {"EX", "PX"} => SetNode(c, u) = n
  BY DEF SetNode, expire_at
<1>5. o.silent = {}
  OBVIOUS
<1> HIDE DEF o, p, n
<1>6. CASE c.opt = "invalid"
  <2>1. Follows(o, p, R, t)
    BY <1>2, <1>6, FollowsSame
  <2> QED BY <2>1 DEF o, p
<1>7. CASE c.opt # "invalid"
  <2>1. c.opt \notin {"invalid", "EX", "PX"}
    BY <1>2, <1>5, <1>7
  <2>2. /\ n \in Nodes /\ n.key = c.key /\ o.ok
        /\ Puts(o, Others(Range(D), c.key) \cup {n}) /\ Puts(p, Others(Range(R), c.key) \cup {n})
    BY <1>2, <1>3, <1>4, <2>1
  <2>3. ~p.dead /\ Sim(p.db, o.db, t)
    BY <1>5, <2>2, FollowsPuts
  <2>4. Follows(o, p, R, t)
    BY <2>2, <2>3 DEF Follows
  <2> QED BY <2>4 DEF o, p
<1> QED BY <1>6, <1>7

\* LPUSH and RPUSH.
LEMMA PushFollows ==
  ASSUME NEW R, NEW D, NEW t, Sim(R, D, t), Usage(D) <= LRU_MAX_MEMORY,
         NEW c \in CommandType, NEW f \in BOOLEAN, generic_push(D, c, f).silent = {}
  PROVE  Follows(generic_push(D, c, f), generic_push(R, c, f), R, t)
<1> DEFINE o == generic_push(D, c, f)
           p == generic_push(R, c, f)
           k == c.key
           n(db) == Node(k, "LIST", Pushed(DataAt(db, k, <<>>), c.args, f), 0)
<1>1. IsStore(R) /\ IsStore(D) /\ Usage(R) <= LRU_MAX_MEMORY
  BY SimUsage DEF Sim
<1>2. /\ ~Fits(D, k, "LIST") => Same(o, D)
      /\ Fits(D, k, "LIST") =>
           n(D) \in Nodes /\ n(D).key = k /\ o.ok /\ Puts(o, Others(Range(D), k) \cup {n(D)})
  BY <1>1, PushEffect
<1>3. Fits(R, k, "LIST") => Puts(p, Others(Range(R), k) \cup {n(R)})
  BY <1>1, PushEffect
<1>4. Fits(D, k, "LIST") => Fits(R, k, "LIST") /\ n(R) = n(D)
  <2> SUFFICES ASSUME Fits(D, k, "LIST") PROVE Fits(R, k, "LIST") /\ n(R) = n(D)
    OBVIOUS
  <2>1. Nothing("LIST") = <<>>
    BY DEF Nothing
  <2>2. Fits(R, k, "LIST") /\ DataAt(R, k, Nothing("LIST")) = DataAt(D, k, Nothing("LIST"))
    BY SimData
  <2> QED BY <2>1, <2>2
<1>5. o.silent = {}
  OBVIOUS
<1> HIDE DEF o, p, n
<1>6. CASE ~Fits(D, k, "LIST")
  <2>1. Follows(o, p, R, t)
    BY <1>2, <1>6, FollowsSame
  <2> QED BY <2>1 DEF o, p
<1>7. CASE Fits(D, k, "LIST")
  <2>2. /\ n(D) \in Nodes /\ n(D).key = k /\ o.ok
        /\ Puts(o, Others(Range(D), k) \cup {n(D)}) /\ Puts(p, Others(Range(R), k) \cup {n(D)})
    BY <1>2, <1>3, <1>4, <1>7
  <2>3. ~p.dead /\ Sim(p.db, o.db, t)
    BY <1>5, <2>2, FollowsPuts
  <2>4. Follows(o, p, R, t)
    BY <2>2, <2>3 DEF Follows
  <2> QED BY <2>4 DEF o, p
<1> QED BY <1>6, <1>7

\* Nothing is left of nothing.
LEMMA PopNothing ==
  ASSUME NEW c \in CommandType, NEW f \in BOOLEAN, ~(PopCount(<<>>, c) < 0)
  PROVE  PopLeft(<<>>, c, f) = <<>>
<1>1. <<>> \in Seq(Values) /\ Len(<<>>) = 0
  BY EmptySeq
<1> DEFINE z == <<>>
           l == PopLeft(z, c, f)
<1> HIDE DEF z
<1>2. z \in Seq(Values) /\ Len(z) = 0 /\ ~(PopCount(z, c) < 0)
  BY <1>1 DEF z
<1>3. l \in Seq(Values) /\ Len(l) <= Len(z) /\ Len(l) \in Nat
  BY <1>2, PopLeftType
<1> HIDE DEF l
<1>4. l = <<>>
  BY <1>2, <1>3, EmptySeq
<1> QED BY <1>4 DEF l, z

\* LPOP and RPOP: popping from an empty list is logged, and does nothing to a store
\* that does not have it.
LEMMA PopFollows ==
  ASSUME NEW R, NEW D, NEW t, Sim(R, D, t), Usage(D) <= LRU_MAX_MEMORY,
         NEW c \in CommandType, NEW f \in BOOLEAN,
         generic_pop(D, c, f).silent = {}, ~generic_pop(D, c, f).dead
  PROVE  Follows(generic_pop(D, c, f), generic_pop(R, c, f), R, t)
<1> DEFINE o == generic_pop(D, c, f)
           p == generic_pop(R, c, f)
           k == c.key
           list(db) == DataAt(db, k, <<>>)
           n(db) == Node(k, "LIST", PopLeft(list(db), c, f), 0)
           pops(db) == c.opt # "extra" /\ Has(db, k, "LIST")
<1>1. IsStore(R) /\ IsStore(D) /\ Usage(R) <= LRU_MAX_MEMORY
  BY SimUsage DEF Sim
<1>2. /\ ~pops(D) => Same(o, D)
      /\ pops(D) /\ PopCount(list(D), c) < 0 => o.dead
      /\ pops(D) /\ ~(PopCount(list(D), c) < 0) =>
           n(D) \in Nodes /\ n(D).key = k /\ o.ok /\ Puts(o, Others(Range(D), k) \cup {n(D)})
  BY <1>1, PopEffect
<1>3. /\ ~pops(R) => Same(p, R)
      /\ pops(R) /\ ~(PopCount(list(R), c) < 0) => Puts(p, Others(Range(R), k) \cup {n(R)})
  BY <1>1, PopEffect
<1>4. Has(D, k, "LIST") => /\ Fits(D, k, "LIST") /\ Find(D, k) > 0
                           /\ list(R) = list(D)
                           /\ ~Has(R, k, "LIST") => list(D) = <<>>
  <2> SUFFICES ASSUME Has(D, k, "LIST")
               PROVE  /\ Fits(D, k, "LIST") /\ Find(D, k) > 0
                      /\ list(R) = list(D)
                      /\ ~Has(R, k, "LIST") => list(D) = <<>>
    OBVIOUS
  <2>1. Nothing("LIST") = <<>>
    BY DEF Nothing
  <2>2. Fits(D, k, "LIST") /\ Find(D, k) > 0
    BY DEF Has, Fits
  <2>3. /\ DataAt(R, k, Nothing("LIST")) = DataAt(D, k, Nothing("LIST"))
        /\ ~Has(R, k, "LIST") => DataAt(D, k, Nothing("LIST")) = Nothing("LIST")
    BY <2>2, SimData
  <2> QED BY <2>1, <2>2, <2>3
<1>5. o.silent = {} /\ ~o.dead
  OBVIOUS
<1> HIDE DEF o, p
<1>6. CASE ~pops(D)
  <2>1. Follows(o, p, R, t)
    BY <1>2, <1>6, FollowsSame
  <2> QED BY <2>1 DEF o, p
<1>7. CASE pops(D) /\ pops(R)
  <2>1. list(R) = list(D) /\ ~(PopCount(list(D), c) < 0)
    BY <1>2, <1>4, <1>5, <1>7
  <2> HIDE DEF list
  <2>2. /\ n(D) \in Nodes /\ n(D).key = k /\ o.ok
        /\ Puts(o, Others(Range(D), k) \cup {n(D)}) /\ Puts(p, Others(Range(R), k) \cup {n(D)})
    BY <1>2, <1>3, <1>7, <2>1
  <2> HIDE DEF n
  <2>3. ~p.dead /\ Sim(p.db, o.db, t)
    BY <1>5, <2>2, FollowsPuts
  <2>4. Follows(o, p, R, t)
    BY <2>2, <2>3 DEF Follows
  <2> QED BY <2>4 DEF o, p
<1>8. CASE pops(D) /\ ~pops(R)
  <2>1. /\ list(D) = <<>> /\ ~(PopCount(list(D), c) < 0) /\ Fits(D, k, "LIST") /\ Find(D, k) > 0
    BY <1>2, <1>4, <1>5, <1>8
  <2>2. PopLeft(list(D), c, f) = list(D)
    BY <2>1, PopNothing
  <2>3. o.ok /\ Puts(o, Others(Range(D), k) \cup {n(D)})
    BY <1>2, <1>8, <2>1
  <2>4. IsStore(o.db) /\ Range(o.db) = Others(Range(D), k) \cup {n(D)}
    BY <2>3, <1>5 DEF Puts
  <2>5. Range(o.db) = Others(Range(D), k) \cup {Node(k, "LIST", DataAt(D, k, Nothing("LIST")), 0)}
    BY <2>2, <2>4 DEF Nothing
  <2>6. Range(o.db) = Range(D)
    BY <2>1, <2>4, <2>5, SimNoChange
  <2>7. Same(p, R)
    BY <1>3, <1>8
  <2>8. ~p.dead /\ Sim(p.db, o.db, t)
    BY <2>4, <2>6, <2>7, SimSame DEF Same
  <2>9. Follows(o, p, R, t)
    BY <2>3, <2>8 DEF Follows
  <2> QED BY <2>9 DEF o, p
<1> QED BY <1>6, <1>7, <1>8

\* DEL.
LEMMA DelFollows ==
  ASSUME NEW R, NEW D, NEW t, Sim(R, D, t), Usage(D) <= LRU_MAX_MEMORY, NEW c
  PROVE  Follows(command_del(D, c), command_del(R, c), R, t)
<1> DEFINE o == command_del(D, c)
           p == command_del(R, c)
<1>1. /\ IsStore(R) /\ IsStore(D) /\ Usage(R) <= LRU_MAX_MEMORY
      /\ Range(R) \subseteq Range(D) /\ \A n \in Range(D) \ Range(R) : Hidden(n, t)
  BY SimUsage DEF Sim
<1>2. Holds(o) /\ Range(o.db) = Spared(Range(D), c) /\ (~o.ok => Range(o.db) = Range(D))
  BY <1>1, DelEffect
<1>3. Holds(p) /\ ~p.dead /\ Range(p.db) = Spared(Range(R), c)
  BY <1>1, DelEffect
<1> HIDE DEF o, p
<1>4. IsStore(o.db) /\ IsStore(p.db)
  BY <1>2, <1>3 DEF Holds
<1>5. Sim(p.db, o.db, t)
  BY <1>1, <1>2, <1>3, <1>4 DEF Sim, Spared
<1>6. ~o.ok => Sim(R, o.db, t)
  BY <1>1, <1>2, <1>4 DEF Sim
<1>7. Follows(o, p, R, t)
  BY <1>3, <1>5, <1>6 DEF Follows
<1> QED BY <1>7 DEF o, p

\* A command that puts new data, or finds nothing to change in R.
LEMMA ChangeFollows ==
  ASSUME NEW R, NEW D, NEW t, Sim(R, D, t), NEW k, NEW type \in {"LIST", "HASH", "SET"},
         Fits(D, k, type), NEW new, NEW o, NEW p, o.silent = {},
         Changes(o, D, k, type, DataAt(D, k, Nothing(type)), new),
         \/ Changes(p, R, k, type, DataAt(R, k, Nothing(type)), new)
         \/ Same(p, R) /\ Find(D, k) > 0 /\ new = DataAt(D, k, Nothing(type))
  PROVE  Follows(o, p, R, t)
<1> DEFINE n == Node(k, type, new, 0)
           old == DataAt(D, k, Nothing(type))
<1>1. /\ n \in Nodes /\ n.key = k /\ Puts(o, Others(Range(D), k) \cup {n})
      /\ ~o.ok => new = old
  BY DEF Changes
<1>2. IsStore(o.db) /\ Range(o.db) = Others(Range(D), k) \cup {n}
  <2> HIDE DEF n
  <2> QED BY <1>1 DEF Puts
<1>3. new = old => Sim(R, o.db, t) /\ (Find(D, k) > 0 => Range(o.db) = Range(D))
  <2> SUFFICES ASSUME new = old
               PROVE  Sim(R, o.db, t) /\ (Find(D, k) > 0 => Range(o.db) = Range(D))
    OBVIOUS
  <2>1. Range(o.db) = Others(Range(D), k) \cup {Node(k, type, DataAt(D, k, Nothing(type)), 0)}
    BY <1>2
  <2> QED BY <1>2, <2>1, SimNoChange
<1>4. ~p.dead /\ Sim(p.db, o.db, t)
  <2>1. CASE Changes(p, R, k, type, DataAt(R, k, Nothing(type)), new)
    <3>1. Puts(p, Others(Range(R), k) \cup {n})
      BY <2>1 DEF Changes
    <3> HIDE DEF n
    <3> QED BY <1>1, <3>1, FollowsPuts
  <2>2. CASE Same(p, R) /\ Find(D, k) > 0 /\ new = old
    <3>1. Range(o.db) = Range(D)
      BY <1>3, <2>2
    <3> QED BY <1>2, <2>2, <3>1, SimSame DEF Same
  <2> QED BY <2>1, <2>2
<1> QED BY <1>1, <1>3, <1>4 DEF Follows

\* SADD.
LEMMA SaddFollows ==
  ASSUME NEW R, NEW D, NEW t, Sim(R, D, t), Usage(D) <= LRU_MAX_MEMORY,
         NEW c \in CommandType, command_sadd(D, c).silent = {}
  PROVE  Follows(command_sadd(D, c), command_sadd(R, c), R, t)
<1> DEFINE o == command_sadd(D, c)
           p == command_sadd(R, c)
           k == c.key
           old(db) == DataAt(db, k, Nothing("SET"))
           new(db) == old(db) \cup Range(c.args)
<1>1. IsStore(R) /\ IsStore(D) /\ Usage(R) <= LRU_MAX_MEMORY
  BY SimUsage DEF Sim
<1>0. Nothing("SET") = {}
  BY DEF Nothing
<1>2. /\ ~Fits(D, k, "SET") => Same(o, D)
      /\ Fits(D, k, "SET") => Changes(o, D, k, "SET", old(D), new(D))
  BY <1>0, <1>1, SaddEffect
<1>3. Fits(R, k, "SET") => Changes(p, R, k, "SET", old(R), new(R))
  BY <1>0, <1>1, SaddEffect
<1>4. Fits(D, k, "SET") => Fits(R, k, "SET") /\ old(R) = old(D)
  BY SimData
<1>5. o.silent = {}
  OBVIOUS
<1> HIDE DEF o, p
<1>6. Follows(o, p, R, t)
  <2>1. CASE ~Fits(D, k, "SET")
    BY <1>2, <2>1, FollowsSame
  <2>2. CASE Fits(D, k, "SET")
    <3>1. /\ Changes(o, D, k, "SET", DataAt(D, k, Nothing("SET")), new(D))
          /\ Changes(p, R, k, "SET", DataAt(R, k, Nothing("SET")), new(D))
      BY <1>2, <1>3, <1>4, <2>2
    <3> HIDE DEF new
    <3> QED BY <1>5, <2>2, <3>1, ChangeFollows
  <2> QED BY <2>1, <2>2
<1> QED BY <1>6 DEF o, p

\* SDEL.
LEMMA SdelFollows ==
  ASSUME NEW R, NEW D, NEW t, Sim(R, D, t), Usage(D) <= LRU_MAX_MEMORY,
         NEW c \in CommandType, command_sdel(D, c).silent = {}
  PROVE  Follows(command_sdel(D, c), command_sdel(R, c), R, t)
<1> DEFINE o == command_sdel(D, c)
           p == command_sdel(R, c)
           k == c.key
           old(db) == DataAt(db, k, Nothing("SET"))
           new(db) == old(db) \ Range(c.args)
<1>1. IsStore(R) /\ IsStore(D) /\ Usage(R) <= LRU_MAX_MEMORY
  BY SimUsage DEF Sim
<1>0. Nothing("SET") = {}
  BY DEF Nothing
<1>2. /\ ~Has(D, k, "SET") => Same(o, D)
      /\ Has(D, k, "SET") => Changes(o, D, k, "SET", old(D), new(D))
  BY <1>0, <1>1, SdelEffect
<1>3. /\ ~Has(R, k, "SET") => Same(p, R)
      /\ Has(R, k, "SET") => Changes(p, R, k, "SET", old(R), new(R))
  BY <1>0, <1>1, SdelEffect
<1>4. Has(D, k, "SET") => Fits(D, k, "SET") /\ Find(D, k) > 0
  BY DEF Has, Fits
<1>5. Has(D, k, "SET") => old(R) = old(D) /\ (~Has(R, k, "SET") => old(D) = Nothing("SET"))
  BY <1>4, SimData
<1>6. o.silent = {}
  OBVIOUS
<1> HIDE DEF o, p
<1>7. Follows(o, p, R, t)
  <2>1. CASE ~Has(D, k, "SET")
    BY <1>2, <2>1, FollowsSame
  <2>2. CASE Has(D, k, "SET")
    <3>1. Changes(o, D, k, "SET", DataAt(D, k, Nothing("SET")), new(D))
      BY <1>2, <2>2
    <3>2. \/ Changes(p, R, k, "SET", DataAt(R, k, Nothing("SET")), new(D))
          \/ Same(p, R) /\ Find(D, k) > 0 /\ new(D) = DataAt(D, k, Nothing("SET"))
      <4>1. CASE Has(R, k, "SET")
        BY <1>3, <1>5, <2>2, <4>1
      <4>2. CASE ~Has(R, k, "SET")
        BY <1>0, <1>3, <1>4, <1>5, <2>2, <4>2
      <4> QED BY <4>1, <4>2
    <3> HIDE DEF new
    <3> QED BY <1>4, <1>6, <2>2, <3>1, <3>2, ChangeFollows
  <2> QED BY <2>1, <2>2
<1> QED BY <1>7 DEF o, p

\* HDEL.
LEMMA HdelFollows ==
  ASSUME NEW R, NEW D, NEW t, Sim(R, D, t), Usage(D) <= LRU_MAX_MEMORY,
         NEW c \in CommandType, command_hdel(D, c).silent = {}
  PROVE  Follows(command_hdel(D, c), command_hdel(R, c), R, t)
<1> DEFINE o == command_hdel(D, c)
           p == command_hdel(R, c)
           k == c.key
           old(db) == DataAt(db, k, Nothing("HASH"))
           new(db) == Without(old(db), Range(c.args))
<1>1. IsStore(R) /\ IsStore(D) /\ Usage(R) <= LRU_MAX_MEMORY
  BY SimUsage DEF Sim
<1>0. Nothing("HASH") = <<>>
  BY DEF Nothing
<1>2. /\ ~Has(D, k, "HASH") => Same(o, D)
      /\ Has(D, k, "HASH") => Changes(o, D, k, "HASH", old(D), new(D))
  BY <1>0, <1>1, HdelEffect
<1>3. /\ ~Has(R, k, "HASH") => Same(p, R)
      /\ Has(R, k, "HASH") => Changes(p, R, k, "HASH", old(R), new(R))
  BY <1>0, <1>1, HdelEffect
<1>4. Has(D, k, "HASH") => Fits(D, k, "HASH") /\ Find(D, k) > 0
  BY DEF Has, Fits
<1>5. Has(D, k, "HASH") => old(R) = old(D) /\ (~Has(R, k, "HASH") => old(D) = Nothing("HASH"))
  BY <1>4, SimData
<1>6. o.silent = {}
  OBVIOUS
<1>8. \A F : Without(<<>>, F) = <<>>
  <2> TAKE F
  <2>1. DOMAIN Without(<<>>, F) = {} /\ Without(<<>>, F) \in [{} -> Values]
    BY EmptyHash DEF Without
  <2>2. Without(<<>>, F) \in Hashes
    BY <2>1, EmptyHash DEF Hashes
  <2> QED BY <2>1, <2>2, EmptyHash
<1> HIDE DEF o, p
<1>7. Follows(o, p, R, t)
  <2>1. CASE ~Has(D, k, "HASH")
    BY <1>2, <2>1, FollowsSame
  <2>2. CASE Has(D, k, "HASH")
    <3>1. Changes(o, D, k, "HASH", DataAt(D, k, Nothing("HASH")), new(D))
      BY <1>2, <2>2
    <3>2. \/ Changes(p, R, k, "HASH", DataAt(R, k, Nothing("HASH")), new(D))
          \/ Same(p, R) /\ Find(D, k) > 0 /\ new(D) = DataAt(D, k, Nothing("HASH"))
      <4>1. CASE Has(R, k, "HASH")
        BY <1>3, <1>5, <2>2, <4>1
      <4>2. CASE ~Has(R, k, "HASH")
        BY <1>0, <1>3, <1>4, <1>5, <1>8, <2>2, <4>2
      <4> QED BY <4>1, <4>2
    <3> HIDE DEF new
    <3> QED BY <1>4, <1>6, <2>2, <3>1, <3>2, ChangeFollows
  <2> QED BY <2>1, <2>2
<1> QED BY <1>7 DEF o, p

\* HSET.
LEMMA HsetFollows ==
  ASSUME NEW R, NEW D, NEW t, Sim(R, D, t), Usage(D) <= LRU_MAX_MEMORY,
         NEW c \in CommandType, command_hset(D, c).silent = {}, ~command_hset(D, c).dead
  PROVE  Follows(command_hset(D, c), command_hset(R, c), R, t)
<1> DEFINE o == command_hset(D, c)
           p == command_hset(R, c)
           k == c.key
           old(db) == DataAt(db, k, Nothing("HASH"))
           n(db) == Node(k, "HASH", Filled(old(db), c.args), 0)
           S(db) == Others(Range(db), k) \cup {n(db)}
           works(db) == Len(c.args) % 2 = 0 /\ Fits(db, k, "HASH")
<1>1. IsStore(R) /\ IsStore(D) /\ Usage(R) <= LRU_MAX_MEMORY
  BY SimUsage DEF Sim
<1>0. Nothing("HASH") = <<>>
  BY DEF Nothing
<1>2. /\ Holds(o)
      /\ ~works(D) => Same(o, D)
      /\ works(D) => /\ n(D) \in Nodes /\ n(D).key = k
                     /\ o.silent = {} /\ ~o.dead =>
                          /\ Total(S(D)) <= LRU_MAX_MEMORY /\ Range(o.db) = S(D)
                          /\ ~o.ok => Filled(old(D), c.args) = old(D)
  BY <1>0, <1>1, HsetEffect
<1>3. /\ Holds(p)
      /\ works(R) /\ Total(S(R)) <= LRU_MAX_MEMORY => ~p.dead /\ Range(p.db) = S(R)
  BY <1>0, <1>1, HsetEffect
<1>4. works(D) => Fits(D, k, "HASH") /\ works(R) /\ old(R) = old(D)
  <2>1. Fits(D, k, "HASH") => Fits(R, k, "HASH") /\ old(R) = old(D)
    BY SimData
  <2> QED BY <2>1
<1>5. o.silent = {} /\ ~o.dead
  OBVIOUS
<1> HIDE DEF o, p
<1>6. Follows(o, p, R, t)
  <2>1. CASE ~works(D)
    BY <1>2, <2>1, FollowsSame
  <2>2. CASE works(D)
    <3>1. /\ n(D) \in Nodes /\ n(D).key = k
          /\ Total(S(D)) <= LRU_MAX_MEMORY /\ Range(o.db) = S(D)
          /\ ~o.ok => Filled(old(D), c.args) = old(D)
      BY <1>2, <1>5, <2>2
    <3>2. n(R) = n(D)
      BY <1>4, <2>2
    <3> DEFINE m == n(D)
               A == Others(Range(R), m.key) \cup {m}
               B == Others(Range(D), m.key) \cup {m}
    <3>3. S(D) = B /\ S(R) = A
      BY <3>1, <3>2
    <3>4. m \in Nodes
      BY <3>1
    <3>5. /\ Total(B) <= LRU_MAX_MEMORY => Total(A) <= LRU_MAX_MEMORY
          /\ \A Q, E : IsStore(Q) /\ Range(Q) = A /\ IsStore(E) /\ Range(E) = B => Sim(Q, E, t)
      <4> HIDE DEF m
      <4> QED BY <3>4, SimPut
    <3> HIDE DEF A, B, S
    <3>6. ~p.dead /\ Range(p.db) = A
      BY <1>3, <1>4, <2>2, <3>1, <3>3, <3>5
    <3>7. IsStore(o.db) /\ IsStore(p.db)
      BY <1>2, <1>3 DEF Holds
    <3>8. Sim(p.db, o.db, t)
      BY <3>1, <3>3, <3>5, <3>6, <3>7
    <3>9. ~o.ok => Sim(R, o.db, t)
      <4> SUFFICES ASSUME ~o.ok PROVE Sim(R, o.db, t)
        OBVIOUS
      <4>1. n(D) = Node(k, "HASH", DataAt(D, k, Nothing("HASH")), 0)
        BY <3>1
      <4>2. Range(o.db) = Others(Range(D), k) \cup {Node(k, "HASH", DataAt(D, k, Nothing("HASH")), 0)}
        BY <3>1, <4>1 DEF S
      <4> QED BY <1>4, <2>2, <3>7, <4>2, SimNoChange
    <3> QED BY <3>6, <3>8, <3>9 DEF Follows
  <2> QED BY <2>1, <2>2
<1> QED BY <1>6 DEF o, p

\* What the handlers do to D, they do to R when a logged command is executed again, at
\* any time u, unless one of the reasons in silent is against it.
LEMMA ExecuteFollows ==
  ASSUME NEW R, NEW D, NEW t \in Int, NEW u \in Int, Sim(R, D, t), Usage(D) <= LRU_MAX_MEMORY,
         NEW c \in CommandType, Execute(D, c, t).silent = {}, ~Execute(D, c, t).dead
  PROVE  Follows(Execute(D, c, t), Execute(R, c, u), R, t)
<1>0. IsStore(D)
  BY DEF Sim
<1>1. CASE c.op = "SET"
  <2>1. Execute(D, c, t) = command_set(D, c, t) /\ Execute(R, c, u) = command_set(R, c, u)
    BY <1>1 DEF Execute
  <2> QED BY <1>1, <2>1, SetFollows
<1>2. CASE c.op = "GET"
  <2>1. Execute(D, c, t) = command_get(D, c, t)
    BY <1>2 DEF Execute
  <2>2. Same(command_get(D, c, t), D)
    BY <1>0, <2>1, GetEffect
  <2> QED BY <2>1, <2>2, FollowsSame
<1>3. CASE c.op = "LPUSH"
  <2>1. Execute(D, c, t) = generic_push(D, c, TRUE) /\ Execute(R, c, u) = generic_push(R, c, TRUE)
    BY <1>3 DEF Execute
  <2> QED BY <2>1, PushFollows
<1>4. CASE c.op = "RPUSH"
  <2>1. Execute(D, c, t) = generic_push(D, c, FALSE) /\ Execute(R, c, u) = generic_push(R, c, FALSE)
    BY <1>4 DEF Execute
  <2> QED BY <2>1, PushFollows
<1>5. CASE c.op = "LPOP"
  <2>1. Execute(D, c, t) = generic_pop(D, c, TRUE) /\ Execute(R, c, u) = generic_pop(R, c, TRUE)
    BY <1>5 DEF Execute
  <2> QED BY <2>1, PopFollows
<1>6. CASE c.op = "RPOP"
  <2>1. Execute(D, c, t) = generic_pop(D, c, FALSE) /\ Execute(R, c, u) = generic_pop(R, c, FALSE)
    BY <1>6 DEF Execute
  <2> QED BY <2>1, PopFollows
<1>7. CASE c.op = "DEL"
  <2>1. Execute(D, c, t) = command_del(D, c) /\ Execute(R, c, u) = command_del(R, c)
    BY <1>7 DEF Execute
  <2> QED BY <2>1, DelFollows
<1>8. CASE c.op = "HSET"
  <2>1. Execute(D, c, t) = command_hset(D, c) /\ Execute(R, c, u) = command_hset(R, c)
    BY <1>8 DEF Execute
  <2> QED BY <2>1, HsetFollows
<1>9. CASE c.op = "HDEL"
  <2>1. Execute(D, c, t) = command_hdel(D, c) /\ Execute(R, c, u) = command_hdel(R, c)
    BY <1>9 DEF Execute
  <2> QED BY <2>1, HdelFollows
<1>10. CASE c.op = "SADD"
  <2>1. Execute(D, c, t) = command_sadd(D, c) /\ Execute(R, c, u) = command_sadd(R, c)
    BY <1>10 DEF Execute
  <2> QED BY <2>1, SaddFollows
<1>11. CASE c.op = "SDEL"
  <2>1. Execute(D, c, t) = command_sdel(D, c) /\ Execute(R, c, u) = command_sdel(R, c)
    BY <1>11 DEF Execute
  <2> QED BY <2>1, SdelFollows
<1>12. CASE c.op \notin {"SET", "GET", "LPUSH", "RPUSH", "LPOP", "RPOP", "DEL", "HSET", "HDEL",
                         "SADD", "SDEL"}
  <2>1. Same(Execute(D, c, t), D)
    BY <1>0, <1>12, QueryEffect
  <2> QED BY <2>1, FollowsSame
<1> QED BY <1>1, <1>2, <1>3, <1>4, <1>5, <1>6, <1>7, <1>8, <1>9, <1>10, <1>11, <1>12

\* Stores with the same nodes but for hidden ones have the same contents for a client.
LEMMA SimVisible ==
  ASSUME NEW R, NEW D, NEW t, Sim(R, D, t)
  PROVE  SameContents(R, D, t)
<1> DEFINE found(db) == {n \in Range(db) : ~Expired(n, t) /\ Elements(n) > 0}
           x == Visible(R, t)
           y == Visible(D, t)
<1>1. /\ IsStore(R) /\ IsStore(D) /\ Range(R) \subseteq Range(D)
      /\ \A n \in Range(D) \ Range(R) : Hidden(n, t)
      /\ R \in Seq(Nodes) /\ D \in Seq(Nodes)
  BY StoreNodes DEF Sim
<1>2. found(R) = found(D)
  BY <1>1 DEF Hidden
<1>3. x = Keep(R, found(R)) /\ y = Keep(D, found(D))
  BY DEF Visible
<1>4. x \in Seq(Nodes) /\ Range(x) = Range(R) \cap found(R) /\ IsStore(x)
  BY <1>1, <1>3, KeepRange
<1>5. y \in Seq(Nodes) /\ Range(y) = Range(D) \cap found(D) /\ IsStore(y)
  BY <1>1, <1>3, KeepRange
<1>6. Range(x) = Range(y)
  BY <1>2, <1>4, <1>5
<1> HIDE DEF x, y
<1>7. Len(x) = Len(y)
  BY <1>4, <1>5, <1>6, StoreSize
<1>8. ASSUME NEW i \in DOMAIN x PROVE \E j \in DOMAIN y : SameNode(x[i], y[j])
  <2>1. x[i] \in Range(y)
    BY <1>6 DEF Range
  <2>2. PICK j \in DOMAIN y : y[j] = x[i]
    BY <2>1 DEF Range
  <2> QED BY <2>2 DEF SameNode
<1> QED BY <1>7, <1>8 DEF x, y, SameContents

\* What is hidden stays hidden.
LEMMA SimLater ==
  ASSUME NEW R, NEW D, NEW t \in Int, NEW u \in Int, t <= u, Sim(R, D, t)
  PROVE  Sim(R, D, u)
<1>1. \A n \in Nodes : Hidden(n, t) => Hidden(n, u)
  BY NodeFields DEF Hidden, Expired
<1>2. Range(D) \subseteq Nodes
  BY StoreNodes DEF Sim
<1> QED BY <1>1, <1>2 DEF Sim

\* A store simulates itself.
LEMMA SimSelf ==
  ASSUME NEW D, NEW t, IsStore(D)
  PROVE  Sim(D, D, t)
BY DEF Sim
(***************************************************************************)
(* What the replies tell.                                                  *)
(***************************************************************************)

SizeAt(db, k) == IF Find(db, k) = 0 THEN 0 ELSE Elements(db[Find(db, k)])

\* The answer of a command that replaces the data of a node.
LEMMA DataReply ==
  ASSUME NEW db, NEW i, NEW data
  PROVE  /\ \A r : WithData(db, i, data, r).reply = r
         /\ \A x : WithCount(db, i, data, x).reply = send_integer(x)
<1> DEFINE kept(n) == EvictUntilSafe([db EXCEPT ![i] = n])
           d(n) == IF Find(kept(n), n.key) = 0 THEN kept(n) ELSE touch_lru(kept(n), Find(kept(n), n.key))
           b(n) == Find(kept(n), n.key) = 0
           s(n) == IF Len(kept(n)) < Len(db) THEN {"eviction"} ELSE {}
           m == [db[i] EXCEPT !.data = data]
<1>1. \A r : WithData(db, i, data, r)
               = [db |-> d(m), ok |-> TRUE, reply |-> r, dead |-> b(m), silent |-> s(m)]
  BY DEF WithData, update_lru
<1> HIDE DEF d, b, s, m
<1>2. \A r : WithData(db, i, data, r).reply = r
  BY <1>1
<1>3. ASSUME NEW x PROVE WithCount(db, i, data, x).reply = send_integer(x)
  <2> DEFINE w == WithData(db, i, data, send_integer(x))
             y == send_integer(x)
  <2>1. w = [db |-> d(m), ok |-> TRUE, reply |-> y, dead |-> b(m), silent |-> s(m)]
    BY <1>1
  <2>2. WithCount(db, i, data, x) = [w EXCEPT !.ok = x > 0]
    BY DEF WithCount
  <2> HIDE DEF w, y
  <2>3. [w EXCEPT !.ok = x > 0].reply = w.reply
    BY <2>1
  <2> QED BY <2>1, <2>2, <2>3 DEF y
<1> QED BY <1>2, <1>3

\* The store has no node of key k but n.
OnlyNode(db, k, n) == IsStore(db) /\ \A m \in Range(db) : m.key = k => m = n

\* The node that was put is the one a command finds later.
LEMMA PutAt ==
  ASSUME NEW db, NEW n, NEW k, OnlyNode(db, k, n), Find(db, k) > 0
  PROVE  db[Find(db, k)] = n /\ SizeAt(db, k) = Elements(n)
<1> DEFINE i == Find(db, k)
<1>1. db[i] \in Range(db) /\ db[i].key = k /\ i \in 0 .. Len(db)
  BY FindNode DEF OnlyNode
<1>2. db[i] = n
  BY <1>1 DEF OnlyNode
<1> QED BY <1>1, <1>2 DEF SizeAt

\* Putting a node leaves no other one of its key.
LEMMA PutsOnly ==
  ASSUME NEW o, NEW S, NEW n, Puts(o, Others(S, n.key) \cup {n})
  PROVE  OnlyNode(o.db, n.key, n)
BY DEF Puts, Others, OnlyNode

\* SADD and SDEL answer with the number of elements that came or went.
LEMMA SetReplies ==
  ASSUME NEW db, IsStore(db), Usage(db) <= LRU_MAX_MEMORY, NEW c \in CommandType
  PROVE  LET a == command_sadd(db, c)
             d == command_sdel(db, c)
         IN /\ a.reply[1] = "error" => Same(a, db)
            /\ a.reply[1] # "error" /\ Find(a.db, c.key) > 0 =>
                 a.reply[2] = SizeAt(a.db, c.key) - SizeAt(db, c.key)
            /\ d.reply[1] = "error" => Same(d, db)
            /\ d.reply[1] # "error" /\ Find(d.db, c.key) > 0 =>
                 d.reply[2] = SizeAt(db, c.key) - SizeAt(d.db, c.key)
<1> DEFINE k == c.key
           i == Find(db, k)
           R == Range(c.args)
           old == DataAt(db, k, {})
           a == command_sadd(db, c)
           d == command_sdel(db, c)
           SizeIs(o, new) == Find(o.db, k) > 0 => SizeAt(o.db, k) = Cardinality(new)
<1>1. i \in 0 .. Len(db) /\ R \in Finite
  BY FindNode, CommandFields
<1>2. a = IF i = 0 THEN add_lru(db, Node(k, "SET", R, 0), send_integer(Cardinality(R)))
          ELSE IF db[i].type # "SET" THEN Refused(db)
          ELSE WithCount(db, i, db[i].data \cup R, Cardinality(db[i].data \cup R) - Cardinality(db[i].data))
  BY Zenon DEF command_sadd
<1>3. d = IF i = 0 THEN Read(db, Error("ERR"))
          ELSE IF db[i].type # "SET" THEN Refused(db)
          ELSE WithCount(db, i, db[i].data \ R, Cardinality(db[i].data) - Cardinality(db[i].data \ R))
  BY Zenon DEF command_sdel
<1>4. /\ ~Fits(db, k, "SET") => Same(a, db)
      /\ Fits(db, k, "SET") => Changes(a, db, k, "SET", old, old \cup R)
      /\ ~Has(db, k, "SET") => Same(d, db)
      /\ Has(db, k, "SET") => Changes(d, db, k, "SET", old, old \ R)
  BY SaddEffect, SdelEffect
<1> HIDE DEF a, d, R
<1>5. ASSUME NEW o, NEW new, Changes(o, db, k, "SET", old, new) PROVE SizeIs(o, new)
  <2> DEFINE n == Node(k, "SET", new, 0)
  <2>1. n.key = k /\ Elements(n) = Cardinality(new)
    BY DEF Node, Elements
  <2>2. OnlyNode(o.db, k, n)
    BY <1>5, <2>1, PutsOnly DEF Changes
  <2> HIDE DEF n
  <2> QED BY <2>1, <2>2, PutAt
<1> HIDE DEF SizeIs
<1>6. CASE i = 0
  <2>1. old = {} /\ Fits(db, k, "SET") /\ ~Has(db, k, "SET") /\ SizeAt(db, k) = 0
    BY <1>6 DEF DataAt, Fits, Has, SizeAt
  <2>2. SizeIs(a, R) /\ Cardinality(R) \in Nat
    <3>1. SizeIs(a, old \cup R)
      BY <1>4, <1>5, <2>1
    <3>2. old \cup R = R
      BY <2>1
    <3> QED BY <1>1, <3>1, <3>2, FS_CardinalityType DEF Finite
  <2>3. a.reply = send_integer(Cardinality(R))
    <3> DEFINE n == Node(k, "SET", R, 0)
               r == send_integer(Cardinality(R))
    <3>1. n \in Nodes /\ n.key = k
      BY <1>1, CommandFields, MakesNode DEF Node
    <3>2. \A m \in Range(db) : m.key # n.key
      BY <1>6, <3>1, FindNode
    <3>3. a = add_lru(db, n, r)
      BY <1>2, <1>6
    <3> HIDE DEF n, r
    <3>4. add_lru(db, n, r).reply = r
      BY <3>1, <3>2, AddPuts
    <3> QED BY <3>3, <3>4 DEF r
  <2>4. d.reply[1] = "error" /\ a.reply[1] # "error" /\ a.reply[2] = Cardinality(R)
    <3>1. d.reply = <<"error", "ERR">>
      BY <1>3, <1>6 DEF Read, Outcome, Error
    <3> QED BY <2>3, <3>1 DEF send_integer
  <2> QED BY <1>4, <2>1, <2>2, <2>4 DEF SizeIs, a, d
<1>7. CASE i # 0 /\ db[i].type # "SET"
  <2>1. Same(a, db) /\ Same(d, db)
    BY <1>4, <1>7 DEF Fits, Has
  <2>2. a.reply[1] = "error" /\ d.reply[1] = "error"
    <3>1. a = Refused(db) /\ d = Refused(db)
      BY <1>2, <1>3, <1>7
    <3>2. a.reply = WRONGTYPE /\ d.reply = WRONGTYPE
      BY <3>1 DEF Refused, Read, Outcome
    <3> QED BY <3>2 DEF WRONGTYPE, Error
  <2> QED BY <2>1, <2>2 DEF a, d
<1>8. CASE i # 0 /\ db[i].type = "SET"
  <2>1. old = db[i].data /\ Fits(db, k, "SET") /\ Has(db, k, "SET") /\ SizeAt(db, k) = Cardinality(old)
    BY <1>1, <1>8 DEF DataAt, Fits, Has, SizeAt, Elements
  <2>2. SizeIs(a, old \cup R) /\ SizeIs(d, old \ R)
    BY <1>4, <1>5, <2>1
  <2> DEFINE x == Cardinality(old \cup R) - Cardinality(old)
             y == Cardinality(old) - Cardinality(old \ R)
  <2>3. a = WithCount(db, i, old \cup R, x) /\ d = WithCount(db, i, old \ R, y)
    BY <1>2, <1>3, <1>8, <2>1
  <2>4. a.reply = send_integer(x) /\ d.reply = send_integer(y)
    BY <2>3, DataReply
  <2> HIDE DEF x, y
  <2>5. a.reply[1] = "int" /\ a.reply[2] = x /\ d.reply[1] = "int" /\ d.reply[2] = y
    BY <2>4 DEF send_integer
  <2> QED BY <2>1, <2>2, <2>5 DEF SizeIs, x, y, a, d
<1> QED BY <1>6, <1>7, <1>8

\* HDEL answers with the number of fields that went.
LEMMA HdelReply ==
  ASSUME NEW db, IsStore(db), Usage(db) <= LRU_MAX_MEMORY, NEW c \in CommandType
  PROVE  LET o == command_hdel(db, c)
         IN /\ o.reply[1] = "error" => Same(o, db)
            /\ o.reply[1] # "error" /\ Find(o.db, c.key) > 0 =>
                 o.reply[2] = SizeAt(db, c.key) - SizeAt(o.db, c.key)
<1> DEFINE k == c.key
           i == Find(db, k)
           R == Range(c.args)
           old == DataAt(db, k, <<>>)
           new == Without(old, R)
           o == command_hdel(db, c)
<1>1. i \in 0 .. Len(db)
  BY FindNode
<1>2. o = IF i = 0 THEN Read(db, send_integer(0))
          ELSE IF db[i].type # "HASH" THEN Refused(db)
          ELSE WithCount(db, i, Without(db[i].data, R),
                         Cardinality(DOMAIN db[i].data) - Cardinality(DOMAIN Without(db[i].data, R)))
  BY Zenon DEF command_hdel, Without
<1>3. /\ ~Has(db, k, "HASH") => Same(o, db)
      /\ Has(db, k, "HASH") => Changes(o, db, k, "HASH", old, new)
  BY HdelEffect
<1> HIDE DEF o, R
<1>4. CASE i = 0
  <2>1. o.db = db
    BY <1>2, <1>4 DEF Read, Outcome
  <2>2. o.reply[1] # "error"
    BY <1>2, <1>4 DEF Read, Outcome, send_integer
  <2> QED BY <1>4, <2>1, <2>2 DEF o
<1>5. CASE i # 0 /\ db[i].type # "HASH"
  <2>1. Same(o, db)
    BY <1>3, <1>5 DEF Has
  <2>2. o = Read(db, WRONGTYPE)
    BY <1>2, <1>5 DEF Refused
  <2>3. o.reply[1] = "error"
    BY <2>2 DEF Read, Outcome, Error, WRONGTYPE
  <2> QED BY <2>1, <2>3 DEF o
<1>6. CASE i # 0 /\ db[i].type = "HASH"
  <2>1. old = db[i].data /\ Has(db, k, "HASH") /\ SizeAt(db, k) = Cardinality(DOMAIN old)
    BY <1>1, <1>6 DEF DataAt, Has, SizeAt, Elements
  <2> DEFINE n == Node(k, "HASH", new, 0)
             x == Cardinality(DOMAIN old) - Cardinality(DOMAIN new)
  <2>2. n.key = k /\ Elements(n) = Cardinality(DOMAIN new)
    BY DEF Node, Elements
  <2>3. OnlyNode(o.db, k, n)
    BY <1>3, <2>1, <2>2, PutsOnly DEF Changes
  <2>4. o = WithCount(db, i, new, x)
    BY <1>2, <1>6, <2>1
  <2> HIDE DEF n
  <2>5. Find(o.db, k) > 0 => SizeAt(o.db, k) = Cardinality(DOMAIN new)
    BY <2>2, <2>3, PutAt
  <2> HIDE DEF x, new
  <2>6. o.reply = send_integer(x)
    BY <2>4, DataReply
  <2>7. o.reply[1] = "int" /\ o.reply[2] = x
    BY <2>6 DEF send_integer
  <2> QED BY <2>1, <2>5, <2>7 DEF x, o
<1> QED BY <1>4, <1>5, <1>6

\* HSET on a hash answers with the number of fields that came.
LEMMA HsetExistingReply ==
  ASSUME NEW db, IsStore(db), NEW i \in 1 .. Len(db), db[i].type = "HASH", NEW c \in CommandType
  PROVE  LET o == HsetExisting(db, i, c)
             old == db[i].data
             new == Filled(old, c.args)
             k == db[i].key
         IN /\ o.reply = send_integer(Cardinality(DOMAIN new) - Cardinality(DOMAIN old))
            /\ Find(o.db, k) > 0 => SizeAt(o.db, k) = Cardinality(DOMAIN new)
<1> DEFINE m == db[i]
           k == m.key
           old == m.data
           new == Filled(old, c.args)
           created == Cardinality(DOMAIN new) - Cardinality(DOMAIN old)
           w == WithCount(db, i, new, created)
           x == w.silent \cup IF created = 0 /\ new # old THEN {"overwrite"} ELSE {}
           n == Node(k, "HASH", new, 0)
           o == HsetExisting(db, i, c)
<1>1. m \in Nodes /\ c.args \in Seq(Values)
  BY StoreNodes, CommandFields
<1>2. k \in Keys /\ old \in Hashes /\ m.expiry = 0
  BY <1>1, NodeFields
<1>3. new \in Hashes /\ DOMAIN old \subseteq DOMAIN new
  BY <1>1, <1>2, FilledType
<1>4. o = [w EXCEPT !.silent = x]
  BY DEF HsetExisting
<1> HIDE DEF new, old, o
<1>5. created \in Int
  <2>1. IsFiniteSet(DOMAIN new)
    BY <1>3, HashFields
  <2>2. created \in Nat
    BY <1>3, <2>1, SameSize
  <2> QED BY <2>2
<1> HIDE DEF created
<1>6. n \in Nodes /\ n.key = k /\ Elements(n) = Cardinality(DOMAIN new)
  BY <1>2, <1>3, MakesNode DEF Node, Elements
<1>7. Node(m.key, m.type, new, m.expiry) = n
  BY <1>2
<1> HIDE DEF n
<1>8. Puts(w, Others(Range(db), k) \cup {n})
  <2>1. LET l == Node(db[i].key, db[i].type, new, db[i].expiry)
            T == Others(Range(db), l.key) \cup {l}
        IN \A y \in Int : Puts(WithCount(db, i, new, y), T)
    BY <1>6, <1>7, DataPuts
  <2> QED BY <1>5, <1>6, <1>7, <2>1
<1>9. w.reply = send_integer(created)
  BY DataReply
<1> HIDE DEF w
<1>10. IsOutcome(w)
  BY <1>8 DEF Puts
<1>11. o = [db |-> w.db, ok |-> w.ok, reply |-> w.reply, dead |-> w.dead, silent |-> x]
  BY <1>4, <1>10, ExceptOutcome
<1>12. o.db = w.db /\ o.reply = w.reply
  BY <1>11
<1>13. OnlyNode(o.db, k, n)
  BY <1>6, <1>8, <1>12, PutsOnly
<1> HIDE DEF k
<1>14. Find(o.db, k) > 0 => SizeAt(o.db, k) = Cardinality(DOMAIN new)
  BY <1>6, <1>13, PutAt
<1> QED BY <1>9, <1>12, <1>14 DEF o, k, old, new, created

\* HSET answers with the number of fields that came, also if it creates the key.
LEMMA HsetReply ==
  ASSUME NEW db, IsStore(db), Usage(db) <= LRU_MAX_MEMORY, NEW c \in CommandType,
         ~command_hset(db, c).dead
  PROVE  LET o == command_hset(db, c)
         IN /\ o.reply[1] = "error" => Same(o, db)
            /\ o.reply[1] # "error" /\ Find(o.db, c.key) > 0 =>
                 o.reply[2] = SizeAt(o.db, c.key) - SizeAt(db, c.key)
<1> DEFINE k == c.key
           i == Find(db, k)
           e == Node(k, "HASH", <<>>, 0)
           added == add_lru(db, e, Nil)
           a == added.db
           j == Find(a, k)
           done == HsetExisting(a, j, c)
           x == done.silent \cup added.silent
           o == command_hset(db, c)
<1>1. k \in Keys
  BY CommandFields
<1>2. /\ i \in 0 .. Len(db) /\ Len(db) \in Nat
      /\ i > 0 => i \in 1 .. Len(db) /\ db[i].key = k /\ db[i] \in Nodes
      /\ i = 0 => \A m \in Range(db) : m.key # k
  BY FindNode, StoreNodes
<1>3. o = IF Len(c.args) % 2 # 0 THEN Read(db, Error("ERR"))
          ELSE IF i = 0
          THEN IF j = 0 THEN [added EXCEPT !.dead = TRUE]
               ELSE [done EXCEPT !.silent = x]
          ELSE IF db[i].type # "HASH" THEN Refused(db)
          ELSE HsetExisting(db, i, c)
  BY Zenon DEF command_hset
<1>4. ~(Len(c.args) % 2 = 0 /\ Fits(db, k, "HASH")) => Same(o, db)
  BY HsetEffect
<1>5. ~o.dead
  OBVIOUS
<1> HIDE DEF o, added, done
<1>6. CASE Len(c.args) % 2 # 0 \/ (i # 0 /\ db[i].type # "HASH")
  <2>1. Same(o, db)
    BY <1>4, <1>6 DEF Fits
  <2>2. o = Read(db, Error("ERR")) \/ o = Read(db, WRONGTYPE)
    BY <1>3, <1>6 DEF Refused
  <2>3. o.reply[1] = "error"
    BY <2>2 DEF Read, Outcome, Error, WRONGTYPE
  <2> QED BY <2>1, <2>3 DEF o
<1>7. CASE Len(c.args) % 2 = 0 /\ i # 0 /\ db[i].type = "HASH"
  <2>1. o = HsetExisting(db, i, c) /\ i \in 1 .. Len(db) /\ db[i].key = k
    BY <1>2, <1>3, <1>7
  <2> DEFINE old == db[i].data
             y == Cardinality(DOMAIN Filled(old, c.args)) - Cardinality(DOMAIN old)
  <2>2. SizeAt(db, k) = Cardinality(DOMAIN old)
    BY <1>7 DEF SizeAt, Elements
  <2> HIDE DEF i
  <2>3. /\ o.reply = send_integer(y)
        /\ Find(o.db, k) > 0 => SizeAt(o.db, k) = Cardinality(DOMAIN Filled(old, c.args))
    BY <1>7, <2>1, HsetExistingReply
  <2> HIDE DEF y
  <2>4. o.reply[1] = "int" /\ o.reply[2] = y
    BY <2>3 DEF send_integer
  <2> QED BY <2>2, <2>3, <2>4 DEF y, o
<1>8. CASE Len(c.args) % 2 = 0 /\ i = 0
  <2>1. e \in Nodes /\ e.key = k /\ e.type = "HASH" /\ e.data = <<>>
    BY <1>1, EmptyHash, MakesNode DEF Node
  <2>2. Puts(added, Others(Range(db), k) \cup {e})
    <3>1. \A m \in Range(db) : m.key # e.key
      BY <1>2, <1>8, <2>1
    <3> HIDE DEF e
    <3>2. Puts(add_lru(db, e, Nil), Others(Range(db), e.key) \cup {e})
      BY <2>1, <3>1, AddPuts
    <3> QED BY <2>1, <3>2 DEF added
  <2>3. IsOutcome(added) /\ IsStore(a) /\ Range(a) \subseteq Others(Range(db), k) \cup {e}
    BY <2>2 DEF Puts
  <2>4. j # 0
    <3> SUFFICES ASSUME j = 0 PROVE FALSE
      OBVIOUS
    <3>1. o = [added EXCEPT !.dead = TRUE]
      BY <1>3, <1>8
    <3>2. o = [db |-> a, ok |-> added.ok, reply |-> added.reply, dead |-> TRUE, silent |-> added.silent]
      BY <3>1, <2>3, ExceptOutcome
    <3> QED BY <3>2, <1>5
  <2>5. o = [done EXCEPT !.silent = x]
    BY <1>3, <1>8, <2>4
  <2>6. j \in 1 .. Len(a) /\ a[j].key = k /\ a[j] \in Range(a)
    <3>1. j \in 0 .. Len(a) /\ (j > 0 => j \in 1 .. Len(a) /\ a[j].key = k /\ a[j] \in Range(a))
      BY <2>3, FindNode
    <3> QED BY <2>4, <3>1
  <2>7. a[j] = e
    BY <2>3, <2>6 DEF Others
  <2> HIDE DEF a, j
  <2>8. a[j].type = "HASH" /\ a[j].data = <<>>
    BY <2>1, <2>7
  <2> DEFINE new == Filled(<<>>, c.args)
             y == Cardinality(DOMAIN new) - Cardinality(DOMAIN <<>>)
  <2>9. /\ done.reply = send_integer(y)
        /\ Find(done.db, k) > 0 => SizeAt(done.db, k) = Cardinality(DOMAIN new)
    BY <2>3, <2>6, <2>8, HsetExistingReply DEF done
  <2>10. IsOutcome(done)
    <3>1. Holds(HsetExisting(a, j, c))
      BY <2>3, <2>6, <2>8, HsetExistingEffect
    <3> QED BY <3>1 DEF done, Holds
  <2> HIDE DEF x
  <2>11. o = [db |-> done.db, ok |-> done.ok, reply |-> done.reply, dead |-> done.dead, silent |-> x]
    BY <2>5, <2>10, ExceptOutcome
  <2>12. o.db = done.db /\ o.reply = done.reply
    BY <2>11
  <2>13. SizeAt(db, k) = 0 /\ Cardinality(DOMAIN <<>>) = 0
    BY <1>8, EmptyHash, FS_EmptySet DEF SizeAt
  <2> HIDE DEF y
  <2>14. o.reply[1] = "int" /\ o.reply[2] = y
    BY <2>9, <2>12 DEF send_integer
  <2> QED BY <2>9, <2>12, <2>13, <2>14 DEF y, o
<1> QED BY <1>2, <1>6, <1>7, <1>8

\* LPUSH and RPUSH answer with the length of the list.
LEMMA PushReply ==
  ASSUME NEW db, IsStore(db), Usage(db) <= LRU_MAX_MEMORY, NEW c \in CommandType, NEW f \in BOOLEAN
  PROVE  LET o == generic_push(db, c, f)
         IN /\ o.reply[1] = "error" => Same(o, db)
            /\ o.reply[1] # "error" /\ Find(o.db, c.key) > 0 => o.reply[2] = SizeAt(o.db, c.key)
<1> DEFINE k == c.key
           i == Find(db, k)
           new == Pushed(DataAt(db, k, <<>>), c.args, f)
           n == Node(k, "LIST", new, 0)
           r == send_integer(Len(new))
           o == generic_push(db, c, f)
<1>1. i \in 0 .. Len(db) /\ (i = 0 => \A m \in Range(db) : m.key # k)
  BY FindNode
<1>2. o = IF i = 0 THEN add_lru(db, n, r)
          ELSE IF db[i].type # "LIST" THEN Refused(db)
          ELSE WithData(db, i, new, r)
  BY DEF generic_push, DataAt
<1>3. /\ ~Fits(db, k, "LIST") => Same(o, db)
      /\ Fits(db, k, "LIST") => n \in Nodes /\ Puts(o, Others(Range(db), k) \cup {n})
  BY PushEffect
<1>4. n.key = k /\ Elements(n) = Len(new)
  BY DEF Node, Elements
<1> HIDE DEF o, n, new, r
<1>5. CASE i # 0 /\ db[i].type # "LIST"
  <2>1. Same(o, db)
    BY <1>3, <1>5 DEF Fits
  <2>2. o = Read(db, WRONGTYPE)
    BY <1>2, <1>5 DEF Refused
  <2>3. o.reply[1] = "error"
    BY <2>2 DEF Read, Outcome, Error, WRONGTYPE
  <2> QED BY <2>1, <2>3 DEF o
<1>6. CASE i = 0 \/ db[i].type = "LIST"
  <2>1. n \in Nodes /\ Puts(o, Others(Range(db), k) \cup {n})
    BY <1>3, <1>6 DEF Fits
  <2>2. OnlyNode(o.db, k, n)
    BY <1>4, <2>1, PutsOnly
  <2>3. o.reply = r
    <3>1. CASE i = 0
      <4>1. add_lru(db, n, r).reply = r
        BY <1>1, <1>4, <2>1, <3>1, AddPuts
      <4> QED BY <1>2, <3>1, <4>1
    <3>2. CASE i # 0
      <4>1. o = WithData(db, i, new, r)
        BY <1>2, <1>6, <3>2
      <4> QED BY <4>1, DataReply
    <3> QED BY <3>1, <3>2
  <2>4. o.reply[1] = "int" /\ o.reply[2] = Len(new)
    BY <2>3 DEF r, send_integer
  <2>5. Find(o.db, k) > 0 => SizeAt(o.db, k) = Len(new)
    BY <1>4, <2>2, PutAt
  <2> QED BY <2>4, <2>5 DEF o
<1> QED BY <1>5, <1>6

\* What is popped and what is left make up the list.
LEMMA PopSplits ==
  ASSUME NEW list \in Seq(Values), NEW x \in 0 .. Len(list)
  PROVE  /\ Popped(list, x, TRUE) \o SubSeq(list, x + 1, Len(list)) = list
         /\ SubSeq(list, 1, Len(list) - x) \o Reverse(Popped(list, x, FALSE)) = list
<1> DEFINE L == Len(list)
           r == Reverse(list)
           p == SubSeq(r, 1, x)
           q == SubSeq(list, L - x + 1, L)
<1>1. L \in Nat /\ \A i \in 1 .. L : list[i] \in Values
  BY LenProperties, ElementOfSeq
<1>2. Popped(list, x, TRUE) = SubSeq(list, 1, x) /\ Popped(list, x, FALSE) = p
  BY DEF Popped
<1>3. SubSeq(list, 1, x) \o SubSeq(list, x + 1, L) = list
  BY Halves
<1>4. L - x \in 0 .. L
  BY <1>1
<1>5. SubSeq(list, 1, L - x) \o q = list /\ q \in Seq(Values)
  BY <1>4, Halves
<1>6. r \in Seq(Values) /\ Len(r) = L /\ \A i \in 1 .. L : r[i] = list[(L - i) + 1]
  <2>1. \A i \in 1 .. L : (L - i) + 1 \in 1 .. L
    BY <1>1
  <2>2. r = [i \in 1 .. L |-> list[(L - i) + 1]]
    BY DEF Reverse
  <2> HIDE DEF r, L
  <2> QED BY <1>1, <2>1, <2>2
<1> HIDE DEF r
<1>7. p \in Seq(Values) /\ Len(p) = x /\ \A i \in 1 .. x : p[i] = list[(L - i) + 1]
  <2>1. x \in 0 .. Len(r)
    BY <1>6
  <2>2. p \in Seq(Values) /\ Len(p) = x
    BY <1>6, <2>1, Beginning
  <2>3. ASSUME NEW i \in 1 .. x PROVE p[i] = list[(L - i) + 1]
    <3>1. p[i] = r[i] /\ i \in 1 .. L
      BY <1>1, <1>6, <2>1
    <3> QED BY <1>6, <3>1
  <2> QED BY <2>2, <2>3
<1> HIDE DEF p
<1>8. Reverse(p) \in Seq(Values) /\ Len(Reverse(p)) = x /\ \A i \in 1 .. x : Reverse(p)[i] = list[(L - x) + i]
  <2>0. x \in Nat /\ L \in Nat /\ x <= L
    BY <1>1
  <2>1. Reverse(p) = [i \in 1 .. x |-> p[(x - i) + 1]]
    BY <1>7 DEF Reverse
  <2> HIDE DEF L
  <2>2. ASSUME NEW i \in 1 .. x PROVE /\ (x - i) + 1 \in 1 .. x
                                      /\ (L - ((x - i) + 1)) + 1 = (L - x) + i
                                      /\ (L - x) + i \in 1 .. L
    BY <2>0
  <2>3. \A i \in 1 .. x : p[(x - i) + 1] = list[(L - x) + i] /\ list[(L - x) + i] \in Values
    BY <1>1, <1>7, <2>2
  <2> DEFINE g == [i \in 1 .. x |-> p[(x - i) + 1]]
  <2>4. \A i \in 1 .. x : g[i] = list[(L - x) + i] /\ g[i] \in Values
    BY <2>3
  <2>5. g \in [1 .. x -> Values]
    BY <2>3
  <2> HIDE DEF g
  <2>6. g \in Seq(Values) /\ Len(g) = x
    BY <2>0, <2>5
  <2> QED BY <2>1, <2>4, <2>6 DEF g
<1>9. Len(q) = x /\ \A i \in 1 .. x : q[i] = list[(L - x) + i]
  <2>0. x \in Nat /\ L \in Nat /\ x <= L
    BY <1>1
  <2>1. L - x + 1 \in Int /\ L \in Int /\ \A i \in L - x + 1 .. L : list[i] \in Values
    BY <1>1
  <2>2. /\ Len(q) = IF L - x + 1 <= L THEN L - (L - x + 1) + 1 ELSE 0
        /\ \A i \in 1 .. L - (L - x + 1) + 1 : q[i] = list[(L - x + 1) + i - 1]
    BY <2>1, SubSeqProperties
  <2> HIDE DEF L, q
  <2>3. L - (L - x + 1) + 1 = x /\ (~(L - x + 1 <= L) => x = 0)
    BY ONLY <2>0
  <2>4. \A i \in 1 .. x : (L - x + 1) + i - 1 = (L - x) + i
    BY ONLY <2>0
  <2> QED BY <2>2, <2>3, <2>4
<1> HIDE DEF q
<1>10. Reverse(p) = q
  BY <1>5, <1>8, <1>9, SeqEqual
<1> QED BY <1>2, <1>3, <1>5, <1>10 DEF L

\* LPOP and RPOP answer with the elements taken from the list, in the order in which
\* they were taken.
LEMMA PopReply ==
  ASSUME NEW db, IsStore(db), Usage(db) <= LRU_MAX_MEMORY, NEW c \in CommandType, NEW f \in BOOLEAN,
         ~generic_pop(db, c, f).dead
  PROVE  LET o == generic_pop(db, c, f)
             left == o.db[Find(o.db, c.key)].data
             list == db[Find(db, c.key)].data
         IN /\ o.reply[1] = "error" => Same(o, db)
            /\ o.reply[1] # "error" /\ Find(o.db, c.key) > 0 =>
                 IF f THEN o.reply[2] \o left = list ELSE left \o Reverse(o.reply[2]) = list
<1> DEFINE k == c.key
           i == Find(db, k)
           list == DataAt(db, k, <<>>)
           x == PopCount(list, c)
           left == PopLeft(list, c, f)
           n == Node(k, "LIST", left, 0)
           o == generic_pop(db, c, f)
           pops == c.opt # "extra" /\ Has(db, k, "LIST")
<1>1. /\ i \in 0 .. Len(db)
      /\ i > 0 => db[i] \in Nodes
  BY FindNode
<1>2. o = LET l == db[i].data
          IN IF c.opt = "extra" THEN Read(db, Error("ERR"))
             ELSE IF i = 0 THEN Read(db, Array(<<>>))
             ELSE IF db[i].type # "LIST" THEN Refused(db)
             ELSE IF PopCount(l, c) < 0 THEN [Outcome(db, TRUE, Nil) EXCEPT !.dead = TRUE]
             ELSE Outcome(touch_lru([db EXCEPT ![i].data = PopLeft(l, c, f)], i), TRUE,
                          Array(Popped(l, PopCount(l, c), f)))
  BY Zenon DEF generic_pop, PopCount, PopLeft
<1>3. /\ ~pops => Same(o, db)
      /\ pops /\ x < 0 => o.dead
      /\ pops /\ ~(x < 0) => Puts(o, Others(Range(db), k) \cup {n})
  BY PopEffect
<1>4. ~o.dead
  OBVIOUS
<1> HIDE DEF o
<1>5. CASE ~pops
  <2>1. Same(o, db)
    BY <1>3, <1>5
  <2>2. c.opt = "extra" \/ i = 0 \/ db[i].type # "LIST"
    BY <1>1, <1>5 DEF Has
  <2>3. CASE c.opt = "extra" \/ i # 0
    <3>1. o = Read(db, Error("ERR")) \/ o = Read(db, WRONGTYPE)
      BY <1>2, <2>2, <2>3 DEF Refused
    <3>2. o.reply[1] = "error"
      BY <3>1 DEF Read, Outcome, Error, WRONGTYPE
    <3> QED BY <2>1, <3>2 DEF o
  <2>4. CASE c.opt # "extra" /\ i = 0
    <3>1. o = Read(db, Array(<<>>))
      BY <1>2, <2>4
    <3>2. o.db = db
      BY <3>1 DEF Read, Outcome
    <3>3. ~(Find(o.db, k) > 0)
      BY <2>4, <3>2
    <3> QED BY ONLY <2>1, <3>3 DEF o
  <2> QED BY <2>3, <2>4
<1>6. CASE pops
  <2>1. i # 0 /\ db[i].type = "LIST" /\ list = db[i].data /\ c.opt # "extra"
    BY <1>1, <1>6 DEF Has, DataAt
  <2>2. ~(x < 0) /\ Puts(o, Others(Range(db), k) \cup {n})
    BY <1>3, <1>4, <1>6
  <2>3. list \in Seq(Values)
    BY <1>1, <2>1, NodeFields
  <2>4. x \in 0 .. Len(list)
    <3>1. c.num \in Int /\ Len(list) \in Nat
      BY <2>3, CommandFields, LenProperties
    <3> QED BY <2>2, <3>1 DEF PopCount
  <2> DEFINE d == touch_lru([db EXCEPT ![i].data = PopLeft(db[i].data, c, f)], i)
             a == Popped(list, x, f)
  <2>5. o = Outcome(d, TRUE, Array(a))
    <3> HIDE DEF i
    <3> QED BY <1>2, <2>1, <2>2
  <2> HIDE DEF d, a
  <2>6. o.reply[1] = "array" /\ o.reply[2] = a
    BY <2>5 DEF Outcome, Array
  <2>7. n.key = k /\ n.data = left
    BY DEF Node
  <2> HIDE DEF n
  <2>8. OnlyNode(o.db, k, n)
    BY <2>2, <2>7, PutsOnly
  <2>9. Find(o.db, k) > 0 => o.db[Find(o.db, k)].data = left
    BY <2>7, <2>8, PutAt
  <2>10. left = IF f THEN SubSeq(list, x + 1, Len(list)) ELSE SubSeq(list, 1, Len(list) - x)
    BY DEF PopLeft
  <2> HIDE DEF x, left, list
  <2>11. IF f THEN a \o left = list ELSE left \o Reverse(a) = list
    <3>1. /\ Popped(list, x, TRUE) \o SubSeq(list, x + 1, Len(list)) = list
          /\ SubSeq(list, 1, Len(list) - x) \o Reverse(Popped(list, x, FALSE)) = list
      BY <2>3, <2>4, PopSplits
    <3>2. CASE f
      <4>1. a = Popped(list, x, TRUE)
        BY <3>2 DEF a
      <4> QED BY <2>10, <3>1, <3>2, <4>1
    <3>3. CASE ~f
      <4>1. a = Popped(list, x, FALSE)
        BY <3>3 DEF a
      <4> QED BY <2>10, <3>1, <3>3, <4>1
    <3> QED BY <3>2, <3>3
  <2> QED BY <2>1, <2>6, <2>9, <2>11 DEF o
<1> QED BY <1>5, <1>6

\* SET, GET and DEL answer with an error only if they change nothing.
LEMMA SetReply ==
  ASSUME NEW db, IsStore(db), Usage(db) <= LRU_MAX_MEMORY, NEW c \in CommandType, c.op = "SET", NEW t \in Int
  PROVE  command_set(db, c, t).reply[1] = "error" => Same(command_set(db, c, t), db)
<1> DEFINE n == SetNode(c, t)
           i == Find(db, c.key)
           reply == <<"simple", "OK">>
           done == IF i > 0 THEN update_lru(db, i, n, reply) ELSE add_lru(db, n, reply)
           x == done.silent \cup IF c.opt \in {"EX", "PX"} THEN {"relative"} ELSE {}
           o == command_set(db, c, t)
<1>1. o = IF c.opt = "invalid" THEN Read(db, Error("ERR")) ELSE [done EXCEPT !.silent = x]
  BY DEF command_set, SetNode
<1>2. c.opt = "invalid" => Same(o, db)
  BY SetEffect
<1> HIDE DEF o
<1>3. CASE c.opt # "invalid"
  <2>1. n \in Nodes /\ n.key = c.key
    <3>1. c.key \in Keys /\ c.num \in Int /\ c.args[1] \in Values
      BY CommandFields
    <3>2. expire_at(c, t) \in Int
      BY <3>1 DEF expire_at
    <3>3. n.key = c.key
      BY DEF SetNode, Node
    <3> QED BY <3>1, <3>2, <3>3, MakesNode DEF SetNode
  <2>2. /\ i \in 0 .. Len(db) /\ (i > 0 => i \in 1 .. Len(db) /\ db[i].key = c.key)
        /\ i = 0 => \A m \in Range(db) : m.key # c.key
    BY FindNode
  <2> HIDE DEF n, i, reply
  <2>3. IsOutcome(done) /\ done.reply = reply
    <3>1. CASE i > 0
      <4>1. /\ Puts(update_lru(db, i, n, reply), Others(Range(db), n.key) \cup {n})
            /\ update_lru(db, i, n, reply).reply = reply
        BY <2>1, <2>2, <3>1, UpdatePuts
      <4> QED BY <3>1, <4>1 DEF Puts
    <3>2. CASE ~(i > 0)
      <4>0. \A m \in Range(db) : m.key # n.key
        BY <2>1, <2>2, <3>2
      <4>1. /\ Puts(add_lru(db, n, reply), Others(Range(db), n.key) \cup {n})
            /\ add_lru(db, n, reply).reply = reply
        BY <2>1, <4>0, AddPuts
      <4> QED BY <3>2, <4>1 DEF Puts
    <3> QED BY <3>1, <3>2
  <2> HIDE DEF done, x
  <2>4. o = [db |-> done.db, ok |-> done.ok, reply |-> done.reply, dead |-> done.dead, silent |-> x]
    BY <1>1, <1>3, <2>3, ExceptOutcome
  <2>5. o.reply = reply
    BY <2>3, <2>4
  <2>6. o.reply[1] # "error"
    BY <2>5 DEF reply
  <2> QED BY <2>6 DEF o
<1> QED BY <1>2, <1>3 DEF o

\* The same for GET, which answers the client of an expired key as that of a missing one.
LEMMA GetReply ==
  ASSUME NEW db, IsStore(db), NEW c, NEW t
  PROVE  command_get(db, c, t).reply[1] = "error" => Same(command_get(db, c, t), db)
<1> DEFINE i == Find(db, c.key)
           o == command_get(db, c, t)
<1>1. i \in 0 .. Len(db) /\ (i > 0 => i \in 1 .. Len(db))
  BY FindNode
<1>2. o = IF i = 0 THEN Read(db, Nil)
          ELSE IF db[i].type # "STRING" THEN Refused(db)
          ELSE IF Expired(db[i], t)
          THEN [Read(RemoveAt(db, i), Nil) EXCEPT !.silent = {"expiry"}]
          ELSE Read(touch_lru(db, i), Bulk(db[i].data))
  BY DEF command_get
<1> HIDE DEF o, i
<1>3. CASE i # 0 /\ db[i].type = "STRING" /\ Expired(db[i], t)
  <2> DEFINE d == RemoveAt(db, i)
             p == Read(d, Nil)
  <2>1. IsOutcome(p) /\ p.reply = Nil
    BY DEF Read, Outcome, IsOutcome
  <2>2. o = [p EXCEPT !.silent = {"expiry"}]
    BY <1>2, <1>3
  <2> HIDE DEF p
  <2>3. o = [db |-> p.db, ok |-> p.ok, reply |-> p.reply, dead |-> p.dead, silent |-> {"expiry"}]
    BY <2>1, <2>2, ExceptOutcome
  <2>4. o.reply = Nil
    BY <2>1, <2>3
  <2>5. o.reply[1] # "error"
    BY <2>4 DEF Nil
  <2> QED BY <2>5 DEF o
<1>4. CASE ~(i # 0 /\ db[i].type = "STRING" /\ Expired(db[i], t))
  <2>1. \/ \E r : o = Read(db, r)
        \/ i # 0 /\ o = Read(touch_lru(db, i), Bulk(db[i].data))
    BY <1>2, <1>4 DEF Refused
  <2>2. i # 0 => i \in 1 .. Len(db)
    BY <1>1
  <2>3. Same(o, db)
    BY <2>1, <2>2, ReadSame, TouchSame
  <2> QED BY <2>3 DEF o
<1> QED BY <1>3, <1>4

\* The answer to a command is what it changes, in every store.
LEMMA ExecuteTells ==
  ASSUME NEW db, IsStore(db), Usage(db) <= LRU_MAX_MEMORY, NEW c \in CommandType, NEW t \in Int,
         ~Execute(db, c, t).dead
  PROVE  TellsChange(db, c, Execute(db, c, t), t)
<1> DEFINE o == Execute(db, c, t)
           k == c.key
           list(s) == s[Find(s, k)].data
           counted == o.reply[1] # "error" /\ Find(o.db, k) > 0
           tells == CASE c.op \in {"SADD", "HSET"} -> o.reply[2] = SizeAt(o.db, k) - SizeAt(db, k)
                      [] c.op \in {"SDEL", "HDEL"} -> o.reply[2] = SizeAt(db, k) - SizeAt(o.db, k)
                      [] c.op \in {"LPUSH", "RPUSH"} -> o.reply[2] = SizeAt(o.db, k)
                      [] c.op = "LPOP" -> o.reply[2] \o list(o.db) = list(db)
                      [] c.op = "RPOP" -> list(o.db) \o Reverse(o.reply[2]) = list(db)
                      [] OTHER -> TRUE
<1>1. SUFFICES /\ o.reply[1] = "error" => Same(o, db)
               /\ counted => tells
               /\ c.op = "DEL" => o.reply[2] = Len(db) - Len(o.db)
  <2>1. ASSUME Same(o, db) PROVE ~o.ok /\ SameContents(o.db, db, t)
    <3>1. IsStore(o.db) /\ Range(o.db) = Range(db) /\ ~o.ok
      BY <2>1 DEF Same
    <3> HIDE DEF o
    <3>2. Sim(o.db, db, t)
      BY <3>1 DEF Sim
    <3> QED BY <3>1, <3>2, SimVisible
  <2> HIDE DEF o
  <2> QED BY <2>1 DEF TellsChange, SizeAt, o
<1>2. CASE c.op \in {"SADD", "SDEL"}
  <2>1. o = IF c.op = "SADD" THEN command_sadd(db, c) ELSE command_sdel(db, c)
    BY <1>2 DEF Execute
  <2> HIDE DEF o
  <2> QED BY <1>2, <2>1, SetReplies
<1>3. CASE c.op = "HSET"
  <2>1. o = command_hset(db, c)
    BY <1>3 DEF Execute
  <2>2. ~o.dead
    OBVIOUS
  <2> HIDE DEF o
  <2> QED BY <1>3, <2>1, <2>2, HsetReply
<1>4. CASE c.op = "HDEL"
  <2>1. o = command_hdel(db, c)
    BY <1>4 DEF Execute
  <2> HIDE DEF o
  <2> QED BY <1>4, <2>1, HdelReply
<1>5. CASE c.op \in {"LPUSH", "RPUSH"}
  <2>1. o = generic_push(db, c, TRUE) \/ o = generic_push(db, c, FALSE)
    BY <1>5 DEF Execute
  <2> HIDE DEF o
  <2> QED BY <1>5, <2>1, PushReply
<1>6. CASE c.op = "LPOP"
  <2>1. o = generic_pop(db, c, TRUE)
    BY <1>6 DEF Execute
  <2>2. ~o.dead
    OBVIOUS
  <2> HIDE DEF o
  <2> QED BY <1>6, <2>1, <2>2, PopReply
<1>7. CASE c.op = "RPOP"
  <2>1. o = generic_pop(db, c, FALSE)
    BY <1>7 DEF Execute
  <2>2. ~o.dead
    OBVIOUS
  <2> HIDE DEF o
  <2> QED BY <1>7, <2>1, <2>2, PopReply
<1>8. CASE c.op = "DEL"
  <2> DEFINE kept == Keep(db, {n \in Range(db) : n.key \notin {k} \cup Range(c.args)})
             x == Len(db) - Len(kept)
  <2>1. o = Outcome(kept, x > 0, send_integer(x))
    BY <1>8 DEF Execute, command_del
  <2> HIDE DEF o, kept
  <2>2. o.db = kept /\ o.reply[1] = "int" /\ o.reply[2] = x
    BY <2>1 DEF Outcome, send_integer
  <2> QED BY <1>8, <2>2
<1>9. CASE c.op = "SET"
  <2>1. o = command_set(db, c, t)
    BY <1>9 DEF Execute
  <2> HIDE DEF o
  <2> QED BY <1>9, <2>1, SetReply
<1>10. CASE c.op = "GET"
  <2>1. o = command_get(db, c, t)
    BY <1>10 DEF Execute
  <2> HIDE DEF o
  <2> QED BY <1>10, <2>1, GetReply
<1>11. CASE c.op \notin {"SET", "GET", "LPUSH", "RPUSH", "LPOP", "RPOP", "DEL", "HSET", "HDEL", "SADD", "SDEL"}
  <2>1. Same(o, db)
    BY <1>11, QueryEffect
  <2> HIDE DEF o
  <2> QED BY <1>11, <2>1
<1> QED BY <1>2, <1>3, <1>4, <1>5, <1>6, <1>7, <1>8, <1>9, <1>10, <1>11

(***************************************************************************)
(* What the queries tell.                                                  *)
(***************************************************************************)

\* The arguments of a query.
LEMMA QueryFields ==
  ASSUME NEW k, NEW args
  PROVE  Query(k, args).key = k /\ Query(k, args).args = args /\ Query(k, args).opt = "none"
BY DEF Query, Command

\* The value in a reply.
LEMMA ReplyValue ==
  ASSUME NEW v
  PROVE  Array(v)[2] = v /\ send_integer(v)[2] = v /\ Bulk(v)[2] = v /\ Bulk(v) # Nil
<1>1. Bulk(v)[1] = "bulk" /\ Nil[1] = "nil"
  BY DEF Bulk, Nil
<1>2. Array(v)[2] = v /\ send_integer(v)[2] = v /\ Bulk(v)[2] = v
  BY DEF Array, send_integer, Bulk
<1> QED BY <1>1, <1>2

\* The less and the greater of two numbers.
LEMMA OfTwo ==
  ASSUME NEW a \in Int, NEW b \in Int
  PROVE  Min({a, b}) = (IF a <= b THEN a ELSE b) /\ Max({a, b}) = (IF a <= b THEN b ELSE a)
<1>1. \E x \in {a, b} : \A y \in {a, b} : x <= y
  OBVIOUS
<1>2. \E x \in {a, b} : \A y \in {a, b} : x >= y
  OBVIOUS
<1>3. Min({a, b}) \in {a, b} /\ \A y \in {a, b} : Min({a, b}) <= y
  BY <1>1 DEF Min
<1>4. Max({a, b}) \in {a, b} /\ \A y \in {a, b} : Max({a, b}) >= y
  BY <1>2 DEF Max
<1> QED BY <1>3, <1>4

FromEnd(x, size) == IF x < 0 THEN x + size ELSE x
Lowest(x) == IF x <= 0 THEN 0 ELSE x
Highest(x, size) == IF x <= size - 1 THEN x ELSE size - 1

\* LRANGE answers with the part of the list between the numbers (commands.cpp:179).
LEMMA RangeReply ==
  ASSUME NEW db, IsStore(db), NEW k, Has(db, k, "LIST"), NEW a \in Int, NEW b \in Int
  PROVE  LET list == db[Find(db, k)].data
             size == Len(list)
         IN command_lrange(db, Query(k, <<a, b>>)).reply[2]
              = SubSeq(list, Lowest(FromEnd(a, size)) + 1, Highest(FromEnd(b, size), size) + 1)
<1> DEFINE i == Find(db, k)
           list == db[i].data
           size == Len(list)
           q == Query(k, <<a, b>>)
           x == FromEnd(a, size)
           y == FromEnd(b, size)
           li == Max({x, 0})
           ri == Min({y, size - 1})
           o == command_lrange(db, q)
<1>1. q.key = k /\ q.args[1] = a /\ q.args[2] = b /\ q.opt = "none"
  BY QueryFields
<1>2. i # 0 /\ db[i].type = "LIST" /\ list \in Seq(Values) /\ size \in Nat
  <2>1. i > 0 /\ db[i].type = "LIST" /\ db[i] \in Nodes /\ i \in 0 .. Len(db)
    BY FindNode DEF Has
  <2>2. list \in Seq(Values)
    BY <2>1, NodeFields
  <2> QED BY <2>1, <2>2, LenProperties
<1> HIDE DEF q
<1>3. o.reply = CASE q.opt = "invalid" -> Error("RANGE")
                  [] q.opt # "invalid" /\ (li >= size \/ li > ri) -> Array(<<>>)
                  [] OTHER -> Array(SubSeq(list, li + 1, ri + 1))
  <2> DEFINE r == CASE q.opt = "invalid" -> Error("RANGE")
                    [] q.opt # "invalid" /\ (li >= size \/ li > ri) -> Array(<<>>)
                    [] OTHER -> Array(SubSeq(list, li + 1, ri + 1))
             d == touch_lru(db, i)
  <2>1. o = Read(d, r)
    BY <1>1, <1>2 DEF command_lrange, FromEnd, LastIndex
  <2> HIDE DEF r, d, o
  <2>2. o.reply = r
    BY <2>1 DEF Read, Outcome
  <2> QED BY <2>2 DEF r
<1>4. li = Lowest(x) /\ ri = Highest(y, size) /\ x \in Int /\ y \in Int
  <2>1. x \in Int /\ y \in Int /\ size - 1 \in Int
    BY <1>2 DEF FromEnd
  <2> HIDE DEF x, y, size
  <2> QED BY <2>1, OfTwo DEF Lowest, Highest
<1>5. li \in Int /\ ri \in Int /\ ri < size
  BY <1>2, <1>4 DEF Lowest, Highest
<1> HIDE DEF li, ri, o
<1>6. CASE li >= size \/ li > ri
  <2>1. o.reply = Array(<<>>)
    BY <1>1, <1>3, <1>6
  <2>2. li + 1 > ri + 1
    BY <1>2, <1>5, <1>6
  <2>3. SubSeq(list, li + 1, ri + 1) = <<>>
    BY <1>2, <1>5, <2>2, SubSeqEmpty
  <2>4. o.reply[2] = SubSeq(list, li + 1, ri + 1)
    BY <2>1, <2>3, ReplyValue
  <2> QED BY <1>4, <2>4 DEF o, q
<1>7. CASE ~(li >= size \/ li > ri)
  <2>1. o.reply = Array(SubSeq(list, li + 1, ri + 1))
    BY <1>1, <1>3, <1>7
  <2>2. o.reply[2] = SubSeq(list, li + 1, ri + 1)
    BY <2>1, ReplyValue
  <2> QED BY <1>4, <2>2 DEF o, q
<1> QED BY <1>6, <1>7

\* LRANGE and LLEN tell the same list.
LEMMA ListTells ==
  ASSUME NEW db, IsStore(db), NEW k, Has(db, k, "LIST")
  PROVE  ListAgrees(db, k)
<1> DEFINE i == Find(db, k)
           list == db[i].data
           n == Len(list)
           range(a, b) == command_lrange(db, Query(k, <<a, b>>)).reply[2]
<1>1. i # 0 /\ db[i].type = "LIST" /\ list \in Seq(Values) /\ n \in Nat
  <2>1. i > 0 /\ db[i].type = "LIST" /\ db[i] \in Nodes /\ i \in 0 .. Len(db)
    BY FindNode DEF Has
  <2>2. list \in Seq(Values)
    BY <2>1, NodeFields
  <2> QED BY <2>1, <2>2, LenProperties
<1>2. \A a, b \in Int : range(a, b) = SubSeq(list, Lowest(FromEnd(a, n)) + 1, Highest(FromEnd(b, n), n) + 1)
  BY RangeReply
<1>3. command_llen(db, Query(k, <<>>)).reply[2] = n
  <2> DEFINE q == Query(k, <<>>)
             o == command_llen(db, q)
             d == touch_lru(db, i)
  <2>1. q.key = k
    BY QueryFields
  <2> HIDE DEF q
  <2>2. o = Read(d, send_integer(n))
    BY <1>1, <2>1 DEF command_llen
  <2> HIDE DEF o, d
  <2>3. o.reply = send_integer(n)
    BY <2>2 DEF Read, Outcome
  <2> QED BY <2>3 DEF send_integer, o, q
<1> HIDE DEF range
<1>4. SubSeq(list, 1, n) = list
  BY <1>1, SubSeqFull
<1> SUFFICES /\ range(0, -1) = list
             /\ \A j \in (-n - 2 .. n + 1) \ {-1} : range(0, j) \o range(j + 1, -1) = list
  BY <1>3 DEF ListAgrees, range
<1> HIDE DEF list, i
<1>5. range(0, -1) = list
  <2>1. Lowest(FromEnd(0, n)) + 1 = 1 /\ Highest(FromEnd(-1, n), n) + 1 = n
    BY <1>1 DEF Lowest, Highest, FromEnd
  <2> HIDE DEF n
  <2>2. range(0, -1) = SubSeq(list, Lowest(FromEnd(0, n)) + 1, Highest(FromEnd(-1, n), n) + 1)
    BY <1>2
  <2> QED BY <1>4, <2>1, <2>2
<1>6. ASSUME NEW j \in (-n - 2 .. n + 1) \ {-1} PROVE range(0, j) \o range(j + 1, -1) = list
  <2> DEFINE p == FromEnd(j, n) + 1
             e == IF p <= n THEN p ELSE n
             s == IF p <= 0 THEN 0 ELSE p
  <2>1. j \in Int /\ j + 1 \in Int /\ -1 \in Int /\ p \in Int
    BY <1>1 DEF FromEnd
  <2>2. /\ Lowest(FromEnd(0, n)) + 1 = 1 /\ Highest(FromEnd(-1, n), n) + 1 = n
        /\ Highest(FromEnd(j, n), n) + 1 = e /\ Lowest(FromEnd(j + 1, n)) + 1 = s + 1
    BY <1>1, <2>1 DEF Lowest, Highest, FromEnd
  <2> HIDE DEF n, p, e, s
  <2>3. range(0, j) = SubSeq(list, 1, e) /\ range(j + 1, -1) = SubSeq(list, s + 1, n)
    <3>1. /\ range(0, j) = SubSeq(list, Lowest(FromEnd(0, n)) + 1, Highest(FromEnd(j, n), n) + 1)
          /\ range(j + 1, -1) = SubSeq(list, Lowest(FromEnd(j + 1, n)) + 1, Highest(FromEnd(-1, n), n) + 1)
      BY <1>2, <2>1
    <3> QED BY <2>2, <3>1
  <2>4. list \o <<>> = list /\ <<>> \o list = list
    BY <1>1, ConcatEmptySeq
  <2>5. CASE p < 0
    <3>1. e < 1 /\ s + 1 = 1 /\ e \in Int
      BY <1>1, <2>1, <2>5 DEF e, s
    <3>2. SubSeq(list, 1, e) = <<>>
      BY <1>1, <3>1, SubSeqEmpty
    <3> QED BY <1>4, <2>3, <2>4, <3>1, <3>2
  <2>6. CASE p \in 0 .. n
    <3>1. e = p /\ s = p
      BY <1>1, <2>6 DEF e, s
    <3>2. SubSeq(list, 1, p) \o SubSeq(list, p + 1, n) = list
      BY <1>1, <2>6, Halves DEF n
    <3> QED BY <2>3, <3>1, <3>2
  <2>7. CASE p > n
    <3>1. e = n /\ s + 1 > n /\ s + 1 \in Int
      BY <1>1, <2>1, <2>7 DEF e, s
    <3>2. SubSeq(list, s + 1, n) = <<>>
      BY <1>1, <3>1, SubSeqEmpty
    <3> QED BY <1>4, <2>3, <2>4, <3>1, <3>2
  <2> QED BY <1>1, <2>1, <2>5, <2>6, <2>7
<1> QED BY <1>5, <1>6

\* HGET, HGETALL and HLEN tell the same hash.
LEMMA HashTells ==
  ASSUME NEW db, IsStore(db), NEW k, Has(db, k, "HASH")
  PROVE  HashAgrees(db, k, Values)
<1> DEFINE i == Find(db, k)
           hash == db[i].data
           get(f) == command_hget(db, Query(k, <<f>>)).reply
           all == command_hgetall(db, Query(k, <<>>)).reply[2]
           len == command_hlen(db, Query(k, <<>>)).reply[2]
           found == {f \in Values : get(f) # Nil}
<1>1. i # 0 /\ db[i].type = "HASH" /\ hash \in Hashes
  <2>1. i > 0 /\ db[i].type = "HASH" /\ db[i] \in Nodes /\ i \in 0 .. Len(db)
    BY FindNode DEF Has
  <2>2. hash \in Hashes
    BY <2>1, NodeFields
  <2> QED BY <2>1, <2>2
<1>2. DOMAIN hash \subseteq Values
  BY <1>1, HashFields DEF Finite
<1>3. ASSUME NEW f PROVE get(f) = IF f \in DOMAIN hash THEN Bulk(hash[f]) ELSE Nil
  <2> DEFINE q == Query(k, <<f>>)
             o == command_hget(db, q)
             d == touch_lru(db, i)
             r == Bulk(hash[f])
  <2>1. q.key = k /\ q.args[1] = f
    BY QueryFields
  <2> HIDE DEF q
  <2>2. o = IF f \notin DOMAIN hash THEN Read(db, Nil) ELSE Read(d, r)
    BY <1>1, <2>1 DEF command_hget
  <2> HIDE DEF o, d, r, hash
  <2>3. o.reply = IF f \notin DOMAIN hash THEN Nil ELSE r
    BY <2>2 DEF Read, Outcome
  <2> QED BY <2>3 DEF o, q, r
<1>4. all = {<<f, hash[f]>> : f \in DOMAIN hash}
  <2> DEFINE q == Query(k, <<>>)
             o == command_hgetall(db, q)
             d == touch_lru(db, i)
             a == {<<f, hash[f]>> : f \in DOMAIN hash}
  <2>1. q.key = k
    BY QueryFields
  <2> HIDE DEF q
  <2>2. o = Read(d, Array(a))
    BY <1>1, <2>1 DEF command_hgetall
  <2> HIDE DEF o, d, a
  <2>3. o.reply = Array(a)
    BY <2>2 DEF Read, Outcome
  <2>4. o.reply[2] = a
    BY <2>3, ReplyValue
  <2> QED BY <2>4 DEF o, q, a
<1>5. len = Cardinality(DOMAIN hash)
  <2> DEFINE q == Query(k, <<>>)
             o == command_hlen(db, q)
             a == Cardinality(DOMAIN hash)
  <2>1. q.key = k
    BY QueryFields
  <2> HIDE DEF q
  <2>2. o = Read(db, send_integer(a))
    BY <1>1, <2>1 DEF command_hlen, Untouched, Data
  <2> HIDE DEF o, a
  <2>3. o.reply = send_integer(a)
    BY <2>2 DEF Read, Outcome
  <2>4. o.reply[2] = a
    BY <2>3, ReplyValue
  <2> QED BY <2>4 DEF o, q, a
<1> HIDE DEF get, all, len, hash
<1>6. found = DOMAIN hash
  BY <1>2, <1>3, ReplyValue
<1>7. \A f \in DOMAIN hash : get(f)[2] = hash[f]
  BY <1>3, ReplyValue
<1>8. all = {<<f, get(f)[2]>> : f \in found}
  BY <1>4, <1>6, <1>7
<1>9. len = Cardinality(found)
  BY <1>5, <1>6
<1> QED BY <1>8, <1>9 DEF HashAgrees, all, len, get

\* A query that does not touch its key.
LEMMA UntouchedReply ==
  ASSUME NEW db, NEW k, NEW args, NEW type, NEW absent, NEW answer
  PROVE  LET r == Untouched(db, Query(k, args), type, absent, answer).reply
         IN /\ Find(db, k) = 0 => r = absent
            /\ Find(db, k) # 0 /\ db[Find(db, k)].type = type => r = answer
<1> DEFINE q == Query(k, args)
           a == IF Find(db, q.key) = 0 THEN absent
                ELSE IF db[Find(db, q.key)].type # type THEN WRONGTYPE ELSE answer
<1>1. q.key = k
  BY QueryFields
<1> HIDE DEF q
<1>2. Untouched(db, q, type, absent, answer) = Read(db, a)
  BY DEF Untouched
<1>3. Read(db, a).reply = a
  <2> HIDE DEF a
  <2> QED BY DEF Read, Outcome
<1> QED BY <1>1, <1>2, <1>3 DEF q

\* SMEMBERS of a key that is missing or a set.
LEMMA MembersReply ==
  ASSUME NEW db, NEW k, ~OtherType(db, k), Find(db, k) \in Nat
  PROVE  command_smembers(db, Query(k, <<>>)).reply[2] = SetAt(db, k)
<1> DEFINE q == Query(k, <<>>)
           r == command_smembers(db, q).reply
           a == Array({})
           b == Array(db[Find(db, k)].data)
<1>1. Data(db, q) = db[Find(db, k)].data
  BY QueryFields DEF Data
<1>2. r = Untouched(db, q, "SET", a, b).reply
  BY <1>1 DEF command_smembers
<1>3. /\ Find(db, k) = 0 => r = a
      /\ Find(db, k) # 0 /\ db[Find(db, k)].type = "SET" => r = b
  <2> HIDE DEF a, b, r
  <2> QED BY <1>2, UntouchedReply
<1> HIDE DEF r
<1>4. CASE Find(db, k) = 0
  BY <1>3, <1>4, ReplyValue DEF SetAt, Has, r
<1>5. CASE Find(db, k) # 0
  <2>1. Has(db, k, "SET") /\ db[Find(db, k)].type = "SET"
    BY <1>5 DEF OtherType, Has
  <2> QED BY <1>3, <1>5, <2>1, ReplyValue DEF SetAt, r
<1> QED BY <1>4, <1>5

\* SMEMBERS, SISMEMBER, SMISMEMBER and SCARD tell the same set.
LEMMA SetTells ==
  ASSUME NEW db, IsStore(db), NEW k, Has(db, k, "SET")
  PROVE  SetAgrees(db, k, Values)
<1> DEFINE i == Find(db, k)
           set == db[i].data
           members == command_smembers(db, Query(k, <<>>)).reply[2]
           is(v) == command_sismember(db, Query(k, <<v>>)).reply
           card == command_scard(db, Query(k, <<>>)).reply[2]
           are(u, v) == command_smismember(db, Query(k, <<u, v>>)).reply[2]
<1>1. i # 0 /\ i \in Nat /\ db[i].type = "SET" /\ set \in Finite
  <2>1. i > 0 /\ db[i].type = "SET" /\ db[i] \in Nodes /\ i \in 0 .. Len(db)
    BY FindNode DEF Has
  <2>2. set \in Finite
    BY <2>1, NodeFields
  <2> QED BY <2>1, <2>2
<1>2. members = set
  <2>1. ~OtherType(db, k) /\ SetAt(db, k) = set
    BY DEF OtherType, SetAt
  <2> QED BY <1>1, <2>1, MembersReply
<1>3. ASSUME NEW args PROVE Data(db, Query(k, args)) = set /\ Query(k, args).args = args
  BY QueryFields DEF Data
<1>4. ASSUME NEW v PROVE is(v) = send_integer(count(set, v))
  <2> DEFINE a == send_integer(0)
             b == send_integer(count(set, v))
  <2>1. is(v) = Untouched(db, Query(k, <<v>>), "SET", a, b).reply
    BY <1>3 DEF command_sismember
  <2> HIDE DEF a, b
  <2>2. is(v) = b
    BY <1>1, <2>1, UntouchedReply
  <2> QED BY <2>2 DEF b
<1>5. card = Cardinality(set)
  <2> DEFINE a == send_integer(0)
             b == send_integer(Cardinality(set))
             r == command_scard(db, Query(k, <<>>)).reply
  <2>1. r = Untouched(db, Query(k, <<>>), "SET", a, b).reply
    BY <1>3 DEF command_scard
  <2> HIDE DEF a, b, r
  <2>2. r = b
    BY <1>1, <2>1, UntouchedReply
  <2>3. r[2] = Cardinality(set)
    BY <2>2, ReplyValue DEF b
  <2> QED BY <2>3 DEF r
<1>6. ASSUME NEW u, NEW v
      PROVE  are(u, v) = <<send_integer(count(set, u)), send_integer(count(set, v))>>
  <2> DEFINE s == <<u, v>>
             F(x) == send_integer(count(set, x))
             c == [j \in DOMAIN s |-> F(s[j])]
             a == send_integer(0)
             b == Array(c)
             r == command_smismember(db, Query(k, s)).reply
  <2>1. r = Untouched(db, Query(k, s), "SET", a, b).reply
    BY <1>3 DEF command_smismember
  <2>2. c = <<F(u), F(v)>>
    <3> HIDE DEF F
    <3>1. DOMAIN s = 1 .. 2 /\ s[1] = u /\ s[2] = v
      OBVIOUS
    <3> HIDE DEF s
    <3>2. c = [j \in 1 .. 2 |-> IF j = 1 THEN F(u) ELSE F(v)]
      BY <3>1
    <3> QED BY <3>2
  <2> HIDE DEF a, b, r, s
  <2>3. r = b
    BY <1>1, <2>1, UntouchedReply
  <2> HIDE DEF c
  <2>4. r[2] = c
    BY <2>3, ReplyValue DEF b
  <2> QED BY <2>2, <2>4 DEF r, s
<1> HIDE DEF members, is, card, are, set
<1>7. ASSUME NEW v PROVE is(v)[2] = 1 <=> v \in set
  BY <1>4, ReplyValue DEF count
<1>8. members = {v \in Values : is(v)[2] = 1}
  BY <1>1, <1>2, <1>7 DEF Finite
<1>9. card = Cardinality(members)
  BY <1>2, <1>5
<1>10. \A u, v \in Values : are(u, v) = <<is(u), is(v)>>
  BY <1>4, <1>6
<1> QED BY <1>8, <1>9, <1>10 DEF SetAgrees, members, is, card, are

\* SINTER of keys that are missing or sets: none ends the loop with an error.
LEMMA InterReply ==
  ASSUME NEW db, NEW k, NEW T, NEW args \in Seq(T), ~OtherType(db, k),
         \A j \in 1 .. Len(args) : ~OtherType(db, args[j])
  PROVE  command_sinter(db, Query(k, args)).reply[2]
           = {x \in SetAt(db, k) : \A i \in 1 .. Len(args) : x \in SetAt(db, args[i])}
<1> DEFINE q == Query(k, args)
           left(j) == {x \in SetAt(db, k) : \A i \in 1 .. j : x \in SetAt(db, args[i])}
           ends == {j \in DOMAIN args : left(j) = {}}
           bad == OtherType(db, k) \/ (ends # {} /\ OtherType(db, args[Min(ends)]))
           o == command_sinter(db, q)
           a == left(Len(args))
<1>1. q.key = k /\ q.args = args /\ DOMAIN args = 1 .. Len(args) /\ Len(args) \in Nat
  BY QueryFields, LenProperties
<1>2. ~bad
  <2> SUFFICES ASSUME ends # {} PROVE ~OtherType(db, args[Min(ends)])
    OBVIOUS
  <2>1. ends \in SUBSET Nat
    BY <1>1
  <2>2. Min(ends) \in ends
    BY <2>1, MinProperties
  <2>3. Min(ends) \in 1 .. Len(args)
    BY <1>1, <2>2
  <2> QED BY <2>3
<1>3. o = Read(db, IF bad THEN WRONGTYPE ELSE Array(a))
  <2> HIDE DEF q
  <2> QED BY <1>1 DEF command_sinter
<1> HIDE DEF a, bad, o
<1>4. o.reply = Array(a)
  BY <1>2, <1>3 DEF Read, Outcome
<1>5. o.reply[2] = a
  BY <1>4, ReplyValue
<1> QED BY <1>5 DEF o, q, a

\* SDIFF and SUNION of keys that are missing or sets.
LEMMA DiffReply ==
  ASSUME NEW db, NEW k, NEW args, ~OtherType(db, k)
  PROVE  /\ command_sdiff(db, Query(k, args)).reply[2]
              = SetAt(db, k) \ UNION {SetAt(db, j) : j \in Range(args)}
         /\ command_sunion(db, Query(k, args)).reply[2]
              = UNION {SetAt(db, j) : j \in {k} \cup Range(args)}
<1> DEFINE q == Query(k, args)
           a == SetAt(db, k) \ UNION {SetAt(db, j) : j \in Range(args)}
           b == UNION {SetAt(db, j) : j \in {k} \cup Range(args)}
           o == command_sdiff(db, q)
           p == command_sunion(db, q)
<1>1. q.key = k /\ q.args = args
  BY QueryFields
<1> HIDE DEF q
<1>2. o = Read(db, Array(a))
  BY <1>1 DEF command_sdiff
<1>3. p = Read(db, Array(b))
  BY <1>1 DEF command_sunion
<1> HIDE DEF a, b, o, p
<1>4. o.reply = Array(a) /\ p.reply = Array(b)
  BY <1>2, <1>3 DEF Read, Outcome
<1>5. o.reply[2] = a /\ p.reply[2] = b
  BY <1>4, ReplyValue
<1> QED BY <1>5 DEF o, p, q, a, b

\* The operations on sets obey the algebra of sets.
LEMMA AlgebraTells ==
  ASSUME NEW db, IsStore(db), NEW a, NEW b, ~OtherType(db, a), ~OtherType(db, b)
  PROVE  AlgebraAgrees(db, a, b)
<1> DEFINE A == SetAt(db, a)
           B == SetAt(db, b)
           inter(x, args) == command_sinter(db, Query(x, args)).reply[2]
           diff(x, args) == command_sdiff(db, Query(x, args)).reply[2]
           union(x, args) == command_sunion(db, Query(x, args)).reply[2]
           members(x) == command_smembers(db, Query(x, <<>>)).reply[2]
<1>1. members(a) = A
  <2>1. Find(db, a) \in Nat
    BY FindNode, StoreNodes
  <2> QED BY <2>1, MembersReply
<1>2. inter(a, <<b>>) = A \cap B /\ inter(b, <<a>>) = A \cap B
  <2>1. ASSUME NEW x, NEW y, ~OtherType(db, x), ~OtherType(db, y)
        PROVE  inter(x, <<y>>) = SetAt(db, x) \cap SetAt(db, y)
    <3> DEFINE s == <<y>>
    <3>1. s \in Seq({y}) /\ Len(s) = 1 /\ \A j \in 1 .. 1 : s[j] = y
      OBVIOUS
    <3> HIDE DEF s
    <3>2. inter(x, s) = {z \in SetAt(db, x) : \A i \in 1 .. Len(s) : z \in SetAt(db, s[i])}
      BY <2>1, <3>1, InterReply
    <3> HIDE DEF inter
    <3>3. inter(x, s) = SetAt(db, x) \cap SetAt(db, y)
      BY <3>1, <3>2
    <3> QED BY <3>3 DEF s
  <2> HIDE DEF inter
  <2> QED BY <2>1
<1>3. inter(a, <<b, a, b>>) = A \cap B
  <2> DEFINE s == <<b, a, b>>
  <2>1. s \in Seq({a, b}) /\ Len(s) = 3 /\ s[1] = b /\ s[2] = a /\ s[3] = b
    OBVIOUS
  <2> HIDE DEF s
  <2>2. \A j \in 1 .. Len(s) : ~OtherType(db, s[j])
    BY <2>1
  <2>3. inter(a, s) = {z \in SetAt(db, a) : \A i \in 1 .. Len(s) : z \in SetAt(db, s[i])}
    BY <2>1, <2>2, InterReply
  <2> HIDE DEF inter
  <2>4. \A z : (\A i \in 1 .. Len(s) : z \in SetAt(db, s[i])) <=> z \in A /\ z \in B
    BY <2>1
  <2>5. inter(a, s) = A \cap B
    BY <2>3, <2>4
  <2> QED BY <2>5 DEF s
<1>4. diff(a, <<b>>) = A \ B /\ diff(b, <<a>>) = B \ A /\ union(a, <<b>>) = A \cup B
  <2>1. ASSUME NEW x, NEW y, ~OtherType(db, x)
        PROVE  /\ diff(x, <<y>>) = SetAt(db, x) \ SetAt(db, y)
               /\ union(x, <<y>>) = SetAt(db, x) \cup SetAt(db, y)
    <3> DEFINE s == <<y>>
    <3>1. DOMAIN s = {1} /\ s[1] = y
      OBVIOUS
    <3> HIDE DEF s
    <3>2. Range(s) = {y}
      BY <3>1 DEF Range
    <3>3. /\ diff(x, s) = SetAt(db, x) \ UNION {SetAt(db, j) : j \in Range(s)}
          /\ union(x, s) = UNION {SetAt(db, j) : j \in {x} \cup Range(s)}
      BY <2>1, DiffReply
    <3> HIDE DEF diff, union
    <3>4. diff(x, s) = SetAt(db, x) \ SetAt(db, y) /\ union(x, s) = SetAt(db, x) \cup SetAt(db, y)
      BY <3>2, <3>3
    <3> QED BY <3>4 DEF s
  <2> HIDE DEF diff, union
  <2> QED BY <2>1
<1>5. diff(a, <<b, a>>) = {}
  <2>1. a \in Range(<<b, a>>)
    <3>1. <<b, a>>[2] = a /\ 2 \in DOMAIN <<b, a>>
      OBVIOUS
    <3> QED BY <3>1 DEF Range
  <2>2. diff(a, <<b, a>>) = A \ UNION {SetAt(db, j) : j \in Range(<<b, a>>)}
    BY DiffReply
  <2> HIDE DEF diff
  <2> QED BY <2>1, <2>2
<1> HIDE DEF inter, diff, union, members, A, B
<1>6. /\ inter(a, <<b>>) = inter(b, <<a>>)
      /\ inter(a, <<b>>) \cap diff(a, <<b>>) = {}
      /\ inter(a, <<b>>) \cup diff(a, <<b>>) = members(a)
      /\ union(a, <<b>>) = inter(a, <<b>>) \cup diff(a, <<b>>) \cup diff(b, <<a>>)
      /\ inter(a, <<b, a, b>>) = inter(a, <<b>>)
      /\ diff(a, <<b, a>>) = {}
  BY <1>1, <1>2, <1>3, <1>4, <1>5
<1> QED BY <1>6 DEF AlgebraAgrees, inter, diff, union, members

=============================================================================
