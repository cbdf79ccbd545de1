----------------------------- MODULE AofProofs -----------------------------
(***************************************************************************)
(* Proofs about module Aof, for every set of commands clients may send,    *)
(* every memory limit and all bounds.                                      *)
(***************************************************************************)
EXTENDS Aof, KeyspaceProofs

(***************************************************************************)
(* Executing a log again.                                                  *)
(***************************************************************************)

\* The outcome of a command after the outcome o of the ones before it.
After(o, c, t) == IF o.dead THEN o ELSE Execute(o.db, c, t)

NextOutcome(p, c, t) == CHOOSE next \in {After(o, c, t) : o \in {p}} : TRUE

ReplayTable(log, t, n, v) ==
  v = [i \in 0 .. n |-> IF i = 0 THEN Outcome(<<>>, TRUE, Nil) ELSE NextOutcome(v[i - 1], log[i], t)]

\* There is one outcome to choose from.
LEMMA NextIsAfter == ASSUME NEW p, NEW c, NEW t PROVE NextOutcome(p, c, t) = After(p, c, t)
<1>1. {After(o, c, t) : o \in {p}} = {After(p, c, t)}
  OBVIOUS
<1> QED BY <1>1 DEF NextOutcome

\* The recursion of Replay has a solution.
LEMMA ReplayTableExists ==
  ASSUME NEW log, NEW t
  PROVE  \A n \in Nat : \E v : ReplayTable(log, t, n, v)
<1> DEFINE N == {n \in Nat : \E v : ReplayTable(log, t, n, v)}
           none == Outcome(<<>>, TRUE, Nil)
<1>0. \A n, v : ReplayTable(log, t, n, v)
                  <=> v = [i \in 0 .. n |-> IF i = 0 THEN none ELSE After(v[i - 1], log[i], t)]
  <2> DEFINE F(n, v) == [i \in 0 .. n |-> IF i = 0 THEN none ELSE NextOutcome(v[i - 1], log[i], t)]
             G(n, v) == [i \in 0 .. n |-> IF i = 0 THEN none ELSE After(v[i - 1], log[i], t)]
  <2>1. \A n, v : F(n, v) = G(n, v)
    BY NextIsAfter
  <2>2. \A n, v : ReplayTable(log, t, n, v) <=> v = F(n, v)
    BY DEF ReplayTable
  <2>3. \A n, v : ReplayTable(log, t, n, v) <=> v = G(n, v)
    <3> HIDE DEF F, G
    <3> QED BY <2>1, <2>2
  <2> QED BY <2>3
<1> HIDE DEF none
<1>1. 0 \in N
  <2>1. ReplayTable(log, t, 0, [i \in 0 .. 0 |-> none])
    BY NextIsAfter DEF ReplayTable, none
  <2> QED BY <2>1
<1>2. ASSUME NEW n \in Nat, n \in N PROVE n + 1 \in N
  <2>1. PICK v : ReplayTable(log, t, n, v)
    BY <1>2
  <2> DEFINE w == [i \in 0 .. n + 1 |-> IF i = n + 1 THEN After(v[n], log[i], t) ELSE v[i]]
  <2>2. \A i \in 0 .. n : v[i] = IF i = 0 THEN none ELSE After(v[i - 1], log[i], t)
    BY <2>1, <1>0
  <2>3. ASSUME NEW i \in 0 .. n + 1
        PROVE  w[i] = IF i = 0 THEN none ELSE After(w[i - 1], log[i], t)
    <3>1. CASE i = n + 1
      <4>1. w[i - 1] = v[n] /\ i # 0
        BY <3>1
      <4> QED BY <3>1, <4>1
    <3>2. CASE i # n + 1
      <4>1. i \in 0 .. n /\ w[i] = v[i]
        BY <3>2
      <4>2. CASE i = 0
        BY <4>1, <4>2, <2>2
      <4>3. CASE i # 0
        <5>1. w[i - 1] = v[i - 1]
          BY <4>1, <4>3
        <5> QED BY <4>1, <5>1, <2>2
      <4> QED BY <4>2, <4>3
    <3> QED BY <3>1, <3>2
  <2>4. ReplayTable(log, t, n + 1, w)
    BY <1>0, <2>3
  <2> QED BY <2>4
<1>3. \A n \in Nat : n \in N
  BY <1>1, <1>2, NatInd
<1> QED BY <1>3

\* Replaying a log that is one command longer.
LEMMA ReplayAppend ==
  ASSUME NEW T, NEW log \in Seq(T), NEW c \in T, NEW u
  PROVE  /\ Replay(<<>>, u) = Outcome(<<>>, TRUE, Nil)
         /\ Replay(Append(log, c), u) = After(Replay(log, u), c, u)
<1> DEFINE n == Len(log)
           t == Append(log, c)
           z == <<>>
           none == Outcome(<<>>, TRUE, Nil)
           g == CHOOSE v : ReplayTable(log, u, n, v)
           h == CHOOSE v : ReplayTable(t, u, n + 1, v)
           o == CHOOSE v : ReplayTable(z, u, 0, v)
<1>1. /\ n \in Nat /\ n + 1 \in Nat /\ Len(t) = n + 1
      /\ \A i \in 1 .. n : t[i] = log[i]
      /\ t[n + 1] = c
  BY LenProperties, AppendProperties
<1>0. Len(z) = 0
  BY EmptySeq
<1> HIDE DEF t, z
<1>2. Replay(log, u) = g[n]
  BY DEF Replay, ReplayTable, NextOutcome, After
<1>3. Replay(t, u) = h[n + 1]
  BY <1>1 DEF Replay, ReplayTable, NextOutcome, After
<1>4. Replay(z, u) = o[0]
  BY <1>0 DEF Replay, ReplayTable, NextOutcome, After
<1> HIDE DEF n
<1>5. ReplayTable(log, u, n, g)
  BY <1>1, ReplayTableExists, Zenon
<1>6. ReplayTable(t, u, n + 1, h)
  BY <1>1, ReplayTableExists, Zenon
<1>7. ReplayTable(z, u, 0, o)
  <2>1. 0 \in Nat
    OBVIOUS
  <2> QED BY <2>1, ReplayTableExists, Zenon
<1> HIDE DEF g, h, o
<1> HIDE DEF none
<1>8. o[0] = none
  BY <1>7, NextIsAfter DEF ReplayTable, none
<1>9. /\ \A i \in 0 .. n : g[i] = IF i = 0 THEN none ELSE After(g[i - 1], log[i], u)
      /\ \A i \in 0 .. n + 1 : h[i] = IF i = 0 THEN none ELSE After(h[i - 1], t[i], u)
  <2>1. \A i \in 0 .. n : g[i] = IF i = 0 THEN none ELSE After(g[i - 1], log[i], u)
    BY <1>5, NextIsAfter DEF ReplayTable, none
  <2>2. \A i \in 0 .. n + 1 : h[i] = IF i = 0 THEN none ELSE After(h[i - 1], t[i], u)
    BY <1>6, NextIsAfter DEF ReplayTable, none
  <2> QED BY <2>1, <2>2
<1> DEFINE N == {i \in Nat : i <= n => g[i] = h[i]}
<1>10. 0 \in N
  BY <1>9, <1>1
<1>11. ASSUME NEW i \in Nat, i \in N PROVE i + 1 \in N
  <2> SUFFICES ASSUME i + 1 <= n PROVE g[i + 1] = h[i + 1]
    OBVIOUS
  <2>1. /\ i + 1 \in 0 .. n /\ i + 1 \in 0 .. n + 1 /\ i + 1 # 0 /\ (i + 1) - 1 = i
        /\ t[i + 1] = log[i + 1] /\ g[i] = h[i]
    BY <1>1, <1>11
  <2> QED BY <2>1, <1>9
<1>12. n \in N
  BY <1>1, <1>10, <1>11, NatInd
<1>13. h[n + 1] = After(g[n], c, u)
  <2>1. n + 1 \in 0 .. n + 1 /\ n + 1 # 0 /\ (n + 1) - 1 = n /\ g[n] = h[n]
    BY <1>1, <1>12
  <2> QED BY <2>1, <1>9, <1>1
<1> QED BY <1>2, <1>3, <1>4, <1>8, <1>13 DEF t, z, none

\* Replaying nothing.
LEMMA ReplayEmpty == ASSUME NEW u PROVE Replay(<<>>, u) = Outcome(<<>>, TRUE, Nil)
<1>1. <<>> \in Seq({0}) /\ 0 \in {0}
  OBVIOUS
<1> QED BY <1>1, ReplayAppend

\* Replaying gives a store within the limit.
LEMMA ReplayHolds ==
  ASSUME NEW u \in Int
  PROVE  \A log \in Seq(CommandType) : Holds(Replay(log, u))
<1> DEFINE S == {log \in Seq(CommandType) : Holds(Replay(log, u))}
<1>1. <<>> \in S
  <2>1. <<>> \in Seq(CommandType)
    OBVIOUS
  <2>2. Replay(<<>>, u) = Outcome(<<>>, TRUE, Nil)
    BY ReplayEmpty
  <2>3. Range(<<>>) = {}
    BY DEF Range
  <2>4. Usage(<<>>) = 0
    BY <2>3, UsageTotal, TotalRemove, FS_EmptySet
  <2>5. Usage(<<>>) <= LRU_MAX_MEMORY
    BY <2>4, WeightAssumption
  <2>6. IsOutcome(Outcome(<<>>, TRUE, Nil)) /\ Outcome(<<>>, TRUE, Nil).db = <<>>
    BY DEF IsOutcome, Outcome
  <2> QED BY <2>1, <2>2, <2>5, <2>6, EmptyStore DEF Holds
<1>2. ASSUME NEW log \in Seq(CommandType), NEW c \in CommandType, log \in S PROVE Append(log, c) \in S
  <2>1. Append(log, c) \in Seq(CommandType) /\ Replay(Append(log, c), u) = After(Replay(log, u), c, u)
    BY ReplayAppend, AppendProperties
  <2>2. Holds(Replay(log, u))
    BY <1>2
  <2> DEFINE o == Replay(log, u)
  <2> HIDE DEF o
  <2>3. Holds(o)
    BY <2>2 DEF o
  <2>4. IsStore(o.db) /\ Usage(o.db) <= LRU_MAX_MEMORY
    BY <2>3 DEF Holds
  <2>5. Holds(Execute(o.db, c, u))
    BY <2>4, ExecuteHolds
  <2>6. Holds(After(o, c, u))
    BY <2>3, <2>5 DEF After
  <2> QED BY <2>1, <2>6 DEF o
<1> HIDE DEF S
<1>3. \A log \in Seq(CommandType) : log \in S
  BY <1>1, <1>2, SeqInd
<1> QED BY <1>3 DEF S

\* The commands of a log, and those of them that do the same at any time.
LogCommand == {c \in CommandType : c.op \in is_valid}
Durable == {c \in LogCommand : c.op = "SET" => c.opt \notin {"EX", "PX"}}

\* Only the relative expiry times of SET depend on the clock when a log is replayed.
LEMMA ReplayTimeless ==
  ASSUME NEW t, NEW u
  PROVE  \A log \in Seq(Durable) : Replay(log, t) = Replay(log, u)
<1>1. ASSUME NEW R, NEW c \in Durable PROVE Execute(R, c, t) = Execute(R, c, u)
  <2>1. c.op \in is_valid /\ (c.op = "SET" => c.opt \notin {"EX", "PX"})
    BY DEF Durable, LogCommand
  <2>2. CASE c.op = "SET"
    <3>1. expire_at(c, t) = expire_at(c, u)
      BY <2>1, <2>2 DEF expire_at
    <3>2. command_set(R, c, t) = command_set(R, c, u)
      BY <3>1 DEF command_set
    <3> QED BY <2>2, <3>2 DEF Execute
  <2>3. CASE c.op # "SET"
    <3>1. c.op \in is_valid \ {"SET", "GET"}
      BY <2>1, <2>3 DEF is_valid
    <3> QED BY <3>1 DEF Execute, is_valid
  <2> QED BY <2>2, <2>3
<1> DEFINE S == {log \in Seq(Durable) : Replay(log, t) = Replay(log, u)}
<1>2. <<>> \in S
  <2>1. <<>> \in Seq(Durable)
    OBVIOUS
  <2> QED BY <2>1, ReplayEmpty
<1>3. ASSUME NEW log \in Seq(Durable), NEW c \in Durable, log \in S PROVE Append(log, c) \in S
  <2>1. /\ Append(log, c) \in Seq(Durable)
        /\ Replay(Append(log, c), t) = After(Replay(log, t), c, t)
        /\ Replay(Append(log, c), u) = After(Replay(log, u), c, u)
    BY ReplayAppend, AppendProperties
  <2>2. Replay(log, t) = Replay(log, u)
    BY <1>3
  <2>3. After(Replay(log, t), c, t) = After(Replay(log, u), c, u)
    BY <1>1, <2>2 DEF After
  <2> QED BY <2>1, <2>3
<1> HIDE DEF S
<1>4. \A log \in Seq(Durable) : log \in S
  BY <1>2, <1>3, SeqInd
<1> QED BY <1>4 DEF S

(***************************************************************************)
(* What rewrite_aof writes (aof.cpp:129).                                  *)
(***************************************************************************)

\* The elements of a finite set in some order.
LEMMA SetToSeqElements ==
  ASSUME NEW S, IsFiniteSet(S)
  PROVE  /\ SetToSeq(S) \in Seq(S) /\ Len(SetToSeq(S)) = Cardinality(S)
         /\ Cardinality(S) \in Nat /\ Range(SetToSeq(S)) = S
         /\ \A x \in S : \E i \in 1 .. Cardinality(S) : SetToSeq(S)[i] = x
<1> DEFINE n == Cardinality(S)
           f == SetToSeq(S)
<1>1. n \in Nat
  BY FS_CardinalityType
<1> HIDE DEF n
<1>2. IsFiniteSet(1 .. n) /\ Cardinality(1 .. n) = n
  <2>1. 1 \in Int /\ n \in Int /\ n - 1 + 1 = n
    BY <1>1
  <2> QED BY <1>1, <2>1, FS_Interval
<1>3. ExistsBijection(1 .. n, S)
  BY <1>2, FS_SameCardinalityBij DEF n
<1>4. \E g \in [1 .. n -> S] : IsInjective(g)
  BY <1>3 DEF ExistsBijection, Bijection, Injection
<1>5. f \in [1 .. n -> S] /\ IsInjective(f)
  BY <1>4 DEF SetToSeq, n
<1> HIDE DEF f
<1>6. f \in Injection(1 .. n, S)
  BY <1>5 DEF Injection
<1>7. f \in Surjection(1 .. n, S)
  BY <1>2, <1>6, FS_Injection DEF n
<1>8. \A x \in S : \E i \in 1 .. n : f[i] = x
  BY <1>7 DEF Surjection
<1>9. f \in Seq(S) /\ Len(f) = n
  BY <1>1, <1>5
<1>10. Range(f) = S
  BY <1>5, <1>8 DEF Range
<1> QED BY <1>1, <1>8, <1>9, <1>10 DEF f, n

\* The fields of a hash and their values as arguments.
LEMMA PairsElements ==
  ASSUME NEW h \in Hashes
  PROVE  LET F == SetToSeq(DOMAIN h)
             n == Cardinality(DOMAIN h)
         IN /\ Pairs(h) \in Seq(Values) /\ Len(Pairs(h)) = 2 * n /\ n \in Nat
            /\ Len(Pairs(h)) \div 2 = n /\ Len(Pairs(h)) % 2 = 0
            /\ \A i \in 1 .. n : /\ F[i] \in DOMAIN h
                                 /\ Pairs(h)[2 * i - 1] = F[i] /\ Pairs(h)[2 * i] = h[F[i]]
            /\ \A f \in DOMAIN h : \E i \in 1 .. n : F[i] = f
<1> DEFINE F == SetToSeq(DOMAIN h)
           n == Cardinality(DOMAIN h)
           p == Pairs(h)
<1>1. DOMAIN h \in Finite /\ h \in [DOMAIN h -> Values] /\ IsFiniteSet(DOMAIN h)
  BY HashFields
<1>2. /\ F \in Seq(DOMAIN h) /\ Len(F) = n /\ n \in Nat
      /\ \A f \in DOMAIN h : \E i \in 1 .. n : F[i] = f
  BY <1>1, SetToSeqElements
<1>3. p = [i \in 1 .. 2 * Len(F) |-> IF i % 2 = 1 THEN F[(i + 1) \div 2] ELSE h[F[i \div 2]]]
  BY DEF Pairs
<1> HIDE DEF F, n, p
<1>4. \A i \in 1 .. n : F[i] \in DOMAIN h
  BY <1>2, ElementOfSeq
<1>5. ASSUME NEW i \in 1 .. 2 * n PROVE p[i] \in Values
  <2>1. i \in Int /\ i >= 1 /\ i <= 2 * n
    BY <1>2
  <2>2. CASE i % 2 = 1
    <3>1. (i + 1) \div 2 \in 1 .. n
      BY <1>2, <2>1, <2>2
    <3>2. p[i] = F[(i + 1) \div 2]
      BY <1>2, <1>3, <2>2
    <3> QED BY <1>1, <1>4, <3>1, <3>2 DEF Finite
  <2>3. CASE i % 2 # 1
    <3>1. i \div 2 \in 1 .. n
      BY <1>2, <2>1, <2>3
    <3>2. p[i] = h[F[i \div 2]]
      BY <1>2, <1>3, <2>3
    <3> QED BY <1>1, <1>4, <3>1, <3>2
  <2> QED BY <2>2, <2>3
<1>6. p \in [1 .. 2 * n -> Values] /\ 2 * n \in Nat
  BY <1>2, <1>3, <1>5
<1>7. p \in Seq(Values) /\ Len(p) = 2 * n
  BY <1>6
<1>8. Len(p) \div 2 = n /\ Len(p) % 2 = 0
  BY <1>2, <1>7
<1>9. ASSUME NEW i \in 1 .. n PROVE p[2 * i - 1] = F[i] /\ p[2 * i] = h[F[i]]
  <2>1. /\ 2 * i - 1 \in 1 .. 2 * n /\ (2 * i - 1) % 2 = 1 /\ ((2 * i - 1) + 1) \div 2 = i
        /\ 2 * i \in 1 .. 2 * n /\ (2 * i) % 2 = 0 /\ (2 * i) \div 2 = i
    BY <1>2
  <2> QED BY <1>2, <1>3, <2>1
<1> QED BY <1>2, <1>4, <1>7, <1>8, <1>9 DEF F, n, p

\* HSET with the pairs of a hash makes the hash.
LEMMA FilledPairs ==
  ASSUME NEW h \in Hashes
  PROVE  Filled(<<>>, Pairs(h)) = h
<1> DEFINE F == SetToSeq(DOMAIN h)
           n == Cardinality(DOMAIN h)
           p == Pairs(h)
           part(i) == [f \in {F[j] : j \in 1 .. i} |-> h[f]]
           z == <<>>
<1>1. /\ p \in Seq(Values) /\ Len(p) \div 2 = n /\ n \in Nat
      /\ \A i \in 1 .. n : F[i] \in DOMAIN h /\ p[2 * i - 1] = F[i] /\ p[2 * i] = h[F[i]]
      /\ \A f \in DOMAIN h : \E i \in 1 .. n : F[i] = f
  BY PairsElements
<1>2. h \in [DOMAIN h -> Values]
  BY HashFields
<1> HIDE DEF F, n, p, z
<1>9. PICK g : FillSteps(z, p, n, g)
  BY <1>1, FilledSteps
<1>3. /\ Filled(z, p) = g[n]
      /\ g[0] = z
      /\ \A i \in 0 .. n : i # 0 => g[i] = SetField(g[i - 1], p[2 * i - 1], p[2 * i])
  BY <1>9 DEF FillSteps
<1> DEFINE N == {i \in Nat : i <= n => g[i] = part(i)}
<1>4. 0 \in N
  <2>1. part(0) \in [{} -> Values] /\ DOMAIN part(0) = {}
    OBVIOUS
  <2>2. part(0) \in Hashes
    BY <2>1, EmptyHash DEF Hashes
  <2> HIDE DEF part
  <2>3. part(0) = <<>>
    BY <2>1, <2>2, EmptyHash
  <2> QED BY <1>3, <2>3 DEF z
<1>5. ASSUME NEW i \in Nat, i \in N PROVE i + 1 \in N
  <2> SUFFICES ASSUME i + 1 <= n PROVE g[i + 1] = part(i + 1)
    OBVIOUS
  <2>1. i + 1 \in 0 .. n /\ i + 1 # 0 /\ (i + 1) - 1 = i /\ i + 1 \in 1 .. n /\ i <= n
    BY <1>1
  <2>2. g[i] = part(i)
    BY <1>5, <2>1
  <2>3. g[i + 1] = SetField(g[i], p[2 * (i + 1) - 1], p[2 * (i + 1)])
    BY <1>3, <2>1
  <2>4. p[2 * (i + 1) - 1] = F[i + 1] /\ p[2 * (i + 1)] = h[F[i + 1]]
    BY <1>1, <2>1
  <2>5. g[i + 1] = SetField(part(i), F[i + 1], h[F[i + 1]])
    BY <2>2, <2>3, <2>4
  <2>6. {F[j] : j \in 1 .. i + 1} = {F[j] : j \in 1 .. i} \cup {F[i + 1]}
    <3>1. 1 .. i + 1 = 1 .. i \cup {i + 1}
      OBVIOUS
    <3> QED BY <3>1
  <2>7. SetField(part(i), F[i + 1], h[F[i + 1]]) = part(i + 1)
    BY <2>6 DEF SetField
  <2> QED BY <2>5, <2>7
<1>6. n \in N
  <2> HIDE DEF N
  <2> QED BY <1>1, <1>4, <1>5, NatInd
<1>7. {F[j] : j \in 1 .. n} = DOMAIN h
  <2>1. \A x : x \in {F[j] : j \in 1 .. n} => x \in DOMAIN h
    BY <1>1
  <2>2. \A x : x \in DOMAIN h => x \in {F[j] : j \in 1 .. n}
    BY <1>1
  <2> QED BY <2>1, <2>2, Zenon
<1>8. part(n) = h
  BY <1>2, <1>7
<1> QED BY <1>1, <1>3, <1>6, <1>8 DEF p, z

\* What makes a command of the log.
LEMMA MakesCommand ==
  ASSUME NEW op \in is_valid, NEW key \in Keys, NEW args \in Seq(Values), NEW opt \in Options,
         NEW num \in Int, op = "SET" => args # <<>> /\ opt \notin {"EX", "PX"}
  PROVE  Command(op, key, args, opt, num) \in Durable
<1> DEFINE c == Command(op, key, args, opt, num)
<1>1. op \in Ops
  BY DEF is_valid, Ops
<1>2. /\ c \in [op : Ops, key : Keys, args : Seq(Values), opt : Options, num : Int]
      /\ c.op = op /\ c.args = args /\ c.opt = opt
  BY <1>1 DEF Command
<1> HIDE DEF c
<1>3. c \in Durable
  BY <1>2 DEF Durable, LogCommand, CommandType
<1> QED BY <1>3 DEF c

\* The commands rewrite_aof writes can be logged and do not depend on the clock.
LEMMA RecordDurable ==
  ASSUME NEW n \in Nodes
  PROVE  Record(n) \in Durable
<1>0. /\ n.key \in Keys /\ n.expiry \in Int /\ n.type \in {"STRING", "LIST", "HASH", "SET"}
      /\ n.type = "STRING" => n.data \in Values
      /\ n.type = "LIST" => n.data \in Seq(Values)
      /\ n.type = "HASH" => n.data \in Hashes
      /\ n.type = "SET" => n.data \in Finite
  BY NodeFields
<1>1. CASE n.type = "STRING"
  <2> DEFINE x == IF n.expiry > 0 THEN "PXAT" ELSE "none"
             a == <<n.data>>
  <2>1. Record(n) = Command("SET", n.key, a, x, n.expiry)
    BY <1>1 DEF Record
  <2>2. x \in Options /\ x \notin {"EX", "PX"} /\ a \in Seq(Values) /\ a # <<>> /\ "SET" \in is_valid
    BY <1>0, <1>1 DEF is_valid, Options
  <2> HIDE DEF x, a
  <2> QED BY <1>0, <2>1, <2>2, MakesCommand
<1>2. CASE n.type = "LIST"
  <2>1. Record(n) = Command("RPUSH", n.key, n.data, "none", 0)
    BY <1>2 DEF Record
  <2>2. "none" \in Options /\ "RPUSH" \in is_valid /\ 0 \in Int /\ "RPUSH" # "SET"
    BY DEF is_valid, Options
  <2> QED BY <1>0, <1>2, <2>1, <2>2, MakesCommand
<1>3. CASE n.type = "HASH"
  <2>1. Record(n) = Command("HSET", n.key, Pairs(n.data), "none", 0)
    BY <1>3 DEF Record
  <2>2. "none" \in Options /\ "HSET" \in is_valid /\ 0 \in Int /\ "HSET" # "SET"
    BY DEF is_valid, Options
  <2>3. Pairs(n.data) \in Seq(Values)
    BY <1>0, <1>3, PairsElements
  <2> QED BY <1>0, <2>1, <2>2, <2>3, MakesCommand
<1>4. CASE n.type = "SET"
  <2> DEFINE a == SetToSeq(n.data)
  <2>1. Record(n) = Command("SADD", n.key, a, "none", 0)
    BY <1>4 DEF Record
  <2>2. "none" \in Options /\ "SADD" \in is_valid /\ 0 \in Int /\ "SADD" # "SET"
    BY DEF is_valid, Options
  <2>3. a \in Seq(n.data) /\ n.data \subseteq Values
    BY <1>0, <1>4, SetToSeqElements DEF Finite
  <2>4. a \in Seq(Values)
    BY <2>3
  <2> HIDE DEF a
  <2> QED BY <1>0, <2>1, <2>2, <2>4, MakesCommand
<1> QED BY <1>0, <1>1, <1>2, <1>3, <1>4

\* The node that was added last is found at the end, and touching it moves nothing.
LEMMA LastNode ==
  ASSUME NEW s \in Seq(Nodes), NEW e \in Nodes, IsStore(Append(s, e))
  PROVE  LET a == Append(s, e)
             n == Len(s) + 1
         IN /\ a \in Seq(Nodes) /\ Len(a) = n /\ n \in 1 .. Len(a) /\ a[n] = e
            /\ IsStore(s) /\ Find(s, e.key) = 0 /\ \A m \in Range(s) : m.key # e.key
            /\ Find(a, e.key) = n
            /\ touch_lru(a, n) = a
<1> DEFINE a == Append(s, e)
           n == Len(s) + 1
           k == e.key
<1>1. /\ a \in Seq(Nodes) /\ Len(a) = n /\ Len(s) \in Nat /\ a[n] = e
      /\ \A i \in 1 .. Len(s) : a[i] = s[i]
  BY LenProperties, AppendProperties
<1>2. IsStore(s) /\ \A m \in Range(s) : m.key # k
  BY StoreAppend
<1>3. Find(s, k) = 0
  BY <1>2, FindNode
<1>4. IsStore(a)
  OBVIOUS
<1> HIDE DEF a
<1>5. /\ Find(a, k) \in 0 .. n /\ n \in 1 .. n
      /\ Find(a, k) > 0 => a[Find(a, k)].key = k
      /\ Find(a, k) = 0 => \A m \in Range(a) : m.key # k
  BY <1>1, <1>4, FindNode
<1>6. e \in Range(a)
  <2>1. n \in DOMAIN a
    BY <1>1, <1>5, LenProperties
  <2> QED BY <1>1, <2>1 DEF Range
<1>7. Find(a, k) > 0
  BY <1>5, <1>6
<1>8. Find(a, k) = n
  <2>1. Find(a, k) \in DOMAIN a /\ n \in DOMAIN a
    BY <1>1, <1>5, <1>7, LenProperties
  <2> QED BY <1>1, <1>4, <1>5, <1>7, <2>1 DEF IsStore
<1>9. RemoveAt(a, n) = s
  <2>1. RemoveAt(a, n) = SubSeq(a, 1, Len(s)) \o SubSeq(a, n + 1, Len(a))
    BY <1>1 DEF RemoveAt
  <2>2. SubSeq(a, n + 1, Len(a)) = <<>>
    BY <1>1
  <2>3. SubSeq(a, 1, Len(s)) = s
    <3>1. SubSeq(a, 1, Len(s)) \in Seq(Nodes) /\ Len(SubSeq(a, 1, Len(s))) = Len(s)
      BY <1>1, Beginning
    <3>2. \A i \in 1 .. Len(s) : SubSeq(a, 1, Len(s))[i] = s[i]
      BY <1>1
    <3> QED BY <3>1, <3>2, SeqEqual
  <2>4. s \o <<>> = s
    BY ConcatEmptySeq
  <2> QED BY <2>1, <2>2, <2>3, <2>4
<1>10. touch_lru(a, n) = a
  BY <1>1, <1>9 DEF touch_lru, a
<1> QED BY <1>1, <1>2, <1>3, <1>5, <1>8, <1>10 DEF a

\* Adding a node for which there is room appends it (lru.cpp:68).
LEMMA AddLast ==
  ASSUME NEW s \in Seq(Nodes), NEW e \in Nodes, IsStore(Append(s, e)),
         Usage(Append(s, e)) <= LRU_MAX_MEMORY, NEW r
  PROVE  LET o == add_lru(s, e, r)
         IN IsOutcome(o) /\ o.db = Append(s, e) /\ ~o.dead
<1> DEFINE a == Append(s, e)
           o == add_lru(s, e, r)
           x == IF Len(a) <= Len(s) THEN {"eviction"} ELSE {}
<1>1. EvictUntilSafe(a) = a
  BY EvictStore
<1>2. o = [Outcome(a, TRUE, r) EXCEPT !.silent = x]
  BY <1>1 DEF add_lru
<1> HIDE DEF a, o, x
<1>3. IsOutcome(o) /\ o.db = a /\ ~o.dead
  BY <1>2 DEF Outcome, IsOutcome
<1> QED BY <1>3 DEF a, o

\* Giving the last node new data for which there is room replaces it (lru.cpp:76).
LEMMA UpdateLast ==
  ASSUME NEW s \in Seq(Nodes), NEW m \in Nodes, IsStore(Append(s, m)),
         NEW e \in Nodes, e.key = m.key, Usage(Append(s, e)) <= LRU_MAX_MEMORY, NEW r
  PROVE  LET o == update_lru(Append(s, m), Len(s) + 1, e, r)
         IN IsOutcome(o) /\ o.db = Append(s, e) /\ ~o.dead
<1> DEFINE a == Append(s, m)
           b == Append(s, e)
           n == Len(s) + 1
           o == update_lru(a, n, e, r)
           x == IF Len(b) < Len(a) THEN {"eviction"} ELSE {}
<1>1. IsStore(s) /\ \A y \in Range(s) : y.key # e.key
  BY LastNode
<1>2. IsStore(b)
  BY <1>1, StoreAppend
<1>3. Find(b, e.key) = n /\ touch_lru(b, n) = b /\ n # 0
  BY <1>2, LastNode
<1>4. EvictUntilSafe(b) = b
  BY <1>2, EvictStore
<1>5. [a EXCEPT ![n] = e] = b
  <2>1. /\ a \in Seq(Nodes) /\ b \in Seq(Nodes) /\ Len(a) = n /\ Len(b) = n /\ n \in Nat
        /\ DOMAIN a = 1 .. n /\ DOMAIN b = 1 .. n
        /\ b[n] = e /\ \A i \in 1 .. n : i # n => a[i] = s[i] /\ b[i] = s[i]
    BY LenProperties, AppendProperties
  <2> HIDE DEF a, b, n
  <2>2. \A i \in 1 .. n : [a EXCEPT ![n] = e][i] = b[i]
    BY <2>1
  <2>3. b = [i \in 1 .. n |-> b[i]]
    BY <2>1
  <2>4. [a EXCEPT ![n] = e] = [i \in 1 .. n |-> b[i]]
    BY <2>1, <2>2
  <2> QED BY <2>3, <2>4
<1> HIDE DEF a, b, n, x
<1>6. o = [db |-> IF n = 0 THEN b ELSE touch_lru(b, n), ok |-> TRUE, reply |-> r,
           dead |-> n = 0, silent |-> x]
  BY <1>3, <1>4, <1>5 DEF update_lru, x
<1>7. o = [db |-> b, ok |-> TRUE, reply |-> r, dead |-> FALSE, silent |-> x]
  BY <1>3, <1>6
<1> HIDE DEF o
<1>8. IsOutcome(o) /\ o.db = b /\ ~o.dead
  BY <1>7 DEF IsOutcome
<1> QED BY <1>8 DEF a, b, n, o

\* Executing the command written for a node appends the node.
Restores(o, s, e) == o.db = Append(s, e) /\ ~o.dead

\* ... for a string, whose expiry time is 0 or positive (aof.cpp:154).
LEMMA StringRestored ==
  ASSUME NEW s \in Seq(Nodes), NEW e \in Nodes, IsStore(Append(s, e)),
         Usage(Append(s, e)) <= LRU_MAX_MEMORY, e.type = "STRING", e.expiry >= 0, NEW u
  PROVE  Restores(Execute(s, Record(e), u), s, e)
<1> DEFINE x == IF e.expiry > 0 THEN "PXAT" ELSE "none"
           c == Record(e)
           ok == <<"simple", "OK">>
           o == add_lru(s, e, ok)
           y == o.silent \cup IF c.opt \in {"EX", "PX"} THEN {"relative"} ELSE {}
<1>1. /\ c = Command("SET", e.key, <<e.data>>, x, e.expiry)
      /\ x \in {"PXAT", "none"} /\ (x = "PXAT" <=> e.expiry > 0) /\ e.expiry \in Int
      /\ e = Node(e.key, e.type, e.data, e.expiry)
  BY NodeFields DEF Record
<1> HIDE DEF x, c
<1>2. /\ c.op = "SET" /\ c.key = e.key /\ c.args = <<e.data>> /\ c.args[1] = e.data
      /\ c.opt = x /\ c.num = e.expiry
  BY <1>1 DEF Command
<1>3. expire_at(c, u) = e.expiry
  BY <1>1, <1>2 DEF expire_at
<1>4. Node(c.key, "STRING", c.args[1], expire_at(c, u)) = e
  BY <1>1, <1>2, <1>3
<1>5. Find(s, c.key) = 0
  BY <1>2, LastNode
<1>6. Execute(s, c, u) = command_set(s, c, u)
  BY <1>2 DEF Execute
<1>7. command_set(s, c, u) = [o EXCEPT !.silent = y]
  <2> DEFINE N == Node(c.key, "STRING", c.args[1], expire_at(c, u))
             i == Find(s, c.key)
             done == IF i > 0 THEN update_lru(s, i, N, ok) ELSE add_lru(s, N, ok)
  <2>1. c.opt # "invalid" /\ ~(i > 0) /\ N = e
    BY <1>1, <1>2, <1>4, <1>5
  <2>2. done = o
    BY <2>1
  <2>3. command_set(s, c, u) =
          IF c.opt = "invalid" THEN Read(s, Error("ERR"))
          ELSE [done EXCEPT !.silent = @ \cup IF c.opt \in {"EX", "PX"} THEN {"relative"} ELSE {}]
    BY Zenon DEF command_set
  <2> HIDE DEF done, o
  <2> QED BY <2>1, <2>2, <2>3
<1>8. IsOutcome(o) /\ o.db = Append(s, e) /\ ~o.dead
  BY AddLast
<1> HIDE DEF o, y
<1>9. [o EXCEPT !.silent = y]
         = [db |-> o.db, ok |-> o.ok, reply |-> o.reply, dead |-> o.dead, silent |-> y]
  BY <1>8, ExceptOutcome
<1>10. Execute(s, c, u).db = Append(s, e) /\ ~Execute(s, c, u).dead
  BY <1>6, <1>7, <1>8, <1>9
<1> QED BY <1>10 DEF Restores, c

\* ... for a list (aof.cpp:163).
LEMMA ListRestored ==
  ASSUME NEW s \in Seq(Nodes), NEW e \in Nodes, IsStore(Append(s, e)),
         Usage(Append(s, e)) <= LRU_MAX_MEMORY, e.type = "LIST", NEW u
  PROVE  Restores(Execute(s, Record(e), u), s, e)
<1> DEFINE c == Record(e)
<1>1. /\ c = Command("RPUSH", e.key, e.data, "none", 0)
      /\ e = Node(e.key, e.type, e.data, e.expiry) /\ e.data \in Seq(Values) /\ e.expiry = 0
  BY NodeFields DEF Record
<1> HIDE DEF c
<1>2. c.op = "RPUSH" /\ c.key = e.key /\ c.args = e.data
  BY <1>1 DEF Command
<1>3. Pushed(<<>>, c.args, FALSE) = e.data
  <2>1. <<>> \o e.data = e.data
    BY <1>1, ConcatEmptySeq
  <2> QED BY <1>2, <2>1 DEF Pushed
<1>4. Node(c.key, "LIST", Pushed(<<>>, c.args, FALSE), 0) = e
  BY <1>1, <1>2, <1>3
<1>5. Find(s, c.key) = 0
  BY <1>2, LastNode
<1>6. Execute(s, c, u) = generic_push(s, c, FALSE)
  BY <1>2 DEF Execute
<1> DEFINE r == send_integer(Len(Pushed(<<>>, c.args, FALSE)))
<1>7. generic_push(s, c, FALSE) = add_lru(s, e, r)
  BY <1>4, <1>5 DEF generic_push
<1> HIDE DEF r
<1>8. add_lru(s, e, r).db = Append(s, e) /\ ~add_lru(s, e, r).dead
  BY AddLast
<1> QED BY <1>6, <1>7, <1>8 DEF Restores, c

\* ... for a set (aof.cpp:175).
LEMMA SetRestored ==
  ASSUME NEW s \in Seq(Nodes), NEW e \in Nodes, IsStore(Append(s, e)),
         Usage(Append(s, e)) <= LRU_MAX_MEMORY, e.type = "SET", NEW u
  PROVE  Restores(Execute(s, Record(e), u), s, e)
<1> DEFINE c == Record(e)
<1>1. /\ c = Command("SADD", e.key, SetToSeq(e.data), "none", 0)
      /\ e = Node(e.key, e.type, e.data, e.expiry) /\ e.data \in Finite /\ e.expiry = 0
  BY NodeFields DEF Record
<1>3. Range(SetToSeq(e.data)) = e.data
  BY <1>1, SetToSeqElements DEF Finite
<1> HIDE DEF c
<1>2. c.op = "SADD" /\ c.key = e.key /\ Range(c.args) = e.data
  BY <1>1, <1>3 DEF Command
<1>4. Node(c.key, "SET", Range(c.args), 0) = e
  BY <1>1, <1>2
<1>5. Find(s, c.key) = 0
  BY <1>2, LastNode
<1>6. Execute(s, c, u) = command_sadd(s, c)
  BY <1>2 DEF Execute
<1> DEFINE r == send_integer(Cardinality(Range(c.args)))
<1>7. command_sadd(s, c) = add_lru(s, e, r)
  BY <1>4, <1>5 DEF command_sadd
<1> HIDE DEF r
<1>8. add_lru(s, e, r).db = Append(s, e) /\ ~add_lru(s, e, r).dead
  BY AddLast
<1> QED BY <1>6, <1>7, <1>8 DEF Restores, c

\* ... for a hash, which HSET first adds without fields (aof.cpp:169).
LEMMA HashRestored ==
  ASSUME NEW s \in Seq(Nodes), NEW e \in Nodes, IsStore(Append(s, e)),
         Usage(Append(s, e)) <= LRU_MAX_MEMORY, e.type = "HASH", NEW u
  PROVE  Restores(Execute(s, Record(e), u), s, e)
<1> DEFINE c == Record(e)
           m == Node(e.key, "HASH", <<>>, 0)
           a == Append(s, m)
           n == Len(s) + 1
           added == add_lru(s, m, Nil)
<1>1. /\ c = Command("HSET", e.key, Pairs(e.data), "none", 0)
      /\ e = Node(e.key, e.type, e.data, e.expiry) /\ e.data \in Hashes /\ e.expiry = 0
      /\ e.key \in Keys
  BY NodeFields DEF Record
<1> HIDE DEF c
<1>2. c.op = "HSET" /\ c.key = e.key /\ c.args = Pairs(e.data)
  BY <1>1 DEF Command
<1>3. Len(c.args) % 2 = 0 /\ Filled(<<>>, c.args) = e.data
  BY <1>1, <1>2, PairsElements, FilledPairs
<1>4. Find(s, c.key) = 0 /\ IsStore(s) /\ \A y \in Range(s) : y.key # e.key
  BY <1>2, LastNode
<1>5. m \in Nodes /\ m.key = e.key /\ m.type = "HASH" /\ m.data = <<>>
  <2>1. m \in Nodes
    BY <1>1, EmptyHash, MakesNode
  <2> QED BY <2>1 DEF Node
<1>6. IsStore(a)
  <2> HIDE DEF m
  <2> QED BY <1>4, <1>5, StoreAppend
<1>7. Usage(a) <= LRU_MAX_MEMORY
  <2> HIDE DEF m
  <2>1. Range(s) \in SUBSET Nodes /\ IsFiniteSet(Range(s)) /\ m \notin Range(s) /\ e \notin Range(s)
    BY <1>4, <1>5, StoreNodes, StoreSize
  <2>2. Range(a) = Range(s) \cup {m} /\ Range(Append(s, e)) = Range(s) \cup {e}
    BY <1>5, RangeAppend
  <2>3. /\ Total(Range(s) \cup {m}) = Weight(m) + Total(Range(s))
        /\ Total(Range(s)) \in Nat /\ Weight(m) \in Nat
    BY <1>5, <2>1, TotalAdd
  <2>4. Total(Range(s) \cup {e}) = Weight(e) + Total(Range(s)) /\ Weight(e) \in Nat
    BY <2>1, TotalAdd
  <2>5. Elements(m) = 0
    BY <1>5, EmptyHash, FS_EmptySet DEF Elements
  <2>6. Weight(m) <= Weight(e)
    <3>1. Elements(e) \in Nat /\ Weight(e) = NodeWeight + Elements(e) /\ Weight(m) = NodeWeight + Elements(m)
      BY <1>5, NodeWeighs
    <3> QED BY <2>5, <3>1, WeightAssumption
  <2>7. Usage(a) = Weight(m) + Total(Range(s)) /\ Usage(Append(s, e)) = Weight(e) + Total(Range(s))
    BY <2>2, <2>3, <2>4, UsageTotal
  <2> QED BY <2>3, <2>4, <2>6, <2>7, WeightAssumption
<1>8. IsOutcome(added) /\ added.db = a /\ ~added.dead
  <2> HIDE DEF m
  <2> QED BY <1>5, <1>6, <1>7, AddLast
<1>9. Find(a, e.key) = n /\ a[n] = m /\ n # 0 /\ n > 0
  <2> HIDE DEF m
  <2> QED BY <1>5, <1>6, LastNode
<1>10. [m EXCEPT !.data = e.data] = e
  BY <1>1, <1>5 DEF Node
<1> DEFINE created == Cardinality(DOMAIN e.data) - Cardinality(DOMAIN <<>>)
           r == send_integer(created)
           w == update_lru(a, n, e, r)
           done == HsetExisting(a, n, c)
<1>11. IsOutcome(w) /\ w.db = Append(s, e) /\ ~w.dead
  <2> HIDE DEF m, r
  <2> QED BY <1>5, <1>6, UpdateLast
<1> HIDE DEF m, a, n, added, w
<1> DEFINE x == [w EXCEPT !.ok = created > 0]
           y == x.silent \cup IF created = 0 /\ e.data # <<>> THEN {"overwrite"} ELSE {}
<1>12. done = [x EXCEPT !.silent = y]
  <2>1. WithData(a, n, e.data, r) = w
    BY <1>9, <1>10 DEF WithData, w
  <2>2. WithCount(a, n, e.data, created) = x
    BY <2>1 DEF WithCount
  <2>3. a[n].data = <<>>
    BY <1>5, <1>9
  <2> HIDE DEF x
  <2> QED BY <1>3, <2>2, <2>3 DEF HsetExisting
<1>13. IsOutcome(x) /\ x.db = Append(s, e) /\ ~x.dead
  <2> DEFINE b == created > 0
  <2>1. x = [db |-> w.db, ok |-> b, reply |-> w.reply, dead |-> w.dead, silent |-> w.silent]
    BY <1>11, ExceptOutcome
  <2>2. b \in BOOLEAN /\ w.dead \in BOOLEAN
    BY <1>11 DEF IsOutcome
  <2> HIDE DEF b, x
  <2> QED BY <1>11, <2>1, <2>2 DEF IsOutcome
<1> HIDE DEF x, y
<1>14. done = [db |-> x.db, ok |-> x.ok, reply |-> x.reply, dead |-> x.dead, silent |-> y]
  BY <1>12, <1>13, ExceptOutcome
<1>15. IsOutcome(done) /\ done.db = Append(s, e) /\ ~done.dead
  <2>1. x.ok \in BOOLEAN /\ x.dead \in BOOLEAN
    BY <1>13 DEF IsOutcome
  <2> HIDE DEF done
  <2> QED BY <1>13, <1>14, <2>1 DEF IsOutcome
<1>16. command_hset(s, c) = [done EXCEPT !.silent = done.silent \cup added.silent]
  <2>1. Find(added.db, c.key) = n /\ added.db = a
    BY <1>2, <1>8, <1>9
  <2>2. add_lru(s, Node(c.key, "HASH", <<>>, 0), Nil) = added
    BY <1>2 DEF added, m
  <2> QED BY <1>3, <1>4, <1>9, <2>1, <2>2 DEF command_hset
<1> HIDE DEF done
<1>17. command_hset(s, c).db = Append(s, e) /\ ~command_hset(s, c).dead
  <2> DEFINE v == done.silent \cup added.silent
  <2> HIDE DEF v
  <2>1. command_hset(s, c) = [done EXCEPT !.silent = v]
    BY <1>16 DEF v
  <2>2. command_hset(s, c)
          = [db |-> done.db, ok |-> done.ok, reply |-> done.reply, dead |-> done.dead, silent |-> v]
    BY <1>15, <2>1, ExceptOutcome
  <2> QED BY <1>15, <2>2
<1>18. Execute(s, c, u) = command_hset(s, c)
  BY <1>2 DEF Execute
<1> QED BY <1>17, <1>18 DEF Restores, c

Records(s) == [i \in DOMAIN s |-> Record(s[i])]

\* The commands of one more node.
LEMMA RecordsAppend ==
  ASSUME NEW s \in Seq(Nodes), NEW e \in Nodes
  PROVE  /\ Records(<<>>) = <<>>
         /\ Records(s) \in Seq(Durable)
         /\ Records(Append(s, e)) = Append(Records(s), Record(e))
<1> DEFINE a == Append(s, e)
           n == Len(s) + 1
<1>1. /\ a \in Seq(Nodes) /\ Len(a) = n /\ Len(s) \in Nat /\ a[n] = e
      /\ DOMAIN a = 1 .. n /\ DOMAIN s = 1 .. Len(s)
      /\ \A i \in 1 .. Len(s) : a[i] = s[i]
  BY LenProperties, AppendProperties
<1>2. \A i \in 1 .. n : Record(a[i]) \in Durable
  <2>1. \A i \in 1 .. n : a[i] \in Nodes
    BY <1>1, ElementOfSeq
  <2> QED BY <2>1, RecordDurable
<1> HIDE DEF a
<1>3. /\ Records(a) \in Seq(Durable) /\ Len(Records(a)) = n
      /\ \A i \in 1 .. n : Records(a)[i] = Record(a[i])
  <2>1. Records(a) = [i \in 1 .. n |-> Record(a[i])] /\ n \in Nat
    BY <1>1 DEF Records
  <2>2. Records(a) \in [1 .. n -> Durable]
    BY <1>2, <2>1
  <2> QED BY <2>1, <2>2
<1>4. /\ Records(s) \in Seq(Durable) /\ Len(Records(s)) = Len(s)
      /\ \A i \in 1 .. Len(s) : Records(s)[i] = Record(s[i])
  <2>1. Records(s) = [i \in 1 .. Len(s) |-> Record(s[i])]
    BY <1>1 DEF Records
  <2>3. \A i \in 1 .. Len(s) : Record(s[i]) = Record(a[i]) /\ i \in 1 .. n
    BY <1>1
  <2>2. Records(s) \in [1 .. Len(s) -> Durable]
    BY <1>2, <2>1, <2>3
  <2> QED BY <1>1, <2>1, <2>2
<1> DEFINE b == Append(Records(s), Record(e))
<1>5. Record(e) \in Durable
  BY RecordDurable
<1>6. /\ b \in Seq(Durable) /\ Len(b) = n /\ b[n] = Record(e)
      /\ \A i \in 1 .. Len(s) : b[i] = Records(s)[i]
  BY <1>1, <1>4, <1>5, AppendProperties
<1> HIDE DEF b
<1>7. \A i \in 1 .. n : b[i] = Records(a)[i]
  <2>1. \A i \in 1 .. n : i = n \/ i \in 1 .. Len(s)
    BY <1>1
  <2> QED BY <1>1, <1>3, <1>4, <1>6, <2>1
<1>8. b = Records(a)
  BY <1>3, <1>6, <1>7, SeqEqual
<1>9. Records(<<>>) = <<>>
  BY DEF Records
<1> QED BY <1>4, <1>8, <1>9 DEF a, b

\* Replaying the commands of the nodes of a store gives the store, in its order, and
\* nothing is evicted on the way.
LEMMA RecordsReplay ==
  ASSUME NEW u
  PROVE  \A s \in Seq(Nodes) :
           IsStore(s) /\ Usage(s) <= LRU_MAX_MEMORY /\ (\A n \in Range(s) : n.expiry >= 0)
             => Replay(Records(s), u).db = s /\ ~Replay(Records(s), u).dead
<1> DEFINE Fine(s) == IsStore(s) /\ Usage(s) <= LRU_MAX_MEMORY /\ (\A n \in Range(s) : n.expiry >= 0)
           Good(s) == Replay(Records(s), u).db = s /\ ~Replay(Records(s), u).dead
           S == {s \in Seq(Nodes) : Fine(s) => Good(s)}
<1>1. <<>> \in S
  <2>1. <<>> \in Seq(Nodes)
    OBVIOUS
  <2>2. Records(<<>>) = <<>>
    BY DEF Records
  <2>3. Replay(Records(<<>>), u) = Outcome(<<>>, TRUE, Nil)
    BY <2>2, ReplayEmpty
  <2>4. Good(<<>>)
    BY <2>3 DEF Outcome
  <2> QED BY <2>1, <2>4
<1>2. ASSUME NEW s \in Seq(Nodes), NEW e \in Nodes, s \in S PROVE Append(s, e) \in S
  <2> DEFINE a == Append(s, e)
  <2>0. a \in Seq(Nodes)
    BY AppendProperties
  <2> SUFFICES ASSUME Fine(a) PROVE Good(a)
    BY <2>0
  <2>1. IsStore(a) /\ Usage(a) <= LRU_MAX_MEMORY /\ \A n \in Range(a) : n.expiry >= 0
    OBVIOUS
  <2>2. IsStore(s) /\ Range(a) = Range(s) \cup {e}
    BY <2>1, LastNode, RangeAppend
  <2>3. Usage(s) <= LRU_MAX_MEMORY
    <3>1. Range(a) \in SUBSET Nodes /\ IsFiniteSet(Range(a)) /\ Range(s) \in SUBSET Range(a)
      BY <2>0, <2>1, <2>2, StoreNodes, StoreSize
    <3>2. Total(Range(s)) <= Total(Range(a)) /\ Total(Range(s)) \in Nat /\ Total(Range(a)) \in Nat
      BY <3>1, TotalMonotone
    <3> QED BY <2>1, <3>2, UsageTotal, WeightAssumption
  <2>4. Good(s)
    BY <1>2, <2>1, <2>2, <2>3
  <2>5. Replay(Records(a), u) = After(Replay(Records(s), u), Record(e), u)
    <3>1. Records(s) \in Seq(Durable) /\ Records(a) = Append(Records(s), Record(e)) /\ Record(e) \in Durable
      BY RecordsAppend, RecordDurable
    <3> QED BY <3>1, ReplayAppend
  <2>6. Replay(Records(a), u) = Execute(s, Record(e), u)
    BY <2>4, <2>5 DEF After
  <2>7. e.expiry >= 0 /\ e.type \in {"STRING", "LIST", "HASH", "SET"}
    BY <2>1, <2>2, NodeFields
  <2>8. Restores(Execute(s, Record(e), u), s, e)
    BY <2>1, <2>7, StringRestored, ListRestored, SetRestored, HashRestored
  <2> QED BY <2>6, <2>8 DEF Restores
<1> HIDE DEF S
<1>3. \A s \in Seq(Nodes) : s \in S
  BY <1>1, <1>2, SeqInd
<1> QED BY <1>3 DEF S

\* The store that the rewritten log stands for: the live nodes, which are all that a
\* client can find if no expiry time is negative, in their order.
LEMMA RewriteRestores ==
  ASSUME NEW D, IsStore(D), Usage(D) <= LRU_MAX_MEMORY, NEW t \in Int, NEW u
  PROVE  /\ Compacted(D, t) \in Seq(Durable)
         /\ (\A n \in Range(D) : n.expiry >= 0) =>
              LET o == Replay(Compacted(D, t), u)
              IN ~o.dead /\ Sim(o.db, D, t) /\ SameStore(o.db, D, t)
<1> DEFINE L == {n \in Range(D) : ~(n.expiry > 0 /\ t > n.expiry) /\ Elements(n) > 0}
           V == {n \in Range(D) : ~Expired(n, t) /\ Elements(n) > 0}
           kept == Live(D, t)
           o == Replay(Compacted(D, t), u)
<1>1. D \in Seq(Nodes) /\ Range(D) \in SUBSET Nodes /\ IsFiniteSet(Range(D))
  BY StoreNodes, StoreSize
<1>2. kept = Keep(D, L)
  BY DEF Live
<1>3. kept \in Seq(Nodes) /\ Range(kept) = L /\ IsStore(kept)
  <2>1. kept \in Seq(Nodes) /\ Range(kept) = Range(D) \cap L /\ IsStore(kept)
    BY <1>1, <1>2, KeepRange
  <2> QED BY <2>1
<1>4. Compacted(D, t) = Records(kept)
  BY DEF Compacted, Records
<1>5. Compacted(D, t) \in Seq(Durable)
  <2> HIDE DEF kept
  <2>1. CASE Nodes = {}
    <3>1. kept = <<>>
      BY <1>3, <2>1, EmptySeq, ElementOfSeq, LenProperties
    <3>2. Records(kept) = <<>>
      BY <3>1 DEF Records
    <3> QED BY <1>4, <3>2
  <2>2. CASE Nodes # {}
    <3>1. PICK e : e \in Nodes
      BY <2>2
    <3> QED BY <1>3, <1>4, <3>1, RecordsAppend
  <2> QED BY <2>1, <2>2
<1>6. Usage(kept) <= LRU_MAX_MEMORY
  <2> HIDE DEF kept
  <2>1. Range(kept) \in SUBSET Range(D)
    BY <1>3
  <2>2. Total(Range(kept)) <= Total(Range(D)) /\ Total(Range(kept)) \in Nat /\ Total(Range(D)) \in Nat
    BY <1>1, <2>1, TotalMonotone
  <2> QED BY <2>2, UsageTotal, WeightAssumption
<1>7. ASSUME \A n \in Range(D) : n.expiry >= 0 PROVE ~o.dead /\ Sim(o.db, D, t) /\ SameStore(o.db, D, t)
  <2>1. \A n \in Range(kept) : n.expiry >= 0
    BY <1>3, <1>7
  <2>2. o.db = kept /\ ~o.dead
    <3> HIDE DEF kept
    <3> QED BY <1>3, <1>4, <1>6, <2>1, RecordsReplay
  <2>3. \A n \in Range(D) : n \in L <=> n \in V
    BY <1>1, <1>7, NodeFields DEF Expired
  <2>4. Sim(kept, D, t)
    <3>1. \A n \in Range(D) \ Range(kept) : Hidden(n, t)
      BY <1>3, <2>3 DEF Hidden
    <3> HIDE DEF kept
    <3> QED BY <1>3, <3>1 DEF Sim
  <2>5. Visible(kept, t) = kept
    <3> DEFINE W == {n \in Range(kept) : ~Expired(n, t) /\ Elements(n) > 0}
    <3>1. Range(kept) \subseteq W
      BY <1>3, <2>3
    <3>2. Visible(kept, t) = Keep(kept, W)
      BY DEF Visible
    <3> HIDE DEF kept, W
    <3> QED BY <1>3, <3>1, <3>2, KeepRange
  <2>6. Visible(D, t) = kept
    <3>1. Visible(D, t) = Keep(D, V)
      BY DEF Visible
    <3> HIDE DEF L, V
    <3>2. Keep(D, V) = Keep(D, L)
      BY <1>1, <2>3, KeepCongruent
    <3> QED BY <1>2, <3>1, <3>2
  <2>7. SameStore(kept, D, t)
    <3> HIDE DEF kept
    <3> QED BY <2>5, <2>6 DEF SameStore, SameNode
  <2> QED BY <2>2, <2>4, <2>7
<1> QED BY <1>5, <1>7

(***************************************************************************)
(* The types.                                                              *)
(***************************************************************************)

\* The stores, and the types of the logs.
Stores == {s \in Seq(Nodes) : IsStore(s)}

LogsTyped ==
  /\ file \in Seq(LogCommand) /\ buffer \in Seq(LogCommand) /\ temp \in Seq(Durable)
  /\ window \in Seq(Stores)

TypeInv == TypeOK /\ LogsTyped

\* The empty store uses nothing.
LEMMA EmptyWithin == IsStore(<<>>) /\ Usage(<<>>) <= LRU_MAX_MEMORY /\ <<>> \in Stores
<1>1. Range(<<>>) = {}
  BY DEF Range
<1>2. Usage(<<>>) = 0
  BY <1>1, UsageTotal, TotalRemove, FS_EmptySet
<1>3. Usage(<<>>) <= LRU_MAX_MEMORY
  BY <1>2, WeightAssumption
<1>4. <<>> \in Seq(Nodes)
  OBVIOUS
<1> QED BY <1>3, <1>4, EmptyStore DEF Stores

\* The operations on logs keep their type.
LEMMA LogOps ==
  ASSUME NEW S, NEW a \in Seq(S), NEW b \in Seq(S)
  PROVE  /\ a \o b \in Seq(S) /\ <<>> \in Seq(S) /\ Len(b) \in Nat
         /\ \A n \in 0 .. Len(b) : /\ SubSeq(b, 1, n) \in Seq(S)
                                   /\ SubSeq(b, n + 1, Len(b)) \in Seq(S)
         /\ \A i \in DOMAIN a : a[i] \in S
  BY ConcatProperties, LenProperties, Halves, ElementOfSeq

\* The commands of a log change the store.
LEMMA LogOpsValid ==
  ASSUME NEW log \in Seq(LogCommand)
  PROVE  \A i \in DOMAIN log : log[i].op \in is_valid
<1>1. \A i \in DOMAIN log : log[i] \in LogCommand
  BY LogOps
<1> QED BY <1>1 DEF LogCommand

\* A durable log is a log.
LEMMA DurableLog == Durable \subseteq LogCommand /\ \A s \in Seq(Durable) : s \in Seq(LogCommand)
<1>1. Durable \subseteq LogCommand
  BY DEF Durable
<1> QED BY <1>1

\* Initially the types are right.
LEMMA TypeInit == Init => TypeInv
<1> SUFFICES ASSUME Init PROVE TypeInv
  OBVIOUS
<1>1. /\ <<>> \in Seq(LogCommand) /\ <<>> \in Seq(Durable) /\ DOMAIN <<>> = {}
  BY EmptyHash
<1>2. window \in Seq(Stores)
  BY EmptyWithin DEF Init
<1>3. LogsTyped
  BY <1>1, <1>2 DEF Init, LogsTyped
<1>4. TypeOK
  BY <1>1, EmptyWithin, AofAssumption DEF Init, TypeOK
<1> QED BY <1>3, <1>4 DEF TypeInv

\* handle_command keeps the types.
LEMMA TypeHandle ==
  ASSUME TypeInv, NEW c \in Commands, HandleCommand(c)
  PROVE  TypeInv'
<1> DEFINE o == Execute(db, c, now)
           pending == IF Logged(c, o) THEN Append(buffer, c) ELSE buffer
<1>1. /\ c \in CommandType /\ now \in Int /\ IsStore(db) /\ Usage(db) <= LRU_MAX_MEMORY
      /\ pc = "idle" /\ commands < MaxCommands /\ commands \in 0 .. MaxCommands /\ MaxCommands \in Nat
  BY AofAssumption DEF HandleCommand, TypeInv, TypeOK
<1>2. Holds(o)
  BY <1>1, ExecuteHolds
<1>3. IsStore(o.db) /\ Usage(o.db) <= LRU_MAX_MEMORY /\ o.db \in Stores
  BY <1>2 DEF Holds, Stores, IsStore
<1>4. file \in Seq(LogCommand) /\ buffer \in Seq(LogCommand) /\ window \in Seq(Stores) /\ temp \in Seq(Durable)
  BY DEF TypeInv, LogsTyped
<1>5. pending \in Seq(LogCommand)
  <2>1. CASE Logged(c, o)
    <3>1. c \in LogCommand
      BY <1>1, <2>1 DEF Logged, LogCommand
    <3> QED BY <1>4, <2>1, <3>1, AppendProperties
  <2>2. CASE ~Logged(c, o)
    BY <1>4, <2>2
  <2> QED BY <2>1, <2>2
<1>6. commands' \in 0 .. MaxCommands
  <2>1. commands' = commands + 1
    BY DEF HandleCommand
  <2> QED BY <1>1, <2>1
<1>7. UNCHANGED <<temp, last_rewrite_size, now, crashes>>
  BY DEF HandleCommand
<1>8. /\ o.dead => /\ pc' = "down" /\ db' = <<>> /\ buffer' = <<>>
                   /\ file' = file /\ window' = window
      /\ ~o.dead => /\ db' = o.db /\ pc' \in {"idle", "rewrite"}
                    /\ \E n \in 0 .. Len(pending) :
                         /\ file' = file \o SubSeq(pending, 1, n)
                         /\ buffer' = SubSeq(pending, n + 1, Len(pending))
                    /\ window' \in {Append(window, o.db), window}
  BY DEF HandleCommand
<1> HIDE DEF o, pending
<1>9. window' \in Seq(Stores)
  <2>1. Append(window, o.db) \in Seq(Stores)
    BY <1>3, <1>4, AppendProperties
  <2>2. window' \in {Append(window, o.db), window}
    BY <1>8
  <2> QED BY <1>4, <2>1, <2>2
<1>10. file' \in Seq(LogCommand) /\ buffer' \in Seq(LogCommand)
  <2>1. CASE o.dead
    BY <1>4, <1>8, <2>1
  <2>2. CASE ~o.dead
    <3>1. PICK n \in 0 .. Len(pending) : /\ file' = file \o SubSeq(pending, 1, n)
                                         /\ buffer' = SubSeq(pending, n + 1, Len(pending))
      BY <1>8, <2>2
    <3>2. SubSeq(pending, 1, n) \in Seq(LogCommand) /\ SubSeq(pending, n + 1, Len(pending)) \in Seq(LogCommand)
      BY <1>5, LogOps
    <3> QED BY <1>4, <3>1, <3>2, LogOps
  <2> QED BY <2>1, <2>2
<1>11. IsStore(db') /\ Usage(db') <= LRU_MAX_MEMORY
  BY <1>3, <1>8, EmptyWithin
<1>12. /\ \A i \in DOMAIN file' : file'[i].op \in is_valid
       /\ \A i \in DOMAIN buffer' : buffer'[i].op \in is_valid
  BY <1>10, LogOpsValid
<1>13. /\ pc' \in {"idle", "rewrite", "swap", "rename", "flushdb", "down"}
       /\ pc' \in {"rename", "flushdb", "down"} => buffer' = <<>>
       /\ pc' = "down" => db' = <<>>
  BY <1>8
<1>14. last_rewrite_size' \in Nat /\ now' \in 1 .. MaxTime /\ crashes' \in 0 .. MaxCrashes
  BY <1>7 DEF TypeInv, TypeOK
<1> QED BY <1>4, <1>6, <1>7, <1>9, <1>10, <1>11, <1>12, <1>13, <1>14 DEF TypeInv, TypeOK, LogsTyped

\* Every other step keeps the types.
LEMMA TypeStep ==
  ASSUME TypeInv, [Next]_vars
  PROVE  TypeInv'
<1>1. /\ file \in Seq(LogCommand) /\ buffer \in Seq(LogCommand) /\ window \in Seq(Stores)
      /\ temp \in Seq(Durable) /\ temp \in Seq(LogCommand)
  BY DurableLog DEF TypeInv, LogsTyped
<1>2. /\ file \o buffer \in Seq(LogCommand) /\ <<>> \in Seq(LogCommand) /\ <<>> \in Seq(Durable)
  BY <1>1, LogOps
<1>3. /\ IsStore(db) /\ Usage(db) <= LRU_MAX_MEMORY /\ now \in 1 .. MaxTime /\ now \in Int
      /\ last_rewrite_size \in Nat /\ commands \in 0 .. MaxCommands /\ crashes \in 0 .. MaxCrashes
      /\ MaxTime \in Nat /\ MaxCommands \in Nat /\ MaxCrashes \in Nat
  BY AofAssumption DEF TypeInv, TypeOK
<1>4. db \in Stores /\ <<db>> \in Seq(Stores) /\ <<db, <<>>>> \in Seq(Stores)
  <2>1. db \in Stores
    BY <1>3 DEF Stores, IsStore
  <2> QED BY <2>1, EmptyWithin
<1>5. /\ file' \in Seq(LogCommand) => \A i \in DOMAIN file' : file'[i].op \in is_valid
      /\ buffer' \in Seq(LogCommand) => \A i \in DOMAIN buffer' : buffer'[i].op \in is_valid
  BY LogOpsValid
<1>6. CASE \E c \in Commands : HandleCommand(c)
  BY <1>6, TypeHandle
<1>7. CASE flush_aof
  BY <1>1, <1>2, <1>3, <1>4, <1>5, <1>7 DEF flush_aof, TypeInv, TypeOK, LogsTyped
<1>8. CASE WriteTemp
  <2>1. temp' \in Seq(Durable)
    <3> DEFINE log == Compacted(db, now)
    <3>1. log \in Seq(Durable) /\ Len(log) \in Nat
      BY <1>3, RewriteRestores, LenProperties
    <3> HIDE DEF log
    <3>2. PICK n \in (IF DiskFull THEN 0 .. Len(log) ELSE {Len(log)}) : temp' = SubSeq(log, 1, n)
      BY <1>8 DEF WriteTemp, log
    <3>3. n \in 0 .. Len(log)
      BY <3>1, <3>2
    <3> QED BY <3>1, <3>2, <3>3, Beginning
  <2> QED BY <1>1, <1>3, <1>8, <2>1 DEF WriteTemp, TypeInv, TypeOK, LogsTyped
<1>9. CASE TempFails
  BY <1>1, <1>3, <1>9 DEF TempFails, TypeInv, TypeOK, LogsTyped
<1>10. CASE CloseLog
  BY <1>1, <1>2, <1>3, <1>4, <1>5, <1>10 DEF CloseLog, TypeInv, TypeOK, LogsTyped
<1>11. CASE Rename
  <2>1. Len(temp) \in Nat
    BY <1>1, LenProperties
  <2> QED BY <1>1, <1>2, <1>3, <1>5, <1>11, <2>1 DEF Rename, TypeInv, TypeOK, LogsTyped
<1>12. CASE RenameFails
  BY <1>1, <1>3, <1>12 DEF RenameFails, TypeInv, TypeOK, LogsTyped
<1>13. CASE command_flushdb
  <2>1. commands + 1 \in 0 .. MaxCommands
    BY <1>3, <1>13 DEF command_flushdb
  <2> QED BY <1>1, <1>2, <1>3, <1>4, <1>5, <1>13, <2>1, EmptyWithin
          DEF command_flushdb, TypeInv, TypeOK, LogsTyped
<1>14. CASE flush_clear_aof
  BY <1>1, <1>2, <1>3, <1>4, <1>5, <1>14 DEF flush_clear_aof, TypeInv, TypeOK, LogsTyped
<1>15. CASE Crash
  <2>1. crashes + 1 \in 0 .. MaxCrashes
    BY <1>3, <1>15 DEF Crash
  <2> QED BY <1>1, <1>2, <1>3, <1>5, <1>15, <2>1, EmptyWithin DEF Crash, TypeInv, TypeOK, LogsTyped
<1>16. CASE LoopBreaks
  <2>1. crashes + 1 \in 0 .. MaxCrashes
    BY <1>3, <1>16 DEF LoopBreaks
  <2> QED BY <1>1, <1>2, <1>3, <1>4, <1>5, <1>16, <2>1, EmptyWithin
          DEF LoopBreaks, TypeInv, TypeOK, LogsTyped
<1>17. CASE replay_aof
  <2> DEFINE r == Replay(file, now)
  <2>1. Holds(r)
    <3>1. file \in Seq(CommandType)
      BY <1>1 DEF LogCommand
    <3> QED BY <1>3, <3>1, ReplayHolds
  <2>2. IsStore(r.db) /\ Usage(r.db) <= LRU_MAX_MEMORY /\ <<r.db>> \in Seq(Stores)
    BY <2>1 DEF Holds, Stores, IsStore
  <2>3. db' = r.db /\ window' = <<r.db>> /\ pc = "down"
    BY <1>17 DEF replay_aof
  <2> HIDE DEF r
  <2>4. Len(file) \in Nat
    BY <1>1, LenProperties
  <2>5. /\ last_rewrite_size' = Len(file) /\ pc' \in {"rewrite", "idle"}
        /\ UNCHANGED <<buffer, file, temp, now, commands, crashes>>
    BY <1>17 DEF replay_aof
  <2> QED BY <1>1, <1>3, <1>5, <2>2, <2>3, <2>4, <2>5 DEF TypeInv, TypeOK, LogsTyped
<1>18. CASE Tick
  <2>1. now + 1 \in 1 .. MaxTime
    BY <1>3, <1>18 DEF Tick
  <2> QED BY <1>1, <1>3, <1>18, <2>1 DEF Tick, TypeInv, TypeOK, LogsTyped
<1>19. CASE UNCHANGED vars
  BY <1>19 DEF vars, TypeInv, TypeOK, LogsTyped
<1> QED BY <1>6, <1>7, <1>8, <1>9, <1>10, <1>11, <1>12, <1>13, <1>14, <1>15, <1>16, <1>17,
           <1>18, <1>19 DEF Next

\* Every state the server reaches has its types: a store holds every key once and is
\* within the memory limit, whatever was executed, evicted or replayed (lru.cpp:68), and
\* the log has only commands that change the store (aof.cpp:37).
THEOREM TypeCorrect == Spec => []TypeOK
<1>1. TypeInv /\ [Next]_vars => TypeInv'
  BY TypeStep
<1>2. TypeInv => TypeOK
  BY DEF TypeInv
<1> QED BY <1>1, <1>2, TypeInit, PTL DEF Spec

(***************************************************************************)
(* What the log says of the store.                                         *)
(***************************************************************************)

\* Replaying the log at time t gives the store, but for what no client can find.
Restorable(log, store, t) == ~Replay(log, t).dead /\ Sim(Replay(log, t).db, store, t)

\* The log, of which b is in the buffer, stands for the store d, and every beginning of
\* it that may be all that a crash leaves for a store of the window w.
Tracks(f, b, w, d, t) ==
  /\ Len(b) < Len(w)
  /\ \A n \in 0 .. Len(b) : Restorable(f \o SubSeq(b, 1, n), w[Len(w) - Len(b) + n], t)
  /\ Restorable(f \o b, d, t)

\* What the thread relies on in the middle of FLUSHDB and of a rewrite.
Rewriting ==
  /\ pc = "flushdb" => db = <<>>
  /\ pc = "rename" => window = <<db>>
  /\ pc \in {"swap", "rename"} => temp = Compacted(db, now)

\* The log stands for the store while the server runs; what is in the file for a store of
\* the window when it does not, or is in the middle of FLUSHDB.
Logging ==
  unlogged = {} =>
    /\ file \in Seq(Durable) /\ buffer \in Seq(Durable)
    /\ Serving => Tracks(file, buffer, window, db, now)
    /\ ~Serving => \E i \in DOMAIN window : Restorable(file, window[i], now)

\* A log stands for the same store later.
LEMMA RestorableLater ==
  ASSUME NEW log \in Seq(Durable), NEW s, NEW t \in Int, NEW u \in Int, t <= u, Restorable(log, s, t)
  PROVE  Restorable(log, s, u)
<1>1. Replay(log, t) = Replay(log, u)
  BY ReplayTimeless
<1>2. ~Replay(log, t).dead /\ Sim(Replay(log, t).db, s, t)
  BY DEF Restorable
<1> DEFINE R == Replay(log, t).db
<1> HIDE DEF R
<1>3. Sim(R, s, t)
  BY <1>2 DEF R
<1>4. Sim(R, s, u)
  BY <1>3, SimLater
<1> QED BY <1>1, <1>2, <1>4 DEF Restorable, R

\* All of the log in the file.
LEMMA TracksFlushed ==
  ASSUME NEW f \in Seq(Durable), NEW d, NEW t, Restorable(f, d, t)
  PROVE  Tracks(f, <<>>, <<d>>, d, t)
<1>1. f \o <<>> = f /\ Len(<<>>) = 0 /\ Len(<<d>>) = 1 /\ <<d>>[1] = d
  BY ConcatEmptySeq
<1> DEFINE z == <<>>
           w == <<d>>
<1>2. f \o z = f /\ Len(z) = 0 /\ Len(w) = 1 /\ w[1] = d /\ z \in Seq(Durable)
  BY <1>1
<1>3. SubSeq(z, 1, 0) = z
  <2>1. SubSeq(z, 1, 0) = <<>>
    OBVIOUS
  <2> QED BY <2>1
<1> HIDE DEF z, w
<1>4. \A n \in 0 .. Len(z) : Restorable(f \o SubSeq(z, 1, n), w[Len(w) - Len(z) + n], t)
  <2>1. Restorable(f, d, t)
    OBVIOUS
  <2>2. \A n \in 0 .. Len(z) : n = 0
    BY <1>2
  <2>3. Len(w) - Len(z) + 0 = 1
    BY <1>2
  <2>4. Restorable(f \o SubSeq(z, 1, 0), w[Len(w) - Len(z) + 0], t)
    BY <1>2, <1>3, <2>1, <2>3
  <2> QED BY <2>2, <2>4
<1>5. Tracks(f, z, w, d, t)
  BY <1>2, <1>4 DEF Tracks
<1> QED BY <1>5 DEF z, w

\* One more command in the buffer.
LEMMA TracksAppend ==
  ASSUME NEW f \in Seq(Durable), NEW b \in Seq(Durable), NEW w \in Seq(Stores), NEW d, NEW t,
         Tracks(f, b, w, d, t), NEW c \in Durable, NEW e \in Stores,
         Restorable(f \o Append(b, c), e, t)
  PROVE  Tracks(f, Append(b, c), Append(w, e), e, t)
<1> DEFINE p == Append(b, c)
           v == Append(w, e)
<1>1. /\ p \in Seq(Durable) /\ Len(p) = Len(b) + 1 /\ Len(b) \in Nat
      /\ Len(v) = Len(w) + 1 /\ Len(w) \in Nat /\ v[Len(w) + 1] = e
      /\ \A i \in 1 .. Len(w) : v[i] = w[i]
      /\ \A i \in 1 .. Len(b) : p[i] = b[i]
  BY LenProperties, AppendProperties
<1>2. Len(b) < Len(w) /\ \A n \in 0 .. Len(b) : Restorable(f \o SubSeq(b, 1, n), w[Len(w) - Len(b) + n], t)
  BY DEF Tracks
<1>6. Restorable(f \o p, e, t)
  OBVIOUS
<1> HIDE DEF p, v
<1>3. ASSUME NEW n \in 0 .. Len(b) PROVE SubSeq(p, 1, n) = SubSeq(b, 1, n)
  <2>1. n \in 0 .. Len(p)
    BY <1>1
  <2>2. /\ SubSeq(p, 1, n) \in Seq(Durable) /\ Len(SubSeq(p, 1, n)) = n
        /\ SubSeq(b, 1, n) \in Seq(Durable) /\ Len(SubSeq(b, 1, n)) = n
    BY <1>1, <2>1, Beginning
  <2>3. \A j \in 1 .. n : SubSeq(p, 1, n)[j] = SubSeq(b, 1, n)[j]
    BY <1>1, <2>2
  <2> QED BY <2>2, <2>3, SeqEqual
<1>4. ASSUME NEW n \in 0 .. Len(p) PROVE Restorable(f \o SubSeq(p, 1, n), v[Len(v) - Len(p) + n], t)
  <2>1. Len(v) - Len(p) + n = Len(w) - Len(b) + n
    BY <1>1
  <2>2. CASE n \in 0 .. Len(b)
    <3>1. Len(w) - Len(b) + n \in 1 .. Len(w)
      BY <1>1, <1>2, <2>2
    <3>2. v[Len(v) - Len(p) + n] = w[Len(w) - Len(b) + n]
      BY <1>1, <2>1, <3>1
    <3> QED BY <1>2, <1>3, <2>2, <3>2
  <2>3. CASE n = Len(p)
    <3>1. SubSeq(p, 1, n) = p
      BY <1>1, <2>3, SubSeqFull
    <3>2. v[Len(v) - Len(p) + n] = e
      <4>1. Len(w) - Len(b) + n = Len(w) + 1
        BY <1>1, <2>3
      <4> QED BY <1>1, <2>1, <4>1
    <3> QED BY <1>6, <3>1, <3>2
  <2>4. n \in 0 .. Len(b) \/ n = Len(p)
    BY <1>1
  <2> QED BY <2>2, <2>3, <2>4
<1>5. Len(p) < Len(v)
  BY <1>1, <1>2
<1> QED BY <1>4, <1>5, <1>6 DEF Tracks, p, v

\* The file f and the first n commands of the buffer b.
Upto(f, b, n) == f \o SubSeq(b, 1, n)

\* Moving the border between the file and the buffer does not change the log.
LEMMA Moved ==
  ASSUME NEW S, NEW f \in Seq(S), NEW x \in Seq(S), NEW y \in Seq(S), NEW m \in 0 .. Len(y)
  PROVE  Upto(f \o x, y, m) = Upto(f, x \o y, Len(x) + m)
<1> DEFINE v == SubSeq(y, 1, m)
<1>1. v \in Seq(S)
  BY Beginning
<1>2. SubSeq(x \o y, 1, Len(x) + m) = x \o v
  BY Cut
<1> HIDE DEF v
<1>3. (f \o x) \o v = f \o (x \o v)
  BY <1>1, ConcatAssociative
<1> QED BY <1>2, <1>3 DEF v, Upto

\* The stream passes the commands x of the buffer on to the kernel.
LEMMA TracksDrain ==
  ASSUME NEW f \in Seq(Durable), NEW x \in Seq(Durable), NEW y \in Seq(Durable),
         NEW w \in Seq(Stores), NEW d, NEW t, Tracks(f, x \o y, w, d, t)
  PROVE  Tracks(f \o x, y, w, d, t)
<1> DEFINE b == x \o y
<1>1. /\ Len(b) = Len(x) + Len(y) /\ Len(x) \in Nat /\ Len(y) \in Nat /\ Len(w) \in Nat
  BY ConcatProperties, LenProperties
<1>2. (f \o x) \o y = f \o b
  BY ConcatAssociative
<1>3. \A m \in 0 .. Len(y) : Upto(f \o x, y, m) = Upto(f, b, Len(x) + m)
  BY Moved
<1>4. /\ Len(b) < Len(w) /\ Restorable(f \o b, d, t)
      /\ \A m \in 0 .. Len(b) : Restorable(Upto(f, b, m), w[Len(w) - Len(b) + m], t)
  BY DEF Tracks, Upto
<1> HIDE DEF b
<1>5. ASSUME NEW m \in 0 .. Len(y) PROVE Restorable(Upto(f \o x, y, m), w[Len(w) - Len(y) + m], t)
  <2>1. Len(x) + m \in 0 .. Len(b) /\ Len(w) - Len(b) + (Len(x) + m) = Len(w) - Len(y) + m
    BY <1>1
  <2>2. Restorable(Upto(f, b, Len(x) + m), w[Len(w) - Len(b) + (Len(x) + m)], t)
    BY <1>4, <2>1
  <2> QED BY <1>3, <2>1, <2>2
<1>6. Len(y) < Len(w)
  BY <1>1, <1>4
<1> QED BY <1>2, <1>4, <1>5, <1>6 DEF Tracks, Upto

\* Time passes.
LEMMA TracksLater ==
  ASSUME NEW f \in Seq(Durable), NEW b \in Seq(Durable), NEW w, NEW d,
         NEW t \in Int, NEW u \in Int, t <= u, Tracks(f, b, w, d, t)
  PROVE  Tracks(f, b, w, d, u)
<1>1. ASSUME NEW n \in 0 .. Len(b) PROVE Restorable(f \o SubSeq(b, 1, n), w[Len(w) - Len(b) + n], u)
  <2>1. f \o SubSeq(b, 1, n) \in Seq(Durable)
    BY Beginning, ConcatProperties
  <2>2. Restorable(f \o SubSeq(b, 1, n), w[Len(w) - Len(b) + n], t)
    BY DEF Tracks
  <2> QED BY <2>1, <2>2, RestorableLater
<1>2. Restorable(f \o b, d, u)
  <2>1. f \o b \in Seq(Durable)
    BY ConcatProperties
  <2>2. Restorable(f \o b, d, t)
    BY DEF Tracks
  <2> QED BY <2>1, <2>2, RestorableLater
<1>3. Len(b) < Len(w)
  BY DEF Tracks
<1> QED BY <1>1, <1>2, <1>3 DEF Tracks

\* What the file alone stands for.
LEMMA TracksFile ==
  ASSUME NEW f \in Seq(Durable), NEW b \in Seq(Durable), NEW w \in Seq(Stores), NEW d, NEW t,
         Tracks(f, b, w, d, t)
  PROVE  \E i \in DOMAIN w : Restorable(f, w[i], t)
<1>1. Len(b) \in Nat /\ Len(w) \in Nat /\ DOMAIN w = 1 .. Len(w) /\ Len(b) < Len(w)
  BY LenProperties DEF Tracks
<1>2. 0 \in 0 .. Len(b) /\ Len(w) - Len(b) + 0 \in DOMAIN w
  BY <1>1
<1>3. Restorable(f \o SubSeq(b, 1, 0), w[Len(w) - Len(b) + 0], t)
  BY <1>2 DEF Tracks
<1>4. SubSeq(b, 1, 0) = <<>>
  <2>1. SubSeq(b, 1, 0) \in Seq(Durable) /\ Len(SubSeq(b, 1, 0)) = 0
    BY <1>2, Beginning
  <2> QED BY <2>1, EmptySeq
<1>5. f \o SubSeq(b, 1, 0) = f
  BY <1>4, ConcatEmptySeq
<1> QED BY <1>2, <1>3, <1>5

\* A command that succeeded and leaves nothing out is one the log takes, and means the
\* same at any time.
LEMMA OkLogged ==
  ASSUME NEW D, IsStore(D), Usage(D) <= LRU_MAX_MEMORY, NEW c \in CommandType, NEW t \in Int,
         Execute(D, c, t).silent = {}, Execute(D, c, t).ok
  PROVE  c \in Durable
<1> DEFINE o == Execute(D, c, t)
<1>1. CASE c.op = "SET"
  <2>1. o = command_set(D, c, t)
    BY <1>1 DEF Execute
  <2>2. c.opt \in {"EX", "PX"} => o.silent # {}
    BY <1>1, <2>1, SetEffect
  <2>3. c \in LogCommand
    BY <1>1 DEF LogCommand, is_valid
  <2> QED BY <2>2, <2>3 DEF Durable
<1>2. CASE c.op = "GET"
  <2>1. o = command_get(D, c, t)
    BY <1>2 DEF Execute
  <2>2. Same(o, D)
    BY <2>1, GetEffect
  <2> QED BY <2>2 DEF Same
<1>3. CASE c.op \in {"LPUSH", "RPUSH", "LPOP", "RPOP", "DEL", "HSET", "HDEL", "SADD", "SDEL"}
  <2>1. c \in LogCommand /\ c.op # "SET"
    BY <1>3 DEF LogCommand, is_valid
  <2> QED BY <2>1 DEF Durable
<1>4. CASE c.op \notin {"SET", "GET", "LPUSH", "RPUSH", "LPOP", "RPOP", "DEL", "HSET", "HDEL",
                        "SADD", "SDEL"}
  <2>1. Same(o, D)
    BY <1>4, QueryEffect
  <2> QED BY <2>1 DEF Same
<1> QED BY <1>1, <1>2, <1>3, <1>4

\* The log stands for the store after a command, which it has if the command succeeded.
LEMMA RestorableAfter ==
  ASSUME NEW log \in Seq(Durable), NEW D, NEW t \in Int, Restorable(log, D, t),
         Usage(D) <= LRU_MAX_MEMORY, NEW c \in CommandType,
         Execute(D, c, t).silent = {}, ~Execute(D, c, t).dead
  PROVE  /\ Execute(D, c, t).ok => Restorable(Append(log, c), Execute(D, c, t).db, t)
         /\ ~Execute(D, c, t).ok => Restorable(log, Execute(D, c, t).db, t)
<1> DEFINE R == Replay(log, t)
           o == Execute(D, c, t)
           p == Execute(R.db, c, t)
<1>1. ~R.dead /\ Sim(R.db, D, t)
  BY DEF Restorable
<1>2. IsStore(D)
  BY <1>1 DEF Sim
<1>3. Follows(o, p, R.db, t)
  <2> DEFINE r == R.db
  <2>1. Sim(r, D, t)
    BY <1>1
  <2> HIDE DEF r
  <2>2. Follows(Execute(D, c, t), Execute(r, c, t), r, t)
    BY <2>1, ExecuteFollows
  <2> QED BY <2>2 DEF r
<1>4. ASSUME o.ok PROVE Restorable(Append(log, c), o.db, t)
  <2>1. c \in Durable
    BY <1>2, <1>4, OkLogged
  <2>2. Replay(Append(log, c), t) = After(R, c, t)
    BY <2>1, ReplayAppend
  <2>3. After(R, c, t) = p
    BY <1>1 DEF After
  <2>4. ~p.dead /\ Sim(p.db, o.db, t)
    BY <1>3, <1>4 DEF Follows
  <2> HIDE DEF p, o, R
  <2> QED BY <2>2, <2>3, <2>4 DEF Restorable
<1>5. ASSUME ~o.ok PROVE Restorable(log, o.db, t)
  <2>1. Sim(R.db, o.db, t)
    BY <1>3, <1>5 DEF Follows
  <2> HIDE DEF o
  <2> QED BY <1>1, <2>1 DEF Restorable
<1> QED BY <1>4, <1>5

\* The inductive invariant.
LogInv == TypeInv /\ Rewriting /\ Logging

\* handle_command keeps the log in step with the store.
LEMMA LoggingHandle ==
  ASSUME TypeInv, Logging, NEW c \in Commands, HandleCommand(c)
  PROVE  Logging'
<1> DEFINE o == Execute(db, c, now)
           pending == IF Logged(c, o) THEN Append(buffer, c) ELSE buffer
           v == IF Logged(c, o) THEN Append(window, o.db) ELSE window
<1>1. /\ c \in CommandType /\ now \in Int /\ IsStore(db) /\ Usage(db) <= LRU_MAX_MEMORY /\ pc = "idle"
      /\ window \in Seq(Stores)
  BY AofAssumption DEF HandleCommand, TypeInv, TypeOK, LogsTyped
<1>2. now' = now
  BY DEF HandleCommand
<1>3. /\ o.dead => /\ pc' = "down" /\ buffer' = <<>>
                   /\ file' = file /\ window' = window /\ unlogged' = unlogged
      /\ ~o.dead => /\ db' = o.db /\ pc' \in {"idle", "rewrite"}
                    /\ \E n \in 0 .. Len(pending) :
                         /\ file' = file \o SubSeq(pending, 1, n)
                         /\ buffer' = SubSeq(pending, n + 1, Len(pending))
                    /\ window' = v /\ unlogged' = unlogged \cup o.silent
  BY DEF HandleCommand
<1>4. SUFFICES ASSUME unlogged' = {}
               PROVE  /\ file' \in Seq(Durable) /\ buffer' \in Seq(Durable)
                      /\ Serving' => Tracks(file', buffer', window', db', now')
                      /\ ~Serving' => \E i \in DOMAIN window' : Restorable(file', window'[i], now')
  BY DEF Logging
<1>5. unlogged = {} /\ (~o.dead => o.silent = {})
  BY <1>3, <1>4
<1>6. file \in Seq(Durable) /\ buffer \in Seq(Durable) /\ Tracks(file, buffer, window, db, now)
  BY <1>1, <1>5 DEF Logging, Serving
<1>7. CASE o.dead
  <2>1. \E i \in DOMAIN window : Restorable(file, window[i], now)
    BY <1>1, <1>6, TracksFile
  <2>2. <<>> \in Seq(Durable)
    OBVIOUS
  <2>3. ~Serving'
    BY <1>3, <1>7 DEF Serving
  <2> QED BY <1>2, <1>3, <1>6, <1>7, <2>1, <2>2, <2>3
<1>8. CASE ~o.dead
  <2>1. file \o buffer \in Seq(Durable) /\ Restorable(file \o buffer, db, now)
    BY <1>6, LogOps DEF Tracks
  <2>2. /\ o.ok => Restorable(Append(file \o buffer, c), o.db, now)
        /\ ~o.ok => Restorable(file \o buffer, o.db, now)
    BY <1>1, <1>5, <1>8, <2>1, RestorableAfter
  <2>3. o.ok => c \in Durable /\ Logged(c, o)
    <3>1. o.ok => c \in Durable
      BY <1>1, <1>5, <1>8, OkLogged
    <3> QED BY <3>1 DEF Durable, LogCommand, Logged
  <2>4. o.db \in Stores
    <3>1. Holds(o)
      BY <1>1, ExecuteHolds
    <3> QED BY <3>1 DEF Holds, Stores, IsStore
  <2>5. Serving'
    BY <1>3, <1>8 DEF Serving
  <2> DEFINE e == o.db
  <2>6. pending \in Seq(Durable) /\ v \in Seq(Stores) /\ Tracks(file, pending, v, e, now)
    <3>1. CASE Logged(c, o)
      <4>1. o.ok /\ c \in Durable
        BY <2>3, <3>1 DEF Logged
      <4>2. file \o Append(buffer, c) = Append(file \o buffer, c)
        BY <1>6, <4>1, ConcatAppend
      <4>3. pending = Append(buffer, c) /\ v = Append(window, e)
        BY <3>1
      <4>4. Restorable(file \o Append(buffer, c), e, now) /\ e \in Stores
        BY <2>2, <2>4, <4>1, <4>2
      <4> HIDE DEF pending, v, e
      <4>5. Tracks(file, Append(buffer, c), Append(window, e), e, now)
        BY <1>1, <1>6, <4>1, <4>4, TracksAppend
      <4>6. Append(buffer, c) \in Seq(Durable) /\ Append(window, e) \in Seq(Stores)
        BY <1>1, <1>6, <4>1, <4>4, AppendProperties
      <4> QED BY <4>3, <4>5, <4>6
    <3>2. CASE ~Logged(c, o)
      <4>1. Restorable(file \o buffer, e, now)
        BY <2>2, <2>3, <3>2
      <4>2. pending = buffer /\ v = window
        BY <3>2
      <4> HIDE DEF pending, v, e
      <4>3. Tracks(file, buffer, window, e, now)
        BY <1>6, <4>1 DEF Tracks
      <4> QED BY <1>1, <1>6, <4>2, <4>3
    <3> QED BY <3>1, <3>2
  <2>7. db' = e /\ window' = v
    BY <1>3, <1>8
  <2>8. PICK n \in 0 .. Len(pending) : /\ file' = file \o SubSeq(pending, 1, n)
                                       /\ buffer' = SubSeq(pending, n + 1, Len(pending))
    BY <1>3, <1>8
  <2> HIDE DEF pending, v, e
  <2> DEFINE x == SubSeq(pending, 1, n)
             y == SubSeq(pending, n + 1, Len(pending))
  <2>9. x \in Seq(Durable) /\ y \in Seq(Durable) /\ x \o y = pending
    BY <2>6, Halves
  <2>10. file' = file \o x /\ buffer' = y
    BY <2>8
  <2> HIDE DEF x, y
  <2>11. Tracks(file, x \o y, v, e, now)
    BY <2>6, <2>9
  <2>12. Tracks(file \o x, y, v, e, now)
    BY <1>6, <2>6, <2>9, <2>11, TracksDrain
  <2>13. file \o x \in Seq(Durable)
    BY <1>6, <2>9, LogOps
  <2> QED BY <1>2, <2>5, <2>7, <2>9, <2>10, <2>12, <2>13
<1> QED BY <1>7, <1>8

\* Initially the log and the store are empty.
LEMMA LogInit == Init => LogInv
<1> SUFFICES ASSUME Init PROVE LogInv
  OBVIOUS
<1>1. TypeInv
  BY TypeInit
<1>2. <<>> \in Seq(Durable)
  OBVIOUS
<1>3. Restorable(<<>>, <<>>, now)
  BY ReplayEmpty, EmptyStore, SimSelf DEF Restorable, Outcome
<1>4. Tracks(<<>>, <<>>, <<(<<>>)>>, <<>>, now)
  BY <1>2, <1>3, TracksFlushed
<1>5. Logging
  BY <1>2, <1>4 DEF Init, Logging, Serving
<1>6. Rewriting
  BY DEF Init, Rewriting
<1> QED BY <1>1, <1>5, <1>6 DEF LogInv

\* The parts of a rewrite and of FLUSHDB stay as they are while the thread works on them.
LEMMA RewritingStep ==
  ASSUME DiskFull = FALSE, LogInv, [Next]_vars
  PROVE  Rewriting'
<1>1. TypeInv /\ Rewriting
  BY DEF LogInv
<1>2. CASE \E c \in Commands : HandleCommand(c)
  BY <1>2 DEF HandleCommand, Rewriting
<1>3. CASE flush_aof
  BY <1>3 DEF flush_aof, Rewriting
<1>4. CASE WriteTemp
  <2> DEFINE log == Compacted(db, now)
  <2>0. IsStore(db) /\ Usage(db) <= LRU_MAX_MEMORY /\ now \in Int
    BY <1>1, AofAssumption DEF TypeInv, TypeOK
  <2>1. log \in Seq(Durable)
    BY <2>0, RewriteRestores
  <2>2. pc' = "swap" /\ db' = db /\ now' = now /\ temp' = SubSeq(log, 1, Len(log))
    BY <1>4 DEF WriteTemp
  <2>3. temp' = log
    <3> HIDE DEF log
    <3> QED BY <2>1, <2>2, SubSeqFull
  <2>4. Compacted(db', now') = log
    BY <2>2
  <2> HIDE DEF log
  <2> QED BY <2>2, <2>3, <2>4 DEF Rewriting
<1>5. CASE TempFails
  BY <1>5 DEF TempFails, Rewriting
<1>6. CASE CloseLog
  BY <1>1, <1>6 DEF CloseLog, Rewriting
<1>7. CASE Rename
  BY <1>7 DEF Rename, Rewriting
<1>8. CASE RenameFails
  BY <1>8 DEF RenameFails, Rewriting
<1>9. CASE command_flushdb
  BY <1>9 DEF command_flushdb, Rewriting
<1>10. CASE flush_clear_aof
  BY <1>10 DEF flush_clear_aof, Rewriting
<1>11. CASE Crash
  BY <1>11 DEF Crash, Rewriting
<1>12. CASE LoopBreaks
  BY <1>12 DEF LoopBreaks, Rewriting
<1>13. CASE replay_aof
  BY <1>13 DEF replay_aof, Rewriting
<1>14. CASE Tick
  BY <1>14 DEF Tick, Rewriting
<1>15. CASE UNCHANGED vars
  BY <1>1, <1>15 DEF vars, Rewriting
<1> QED BY <1>2, <1>3, <1>4, <1>5, <1>6, <1>7, <1>8, <1>9, <1>10, <1>11, <1>12, <1>13,
           <1>14, <1>15 DEF Next

\* Overdue looks at all nodes.
LEMMA NoneOverdue ==
  ASSUME IsStore(db), ~Overdue, NEW n \in Range(db)
  PROVE  n.expiry >= 0
<1>1. PICK i \in DOMAIN db : n = db[i]
  BY DEF Range
<1>2. ~(n.expiry < 0)
  BY <1>1 DEF Overdue
<1>3. n.expiry \in Int
  BY StoreNodes, NodeFields
<1> QED BY <1>2, <1>3

\* Every step keeps the log in step with the store: a rewrite replaces it by the
\* compacted one, and a crash leaves the file.
LEMMA LoggingStep ==
  ASSUME LogInv, [Next]_vars
  PROVE  Logging'
<1>1. TypeInv /\ Rewriting /\ Logging
  BY DEF LogInv
<1>2. /\ IsStore(db) /\ Usage(db) <= LRU_MAX_MEMORY /\ now \in Int
      /\ file \in Seq(LogCommand) /\ temp \in Seq(Durable) /\ window \in Seq(Stores)
      /\ pc \in {"rename", "flushdb", "down"} => buffer = <<>>
  BY <1>1, AofAssumption DEF TypeInv, TypeOK, LogsTyped
<1>3. <<>> \in Seq(Durable)
  OBVIOUS
<1>4. ASSUME unlogged = {}
      PROVE  file \in Seq(Durable) /\ buffer \in Seq(Durable) /\ file \o buffer \in Seq(Durable)
  BY <1>1, <1>4, LogOps DEF Logging
<1>5. ASSUME unlogged = {}, Serving
      PROVE  /\ Tracks(file, buffer, window, db, now) /\ Restorable(file \o buffer, db, now)
             /\ Tracks(file \o buffer, <<>>, <<db>>, db, now)
             /\ \E i \in DOMAIN window : Restorable(file, window[i], now)
  <2>1. Tracks(file, buffer, window, db, now)
    BY <1>1, <1>5 DEF Logging
  <2>2. Restorable(file \o buffer, db, now)
    BY <2>1 DEF Tracks
  <2>3. Tracks(file \o buffer, <<>>, <<db>>, db, now)
    BY <1>4, <1>5, <2>2, TracksFlushed
  <2>4. \E i \in DOMAIN window : Restorable(file, window[i], now)
    BY <1>2, <1>4, <1>5, <2>1, TracksFile
  <2> QED BY <2>1, <2>2, <2>3, <2>4
<1>6. ASSUME unlogged = {}
      PROVE  \E i \in DOMAIN window : Restorable(file, window[i], now)
  BY <1>1, <1>5, <1>6 DEF Logging
<1>7. CASE \E c \in Commands : HandleCommand(c)
  BY <1>1, <1>7, LoggingHandle
<1>8. CASE flush_aof
  <2>1. /\ Serving /\ Serving' /\ unlogged' = unlogged /\ file' = file \o buffer /\ buffer' = <<>>
        /\ window' = <<db>> /\ db' = db /\ now' = now
    BY <1>8 DEF flush_aof, Serving
  <2> QED BY <1>3, <1>4, <1>5, <2>1 DEF Logging
<1>9. CASE WriteTemp \/ TempFails \/ RenameFails
  <2>1. /\ Serving /\ Serving'
        /\ UNCHANGED <<unlogged, file, buffer, window, db, now>>
    BY <1>9 DEF WriteTemp, TempFails, RenameFails, Serving
  <2> QED BY <1>4, <1>5, <2>1 DEF Logging
<1>10. CASE CloseLog
  <2>1. /\ Serving /\ Serving' /\ unlogged' = unlogged /\ file' = file \o buffer /\ buffer' = <<>>
        /\ window' = <<db>> /\ db' = db /\ now' = now
    BY <1>10 DEF CloseLog, Serving
  <2> QED BY <1>3, <1>4, <1>5, <2>1 DEF Logging
<1>11. CASE Rename
  <2>1. /\ file' = temp /\ UNCHANGED <<db, buffer, now, window>> /\ Serving'
        /\ unlogged' = {} => ~Overdue
        /\ buffer = <<>> /\ window = <<db>> /\ temp = Compacted(db, now)
    BY <1>1, <1>2, <1>11 DEF Rename, Serving, Rewriting
  <2> SUFFICES ASSUME unlogged' = {} PROVE Tracks(file', buffer', window', db', now')
    BY <1>2, <1>3, <2>1 DEF Logging
  <2>2. \A n \in Range(db) : n.expiry >= 0
    BY <1>2, <2>1, NoneOverdue
  <2>3. Restorable(temp, db, now)
    <3> DEFINE R == Replay(Compacted(db, now), now)
    <3>1. ~R.dead /\ Sim(R.db, db, now)
      BY <1>2, <2>2, RewriteRestores
    <3> QED BY <2>1, <3>1 DEF Restorable
  <2>4. Tracks(temp, <<>>, <<db>>, db, now)
    BY <1>2, <2>3, TracksFlushed
  <2> QED BY <2>1, <2>4
<1>12. CASE command_flushdb
  <2>1. /\ Serving /\ ~Serving' /\ unlogged' = unlogged /\ file' = file \o buffer /\ buffer' = <<>>
        /\ window' = <<db, <<>>>> /\ now' = now
    BY <1>12 DEF command_flushdb, Serving
  <2>2. 1 \in DOMAIN window' /\ window'[1] = db
    BY <2>1
  <2> QED BY <1>3, <1>4, <1>5, <2>1, <2>2 DEF Logging
<1>13. CASE flush_clear_aof
  <2>1. /\ file' = <<>> /\ buffer' = <<>> /\ db' = <<>> /\ window' = <<(<<>>)>> /\ Serving' /\ now' = now
    BY <1>1, <1>2, <1>13 DEF flush_clear_aof, Serving, Rewriting
  <2>2. Restorable(<<>>, <<>>, now)
    BY ReplayEmpty, EmptyStore, SimSelf DEF Restorable, Outcome
  <2>3. Tracks(<<>>, <<>>, <<(<<>>)>>, <<>>, now)
    BY <1>3, <2>2, TracksFlushed
  <2> QED BY <1>3, <2>1, <2>3 DEF Logging
<1>14. CASE Crash
  <2>1. ~Serving' /\ buffer' = <<>> /\ UNCHANGED <<file, window, unlogged, now>>
    BY <1>14 DEF Crash, Serving
  <2> QED BY <1>3, <1>4, <1>6, <2>1 DEF Logging
<1>15. CASE LoopBreaks
  <2>1. /\ Serving /\ ~Serving' /\ unlogged' = unlogged /\ file' = file \o buffer /\ buffer' = <<>>
        /\ window' = <<db>> /\ now' = now
    BY <1>15 DEF LoopBreaks, Serving
  <2>2. 1 \in DOMAIN window' /\ window'[1] = db
    BY <2>1
  <2> QED BY <1>3, <1>4, <1>5, <2>1, <2>2 DEF Logging
<1>16. CASE replay_aof
  <2> DEFINE r == Replay(file, now)
             e == r.db
  <2>1. /\ ~r.dead /\ db' = e /\ window' = <<e>> /\ pc = "down" /\ Serving'
        /\ UNCHANGED <<buffer, file, now>>
        /\ unlogged' = {} => \A i \in DOMAIN file : file[i].opt \notin {"EX", "PX"}
    BY <1>16 DEF replay_aof, Serving
  <2>2. buffer' = <<>>
    BY <1>2, <2>1
  <2>3. ASSUME unlogged' = {} PROVE file \in Seq(Durable)
    <3>1. \A i \in 1 .. Len(file) : file[i] \in Durable
      <4>1. \A i \in 1 .. Len(file) : file[i] \in LogCommand /\ file[i].opt \notin {"EX", "PX"}
        BY <1>2, <2>1, <2>3, LogOps
      <4> QED BY <4>1 DEF Durable
    <3> QED BY <1>2, <3>1, SeqDef, LenProperties
  <2>4. Holds(r)
    <3>1. file \in Seq(CommandType)
      BY <1>2 DEF LogCommand
    <3> QED BY <1>2, <3>1, ReplayHolds
  <2>5. Restorable(file, e, now)
    <3>1. IsStore(e)
      BY <2>4 DEF Holds
    <3>2. Sim(e, e, now)
      <4> HIDE DEF e
      <4> QED BY <3>1, SimSelf
    <3> QED BY <2>1, <3>2 DEF Restorable
  <2> HIDE DEF r, e
  <2>6. unlogged' = {} => Tracks(file, <<>>, <<e>>, e, now)
    BY <2>3, <2>5, TracksFlushed
  <2> QED BY <1>3, <2>1, <2>2, <2>3, <2>6 DEF Logging
<1>17. CASE Tick
  <2>1. /\ UNCHANGED <<unlogged, file, buffer, window, db>> /\ now' = now + 1
        /\ Serving' = Serving
    BY <1>17 DEF Tick, Serving
  <2>2. now' \in Int /\ now <= now'
    BY <1>2, <2>1
  <2>3. ASSUME unlogged = {}, Serving PROVE Tracks(file, buffer, window, db, now')
    BY <1>2, <1>4, <1>5, <2>2, <2>3, TracksLater
  <2>4. ASSUME unlogged = {} PROVE \E i \in DOMAIN window : Restorable(file, window[i], now')
    BY <1>2, <1>4, <1>6, <2>2, <2>4, RestorableLater
  <2> QED BY <1>4, <2>1, <2>3, <2>4 DEF Logging
<1>18. CASE UNCHANGED vars
  BY <1>1, <1>18 DEF vars, Logging, Serving
<1> QED BY <1>7, <1>8, <1>9, <1>10, <1>11, <1>12, <1>13, <1>14, <1>15, <1>16, <1>17, <1>18 DEF Next

\* The invariant is inductive if the disk has room for the temporary file.
LEMMA LogStep ==
  ASSUME DiskFull = FALSE, LogInv, [Next]_vars
  PROVE  LogInv'
<1>1. TypeInv'
  BY TypeStep DEF LogInv
<1> QED BY <1>1, RewritingStep, LoggingStep DEF LogInv

\* Where the log stands for the store, the contents are the same.
LEMMA RestorableContents ==
  ASSUME NEW log, NEW s, NEW t, Restorable(log, s, t)
  PROVE  SameContents(Replay(log, t).db, s, t)
<1> DEFINE R == Replay(log, t).db
<1>1. Sim(R, s, t)
  BY DEF Restorable
<1> HIDE DEF R
<1>2. SameContents(R, s, t)
  BY <1>1, SimVisible
<1> QED BY <1>2 DEF R

\* Whatever clients send, and however crashes, restarts, rewrites and FLUSHDB fall between
\* their commands, executing the log again gives the contents of the store, unless one of
\* the five reasons of unlogged is against it (aof.cpp:37, commands.cpp:910).
THEOREM LogCorrect ==
  ASSUME DiskFull = FALSE
  PROVE  Spec => []LogComplete
<1>1. LogInv /\ [Next]_vars => LogInv'
  BY LogStep
<1>2. LogInv => LogComplete
  <2> SUFFICES ASSUME LogInv, unlogged = {}, Serving
               PROVE  SameContents(Replay(file \o buffer, now).db, db, now)
    BY DEF LogComplete, LogGivesStore
  <2>1. Restorable(file \o buffer, db, now)
    BY DEF LogInv, Logging, Tracks
  <2> QED BY <2>1, RestorableContents
<1> QED BY <1>1, <1>2, LogInit, PTL DEF Spec

\* Killed at any point, also in the middle of a rewrite or of FLUSHDB, the server finds
\* after a restart the contents of a store it had at or after the last flush (README.md:80).
THEOREM RecoveryCorrect ==
  ASSUME DiskFull = FALSE
  PROVE  Spec => []Recoverable
<1>1. LogInv /\ [Next]_vars => LogInv'
  BY LogStep
<1>2. LogInv => Recoverable
  <2> SUFFICES ASSUME LogInv, unlogged = {}
               PROVE  \E i \in DOMAIN window : SameContents(Replay(file, now).db, window[i], now)
    BY DEF Recoverable
  <2>1. \E i \in DOMAIN window : Restorable(file, window[i], now)
    <3>1. CASE Serving
      <4>1. /\ file \in Seq(Durable) /\ buffer \in Seq(Durable) /\ window \in Seq(Stores)
            /\ Tracks(file, buffer, window, db, now)
        BY <3>1 DEF LogInv, Logging, TypeInv, LogsTyped
      <4> QED BY <4>1, TracksFile
    <3>2. CASE ~Serving
      BY <3>2 DEF LogInv, Logging
    <3> QED BY <3>1, <3>2
  <2>2. PICK i \in DOMAIN window : Restorable(file, window[i], now)
    BY <2>1
  <2>3. SameContents(Replay(file, now).db, window[i], now)
    BY <2>2, RestorableContents
  <2> QED BY <2>3
<1> QED BY <1>1, <1>2, LogInit, PTL DEF Spec

\* The log a rewrite is about to put in place gives the live nodes of the store in their
\* order of use, unless a key has a negative expiry time (aof.cpp:141).
THEOREM RewriteCorrect ==
  ASSUME DiskFull = FALSE
  PROVE  Spec => []RewriteFaithful
<1>1. LogInv /\ [Next]_vars => LogInv'
  BY LogStep
<1>2. LogInv => RewriteFaithful
  <2> SUFFICES ASSUME LogInv, pc \in {"swap", "rename"}, ~Overdue
               PROVE  SameStore(Replay(temp, now).db, db, now)
    BY DEF RewriteFaithful
  <2>1. /\ IsStore(db) /\ Usage(db) <= LRU_MAX_MEMORY /\ now \in Int /\ temp = Compacted(db, now)
    BY AofAssumption DEF LogInv, Rewriting, TypeInv, TypeOK
  <2>2. \A n \in Range(db) : n.expiry >= 0
    BY <2>1, NoneOverdue
  <2>3. SameStore(Replay(Compacted(db, now), now).db, db, now)
    BY <2>1, <2>2, RewriteRestores
  <2> QED BY <2>1, <2>3
<1> QED BY <1>1, <1>2, LogInit, PTL DEF Spec

(***************************************************************************)
(* What a restart brings back.                                             *)
(***************************************************************************)

\* The contents a log gives, and those the logs give that f and a part of b make up.
Given(log, t) == Found(Replay(log, t).db, t)
KeptOf(f, b, t) == {Given(Upto(f, b, n), t) : n \in 0 .. Len(b)}

\* Kept is about the file and the buffer.
LEMMA KeptIs == Kept = KeptOf(file, buffer, now) /\ Kept' = KeptOf(file', buffer', now')
<1>1. ASSUME NEW f, NEW b, NEW t
      PROVE  {Found(o.db, t) : o \in {Replay(log, t) : log \in {f \o SubSeq(b, 1, n) : n \in 0 .. Len(b)}}}
               = KeptOf(f, b, t)
  BY Zenon DEF KeptOf, Given, Upto
<1> QED BY <1>1, Zenon DEF Kept, Remains

\* Found looks at the nodes of a store.
LEMMA FoundNodes ==
  ASSUME NEW s, IsStore(s), NEW t
  PROVE  Found(s, t) = {n \in Range(s) : ~Hidden(n, t)}
<1> DEFINE F == {n \in Range(s) : ~Expired(n, t) /\ Elements(n) > 0}
<1>1. s \in Seq(Nodes)
  BY StoreNodes
<1>2. Visible(s, t) = Keep(s, F)
  BY DEF Visible
<1>3. Range(Keep(s, F)) = Range(s) \cap F
  <2> HIDE DEF F
  <2> QED BY <1>1, KeepRange
<1> QED BY <1>2, <1>3 DEF Found, Hidden

\* Nothing is found in the empty store.
LEMMA FoundNone == \A t : Found(<<>>, t) = {}
<1>1. Range(<<>>) = {}
  BY DEF Range
<1> QED BY <1>1, EmptyStore, FoundNodes

\* Where a log stands for a store, it gives what is found there.
LEMMA GivenFound ==
  ASSUME NEW log, NEW s, NEW t, Restorable(log, s, t)
  PROVE  Given(log, t) = Found(s, t)
<1> DEFINE R == Replay(log, t).db
<1>1. Sim(R, s, t)
  BY DEF Restorable
<1> HIDE DEF R
<1>2. /\ IsStore(R) /\ IsStore(s) /\ Range(R) \subseteq Range(s)
      /\ \A n \in Range(s) \ Range(R) : Hidden(n, t)
  BY <1>1 DEF Sim
<1>3. Found(R, t) = Found(s, t)
  BY <1>2, FoundNodes
<1> QED BY <1>3 DEF Given, R

\* With nothing in the buffer only the file counts.
LEMMA KeptFlushed ==
  ASSUME NEW S, NEW f \in Seq(S), NEW t
  PROVE  KeptOf(f, <<>>, t) = {Given(f, t)}
<1> DEFINE z == <<>>
<1>1. Len(z) = 0 /\ SubSeq(z, 1, 0) = <<>> /\ f \o <<>> = f
  BY ConcatEmptySeq
<1>2. Upto(f, z, 0) = f
  BY <1>1 DEF Upto
<1> HIDE DEF z
<1>3. 0 .. Len(z) = {0}
  BY <1>1
<1>4. KeptOf(f, z, t) = {Given(f, t)}
  BY <1>2, <1>3 DEF KeptOf
<1> QED BY <1>4 DEF z

\* The file may be all that is left, and so may be the whole log.
LEMMA KeptEnds ==
  ASSUME NEW S, NEW f \in Seq(S), NEW b \in Seq(S), NEW t
  PROVE  Given(f, t) \in KeptOf(f, b, t) /\ Given(f \o b, t) \in KeptOf(f, b, t)
<1>1. Len(b) \in Nat
  BY LenProperties
<1>2. 0 \in 0 .. Len(b) /\ Len(b) \in 0 .. Len(b)
  BY <1>1
<1>3. SubSeq(b, 1, 0) = <<>>
  <2>1. SubSeq(b, 1, 0) \in Seq(S) /\ Len(SubSeq(b, 1, 0)) = 0
    BY <1>2, Beginning
  <2> QED BY <2>1, EmptySeq
<1>4. Upto(f, b, 0) = f
  BY <1>3, ConcatEmptySeq DEF Upto
<1>5. Upto(f, b, Len(b)) = f \o b
  BY SubSeqFull DEF Upto
<1> QED BY <1>2, <1>4, <1>5 DEF KeptOf

\* What has reached the kernel is no longer lost.
LEMMA KeptDrain ==
  ASSUME NEW S, NEW f \in Seq(S), NEW x \in Seq(S), NEW y \in Seq(S), NEW t
  PROVE  KeptOf(f \o x, y, t) \subseteq KeptOf(f, x \o y, t)
<1>1. ASSUME NEW m \in 0 .. Len(y)
      PROVE  Given(Upto(f \o x, y, m), t) \in KeptOf(f, x \o y, t)
  <2>1. Upto(f \o x, y, m) = Upto(f, x \o y, Len(x) + m)
    BY Moved
  <2>2. Len(x) + m \in 0 .. Len(x \o y)
    BY ConcatProperties, LenProperties
  <2> QED BY <2>1, <2>2 DEF KeptOf
<1> QED BY <1>1 DEF KeptOf

\* One more command in the buffer.
LEMMA KeptAppend ==
  ASSUME NEW S, NEW f \in Seq(S), NEW b \in Seq(S), NEW c \in S, NEW t
  PROVE  KeptOf(f, Append(b, c), t) \subseteq KeptOf(f, b, t) \cup {Given(f \o Append(b, c), t)}
<1> DEFINE p == Append(b, c)
<1>1. p \in Seq(S) /\ Len(p) = Len(b) + 1 /\ Len(b) \in Nat /\ p = b \o <<c>> /\ <<c>> \in Seq(S)
  BY LenProperties, AppendProperties, AppendIsConcat
<1> HIDE DEF p
<1>2. ASSUME NEW n \in 0 .. Len(p)
      PROVE  Given(Upto(f, p, n), t) \in KeptOf(f, b, t) \cup {Given(f \o p, t)}
  <2>1. CASE n \in 0 .. Len(b)
    <3>1. SubSeq(p, 1, n) = SubSeq(b, 1, n)
      BY <1>1, <2>1, Cut
    <3> QED BY <2>1, <3>1 DEF KeptOf, Upto
  <2>2. CASE n = Len(p)
    <3>1. SubSeq(p, 1, n) = p
      BY <1>1, <2>2, SubSeqFull
    <3> QED BY <3>1 DEF Upto
  <2>3. n \in 0 .. Len(b) \/ n = Len(p)
    BY <1>1
  <2> QED BY <2>1, <2>2, <2>3
<1> QED BY <1>2 DEF KeptOf, p

\* The nodes that have expired.
Gone(t) == {n \in Nodes : Expired(n, t)}

\* As time passes a client finds less, but for expired nodes nothing is lost.
LEMMA FoundLater ==
  ASSUME NEW s, IsStore(s), NEW t \in Int, NEW u \in Int, t <= u
  PROVE  Found(s, u) = Found(s, t) \ Gone(u)
<1>1. \A n \in Range(s) : n \in Nodes /\ n.expiry \in Int
  BY StoreNodes, NodeFields
<1>2. \A n \in Range(s) : Hidden(n, u) <=> Hidden(n, t) \/ n \in Gone(u)
  <2> SUFFICES ASSUME NEW n \in Range(s) PROVE Hidden(n, u) <=> Hidden(n, t) \/ n \in Gone(u)
    OBVIOUS
  <2>1. n \in Gone(u) <=> Expired(n, u)
    BY <1>1 DEF Gone
  <2>2. Expired(n, t) => Expired(n, u)
    BY <1>1 DEF Expired
  <2> QED BY <2>1, <2>2 DEF Hidden
<1> QED BY <1>2, FoundNodes

\* The same holds of the contents a log gives, and of those that are kept.
LEMMA KeptLater ==
  ASSUME NEW f \in Seq(Durable), NEW b \in Seq(Durable), NEW t \in Int, NEW u \in Int, t <= u
  PROVE  KeptOf(f, b, u) = {s \ Gone(u) : s \in KeptOf(f, b, t)}
<1>1. ASSUME NEW n \in 0 .. Len(b) PROVE Given(Upto(f, b, n), u) = Given(Upto(f, b, n), t) \ Gone(u)
  <2> DEFINE log == Upto(f, b, n)
             R == Replay(log, t).db
  <2>1. log \in Seq(Durable)
    BY Beginning, ConcatProperties DEF Upto
  <2>2. Holds(Replay(log, t))
    <3>1. log \in Seq(CommandType)
      BY <2>1 DEF Durable, LogCommand
    <3> HIDE DEF log
    <3> QED BY <3>1, ReplayHolds
  <2>3. IsStore(R)
    BY <2>2 DEF Holds
  <2>4. Replay(log, u) = Replay(log, t)
    BY <2>1, ReplayTimeless
  <2> HIDE DEF R
  <2>5. Found(R, u) = Found(R, t) \ Gone(u)
    BY <2>3, FoundLater
  <2> QED BY <2>4, <2>5 DEF Given, R
<1> QED BY <1>1 DEF KeptOf

\* handle_command writes, or the process dies on it; a change that the log does not record
\* ends the promise.
LEMMA HandlePromised ==
  ASSUME LogInv, LogInv', NEW c \in Commands, HandleCommand(c)
  PROVE  Promised!Write \/ Promised!Stop \/ Promised!Drift
<1> DEFINE o == Execute(db, c, now)
           pending == IF Logged(c, o) THEN Append(buffer, c) ELSE buffer
<1>1. /\ pc = "idle" /\ now' = now /\ c \in CommandType
      /\ file \in Seq(LogCommand) /\ buffer \in Seq(LogCommand)
  BY AofAssumption DEF HandleCommand, LogInv, TypeInv, LogsTyped
<1>2. /\ o.dead => /\ pc' = "down" /\ db' = <<>> /\ buffer' = <<>> /\ file' = file /\ unlogged' = unlogged
      /\ ~o.dead => /\ pc' \in {"idle", "rewrite"} /\ unlogged' = unlogged \cup o.silent
                    /\ \E n \in 0 .. Len(pending) :
                         /\ file' = file \o SubSeq(pending, 1, n)
                         /\ buffer' = SubSeq(pending, n + 1, Len(pending))
  BY DEF HandleCommand
<1>3. CASE o.dead
  <2>1. Kept' = {Given(file, now)} /\ Given(file, now) \in Kept
    BY <1>1, <1>2, <1>3, KeptIs, KeptFlushed, KeptEnds
  <2>2. Found(db', now') = {}
    BY <1>2, <1>3, FoundNone
  <2> HIDE DEF o
  <2> QED BY <1>1, <1>2, <1>3, <2>1, <2>2 DEF Promised!Stop
<1>4. CASE ~o.dead /\ unlogged' # {}
  BY <1>1, <1>2, <1>4 DEF Promised!Drift
<1>5. CASE ~o.dead /\ unlogged' = {}
  <2>1. unlogged = {}
    BY <1>2, <1>5
  <2>2. Serving' /\ Restorable(file' \o buffer', db', now')
    BY <1>2, <1>5 DEF LogInv, Logging, Tracks, Serving
  <2> DEFINE x == Found(db', now')
  <2>3. Given(file' \o buffer', now') = x
    BY <2>2, GivenFound
  <2>4. x \in Kept'
    <3>1. file' \in Seq(LogCommand) /\ buffer' \in Seq(LogCommand)
      BY DEF LogInv, TypeInv, LogsTyped
    <3> QED BY <2>3, <3>1, KeptIs, KeptEnds
  <2>5. pending \in Seq(LogCommand)
    <3>1. Logged(c, o) => c \in LogCommand
      BY <1>1 DEF Logged, LogCommand
    <3> QED BY <1>1, <3>1, AppendProperties
  <2>6. PICK n \in 0 .. Len(pending) : /\ file' = file \o SubSeq(pending, 1, n)
                                       /\ buffer' = SubSeq(pending, n + 1, Len(pending))
    BY <1>2, <1>5
  <2> DEFINE y == SubSeq(pending, 1, n)
             z == SubSeq(pending, n + 1, Len(pending))
  <2> HIDE DEF pending
  <2>7. y \in Seq(LogCommand) /\ z \in Seq(LogCommand) /\ y \o z = pending
    BY <2>5, Halves
  <2>8. file' = file \o y /\ buffer' = z
    BY <2>6
  <2> HIDE DEF y, z
  <2>9. Kept' \subseteq KeptOf(file, pending, now)
    BY <1>1, <2>7, <2>8, KeptIs, KeptDrain
  <2>10. file' \o buffer' = file \o pending
    <3>1. \A f, g, h \in Seq(LogCommand) : (f \o g) \o h = f \o (g \o h)
      BY ConcatAssociative
    <3>2. (file \o y) \o z = file \o (y \o z)
      BY <1>1, <2>7, <3>1
    <3> QED BY <2>7, <2>8, <3>2
  <2>11. KeptOf(file, pending, now) \subseteq Kept \cup {x}
    <3>1. CASE Logged(c, o)
      <4>1. c \in LogCommand /\ pending = Append(buffer, c)
        BY <1>1, <3>1 DEF Logged, LogCommand, pending
      <4>2. KeptOf(file, Append(buffer, c), now)
              \subseteq KeptOf(file, buffer, now) \cup {Given(file \o Append(buffer, c), now)}
        BY <1>1, <4>1, KeptAppend
      <4> QED BY <1>1, <2>3, <2>10, <4>1, <4>2, KeptIs
    <3>2. CASE ~Logged(c, o)
      BY <3>2, KeptIs DEF pending
    <3> QED BY <3>1, <3>2
  <2>12. pc # "down" /\ pc' # "down"
    BY <1>1, <1>2, <1>5
  <2> HIDE DEF x
  <2>13. x \in Kept' /\ Kept' \ {x} \subseteq Kept
    BY <2>4, <2>9, <2>11
  <2>14. Promised!Write
    BY <1>5, <2>1, <2>12, <2>13 DEF Promised!Write, x
  <2> QED BY <2>14
<1> QED BY <1>3, <1>4, <1>5

\* Tick: the nodes that expire are gone from the store and from all that is kept.
LEMMA TickPromised ==
  ASSUME LogInv, Tick
  PROVE  Promised!Expire \/ Promised!Drift
<1>1. /\ UNCHANGED <<db, buffer, file, pc, unlogged>> /\ now' = now + 1
      /\ now \in Int /\ IsStore(db)
  BY AofAssumption DEF Tick, LogInv, TypeInv, TypeOK
<1>2. CASE unlogged # {}
  BY <1>1, <1>2 DEF Promised!Drift
<1>3. CASE unlogged = {}
  <2>1. file \in Seq(Durable) /\ buffer \in Seq(Durable)
    BY <1>3 DEF LogInv, Logging
  <2>2. now' \in Int /\ now <= now'
    BY <1>1
  <2>3. Kept' = {s \ Gone(now') : s \in Kept}
    BY <1>1, <2>1, <2>2, KeptLater, KeptIs
  <2> DEFINE x == Found(db, now)
             gone == Gone(now') \cap UNION (Kept \cup {x})
  <2>4. Found(db', now') = x \ Gone(now')
    BY <1>1, <2>2, FoundLater
  <2> HIDE DEF x
  <2>5. \A s \in Kept \cup {x} : s \ Gone(now') = s \ gone
    OBVIOUS
  <2>6. /\ gone \in SUBSET UNION (Kept \cup {x})
        /\ \A n \in gone : n.expiry # 0
    BY DEF Gone, Expired
  <2> HIDE DEF gone
  <2>7. Found(db', now') = x \ gone /\ Kept' = {s \ gone : s \in Kept}
    BY <2>3, <2>4, <2>5
  <2>8. Promised!Expire
    BY <1>1, <2>6, <2>7 DEF Promised!Expire, x
  <2> QED BY <2>8
<1> QED BY <1>2, <1>3

\* Every step of aof.cpp is one of the abstract store, or changes nothing of it.
LEMMA StepPromised ==
  ASSUME LogInv, LogInv', [Next]_vars
  PROVE  [Promised!DurableNext]_Promised!durableVars
<1> USE DEF Promised!DurableNext
<1>1. /\ file \in Seq(LogCommand) /\ buffer \in Seq(LogCommand)
      /\ file' \in Seq(LogCommand) /\ buffer' \in Seq(LogCommand)
      /\ pc \in {"rename", "flushdb", "down"} => buffer = <<>>
  BY DEF LogInv, TypeInv, TypeOK, LogsTyped
<1>2. ASSUME buffer' = <<>> PROVE Kept' = {Given(file', now')}
  BY <1>1, <1>2, KeptIs, KeptFlushed
<1>3. Given(file, now) \in Kept /\ Given(file \o buffer, now) \in Kept
  BY <1>1, KeptIs, KeptEnds
<1>4. ASSUME unlogged = {}, Serving PROVE Given(file \o buffer, now) = Found(db, now)
  <2>1. Restorable(file \o buffer, db, now)
    BY <1>4 DEF LogInv, Logging, Tracks
  <2> QED BY <2>1, GivenFound
<1>5. ASSUME unlogged' = {}, Serving', buffer' = <<>> PROVE Kept' = {Found(db', now')}
  <2>1. Restorable(file' \o buffer', db', now')
    BY <1>5 DEF LogInv, Logging, Tracks
  <2>2. file' \o buffer' = file'
    BY <1>1, <1>5, ConcatEmptySeq
  <2>3. Given(file', now') = Found(db', now')
    BY <2>1, <2>2, GivenFound
  <2> QED BY <1>2, <1>5, <2>3
<1>6. CASE \E c \in Commands : HandleCommand(c)
  BY <1>6, HandlePromised
<1>7. CASE flush_aof \/ CloseLog \/ Rename \/ flush_clear_aof
  <2>1. pc # "down" /\ pc' # "down" /\ Serving' /\ buffer' = <<>> /\ UNCHANGED <<db, now>>
    BY <1>1, <1>7 DEF flush_aof, CloseLog, Rename, flush_clear_aof, Serving
  <2>2. CASE unlogged' = {}
    <3>1. Kept' = {Found(db, now)}
      BY <1>5, <2>1, <2>2
    <3>2. Promised!Sync
      BY <2>1, <2>2, <3>1 DEF Promised!Sync
    <3> QED BY <3>2
  <2>3. CASE unlogged' # {}
    BY <2>1, <2>3 DEF Promised!Drift
  <2> QED BY <2>2, <2>3
<1>8. CASE WriteTemp \/ TempFails \/ RenameFails
  <2>1. UNCHANGED <<db, file, buffer, now, unlogged>> /\ pc # "down" /\ pc' # "down"
    BY <1>8 DEF WriteTemp, TempFails, RenameFails
  <2>2. Kept' = Kept
    BY <2>1, KeptIs
  <2> QED BY <2>1, <2>2 DEF Promised!durableVars
<1>9. CASE command_flushdb
  <2>1. /\ pc # "down" /\ pc' # "down" /\ Serving /\ buffer' = <<>> /\ db' = <<>>
        /\ file' = file \o buffer /\ UNCHANGED <<now, unlogged>>
    BY <1>9 DEF command_flushdb, Serving
  <2>2. CASE unlogged = {}
    <3>1. Kept' = {Found(db, now)} /\ Found(db', now') = {}
      BY <1>2, <1>4, <2>1, <2>2, FoundNone
    <3>2. Promised!Drop
      BY <2>1, <2>2, <3>1 DEF Promised!Drop
    <3> QED BY <3>2
  <2>3. CASE unlogged # {}
    BY <2>1, <2>3 DEF Promised!Drift
  <2> QED BY <2>2, <2>3
<1>10. CASE Crash \/ LoopBreaks
  <2>1. /\ pc # "down" /\ pc' = "down" /\ db' = <<>> /\ buffer' = <<>> /\ UNCHANGED <<now, unlogged>>
        /\ file' \in {file, file \o buffer}
    BY <1>10 DEF Crash, LoopBreaks
  <2>2. Kept' = {Given(file', now)} /\ Given(file', now) \in Kept
    BY <1>2, <1>3, <2>1
  <2>3. Found(db', now') = {}
    BY <2>1, FoundNone
  <2>4. Promised!Stop
    BY <2>1, <2>2, <2>3 DEF Promised!Stop
  <2> QED BY <2>4
<1>11. CASE replay_aof
  <2>1. /\ pc = "down" /\ pc' # "down" /\ db' = Replay(file, now).db /\ UNCHANGED <<now, file, buffer>>
    BY <1>11 DEF replay_aof
  <2>2. Kept' = Kept
    BY <2>1, KeptIs
  <2>3. Found(db', now') \in Kept
    BY <1>3, <2>1 DEF Given
  <2>4. Promised!Restart
    BY <2>1, <2>2, <2>3 DEF Promised!Restart
  <2> QED BY <2>4
<1>12. CASE Tick
  BY <1>12, TickPromised
<1>13. CASE UNCHANGED vars
  <2>1. UNCHANGED <<db, file, buffer, now, unlogged, pc>>
    BY <1>13 DEF vars
  <2>2. Kept' = Kept
    BY <2>1, KeptIs
  <2> QED BY <2>1, <2>2 DEF Promised!durableVars
<1> QED BY <1>6, <1>7, <1>8, <1>9, <1>10, <1>11, <1>12, <1>13 DEF Next

\* The append-only file implements the abstract store: however crashes, restarts, rewrites
\* and FLUSHDB fall between the commands, what a restart brings back is the contents at the
\* last flush, rewrite or FLUSHDB or after one of the commands since, less the nodes that
\* have expired (aof.cpp:37-77, 129-202, 241-256).
THEOREM DurabilityCorrect ==
  ASSUME DiskFull = FALSE
  PROVE  Spec => Durability
<1>1. LogInv /\ [Next]_vars => LogInv'
  BY LogStep
<1>2. Init => Promised!DurableInit
  <2> SUFFICES ASSUME Init PROVE Promised!DurableInit
    OBVIOUS
  <2>1. /\ db = <<>> /\ file = <<>> /\ buffer = <<>> /\ unlogged = {} /\ pc # "down"
    BY DEF Init
  <2>2. Found(db, now) = {}
    BY <2>1, FoundNone
  <2>3. Kept = {{}}
    <3>1. <<>> \in Seq(LogCommand)
      OBVIOUS
    <3>2. Given(<<>>, now) = {}
      BY ReplayEmpty, FoundNone DEF Given, Outcome
    <3> QED BY <2>1, <3>1, <3>2, KeptIs, KeptFlushed
  <2> QED BY <2>1, <2>2, <2>3 DEF Promised!DurableInit
<1>3. LogInv /\ LogInv' /\ [Next]_vars => [Promised!DurableNext]_Promised!durableVars
  BY StepPromised
<1> QED BY <1>1, <1>2, <1>3, LogInit, PTL DEF Spec, Durability, Promised!DurableSpec

(***************************************************************************)
(* What clients are told.                                                  *)
(***************************************************************************)

\* The reply to a command is what it changes in the store, whichever one the server has:
\* the elements that came or went, the length of a list, the elements popped in their order,
\* and nothing if it is an error (commands.cpp:121-172, 229-383, 456-490, 513-554, 802-832).
THEOREM RepliesCorrect == Spec => []RepliesTellChanges
<1>1. TypeInv /\ [Next]_vars => TypeInv'
  BY TypeStep
<1>2. TypeInv => RepliesTellChanges
  <2> SUFFICES ASSUME TypeInv, NEW c \in Commands, ~Execute(db, c, now).dead
               PROVE  TellsChange(db, c, Execute(db, c, now), now)
    BY DEF RepliesTellChanges
  <2>1. IsStore(db) /\ Usage(db) <= LRU_MAX_MEMORY /\ now \in Int /\ c \in CommandType
    BY AofAssumption DEF TypeInv, TypeOK
  <2> QED BY <2>1, ExecuteTells
<1> QED BY <1>1, <1>2, TypeInit, PTL DEF Spec

\* The queries agree with each other about every store the server reaches
\* (commands.cpp:179-800).
THEOREM QueriesCorrect == Spec => []QueriesAgree
<1>1. TypeInv /\ [Next]_vars => TypeInv'
  BY TypeStep
<1>2. TypeInv => QueriesAgree
  <2> SUFFICES ASSUME TypeInv PROVE QueriesAgree
    OBVIOUS
  <2>1. IsStore(db)
    BY DEF TypeInv, TypeOK
  <2>2. ASSUME NEW k PROVE /\ Has(db, k, "LIST") => ListAgrees(db, k)
                           /\ Has(db, k, "HASH") => HashAgrees(db, k, Values)
                           /\ Has(db, k, "SET") => SetAgrees(db, k, Values)
    BY <2>1, ListTells, HashTells, SetTells
  <2>3. ASSUME NEW a, NEW b, ~OtherType(db, a), ~OtherType(db, b) PROVE AlgebraAgrees(db, a, b)
    BY <2>1, <2>3, AlgebraTells
  <2> QED BY <2>2, <2>3 DEF QueriesAgree
<1> QED BY <1>1, <1>2, TypeInit, PTL DEF Spec
=============================================================================
