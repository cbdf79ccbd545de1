-------------------------- MODULE RespParserProofs --------------------------
(***************************************************************************)
(* Proofs about module RespParser, for every base and for commands with    *)
(* any number of arguments of any length.                                  *)
(***************************************************************************)
EXTENDS RespParser, Induction

Base == Len(Digits)

(***************************************************************************)
(* Numbers.                                                                *)
(***************************************************************************)

\* The base is a number, and a digit is found where it is.
LEMMA DigitFacts ==
  /\ Base \in Nat /\ Base > 1
  /\ \A i \in 0 .. Base - 1 : /\ Digits[i + 1] \in Range(Digits)
                              /\ DigitValue(Digits[i + 1]) = i
  /\ \A d \in Range(Digits) : DigitValue(d) \in Nat
<1>1. Base \in Nat /\ Base > 1 /\ DOMAIN Digits = 1 .. Base
  BY DigitsAssumption, LenProperties DEF Base
<1>2. ASSUME NEW i \in 0 .. Base - 1
      PROVE  Digits[i + 1] \in Range(Digits) /\ DigitValue(Digits[i + 1]) = i
  <2>1. i + 1 \in DOMAIN Digits
    BY <1>1
  <2>2. \A j \in DOMAIN Digits : Digits[j] = Digits[i + 1] => j = i + 1
    BY <2>1, DigitsAssumption DEF IsInjective
  <2>3. (CHOOSE j \in DOMAIN Digits : Digits[j] = Digits[i + 1]) = i + 1
    BY <2>1, <2>2
  <2>4. Digits[i + 1] \in Range(Digits)
    BY <2>1 DEF Range
  <2>5. DigitValue(Digits[i + 1]) = (i + 1) - 1
    BY <2>3, Zenon DEF DigitValue
  <2> QED BY <2>4, <2>5
<1>3. ASSUME NEW d \in Range(Digits) PROVE DigitValue(d) \in Nat
  <2>1. \E j \in DOMAIN Digits : Digits[j] = d
    BY DEF Range
  <2>2. (CHOOSE j \in DOMAIN Digits : Digits[j] = d) \in 1 .. Base
    BY <2>1, <1>1
  <2> QED BY <2>2, <1>1 DEF DigitValue
<1> QED BY <1>1, <1>2, <1>3

\* A division by the base.
LEMMA Division ==
  ASSUME NEW n \in Nat
  PROVE  /\ n \div Base \in Nat
         /\ n % Base \in 0 .. Base - 1
         /\ Base * (n \div Base) + (n % Base) = n
         /\ n >= Base => n \div Base < n
<1>1. Base \in Nat /\ Base > 1
  BY DigitFacts
<1> HIDE DEF Base
<1>2. n \div Base \in Nat /\ n % Base \in 0 .. Base - 1
  BY <1>1
<1>3. Base * (n \div Base) + (n % Base) = n
  BY <1>1
<1>4. n >= Base => n \div Base < n
  BY <1>1, <1>2, <1>3
<1> QED BY <1>2, <1>3, <1>4

\* g is the table of the numerals below and up to n.
Numerals(n, g) ==
  g = [i \in 0 .. n |->
         IF i < Base THEN <<Digits[i + 1]>>
         ELSE Append(g[i \div Base], Digits[(i % Base) + 1])]

\* The recursive definition in to_string has a solution.
LEMMA NumeralsExist == \A n \in Nat : \E g : Numerals(n, g)
<1> DEFINE N == {n \in Nat : \E g : Numerals(n, g)}
<1>1. 0 \in N
  <2> DEFINE g == [i \in 0 .. 0 |-> <<Digits[1]>>]
  <2>1. \A i \in 0 .. 0 : g[i] = IF i < Base THEN <<Digits[i + 1]>>
                                 ELSE Append(g[i \div Base], Digits[(i % Base) + 1])
    BY DigitFacts
  <2>2. Numerals(0, g)
    BY <2>1 DEF Numerals
  <2> HIDE DEF g
  <2> QED BY <2>2
<1>2. ASSUME NEW n \in Nat, n \in N PROVE n + 1 \in N
  <2>1. PICK g : Numerals(n, g)
    BY <1>2
  <2> DEFINE last == IF n + 1 < Base THEN <<Digits[n + 2]>>
                     ELSE Append(g[(n + 1) \div Base], Digits[((n + 1) % Base) + 1])
             h == [i \in 0 .. n + 1 |-> IF i <= n THEN g[i] ELSE last]
  <2>2. ASSUME NEW i \in 0 .. n + 1
        PROVE  h[i] = IF i < Base THEN <<Digits[i + 1]>>
                      ELSE Append(h[i \div Base], Digits[(i % Base) + 1])
    <3>1. i >= Base => i \div Base \in 0 .. n
      BY Division
    <3>2. CASE i <= n
      <4>1. g[i] = IF i < Base THEN <<Digits[i + 1]>>
                   ELSE Append(g[i \div Base], Digits[(i % Base) + 1])
        <5>1. i \in 0 .. n
          BY <3>2
        <5> QED BY <2>1, <5>1 DEF Numerals
      <4> QED BY <3>1, <3>2, <4>1, DigitFacts
    <3>3. CASE i = n + 1
      BY <3>1, <3>3, DigitFacts
    <3> QED BY <3>2, <3>3
  <2>3. Numerals(n + 1, h)
    BY <2>2 DEF Numerals
  <2> HIDE DEF h
  <2> QED BY <2>3
<1> HIDE DEF N
<1>3. \A n \in Nat : n \in N
  BY <1>1, <1>2, NatInd
<1> QED BY <1>3 DEF N

\* to_string, unfolded once.
LEMMA Unfolded ==
  ASSUME NEW n \in Nat
  PROVE  /\ n < Base => to_string(n) = <<Digits[n + 1]>>
         /\ n >= Base => to_string(n) = Append(to_string(n \div Base), Digits[(n % Base) + 1])
<1> DEFINE G(m) == CHOOSE g : Numerals(m, g)
           One(i) == <<Digits[i + 1]>>
           More(s, i) == Append(s, Digits[(i % Base) + 1])
<1>1. \A m \in Nat : Numerals(m, G(m))
  BY NumeralsExist
<1>2. ASSUME NEW m \in Nat PROVE to_string(m) = G(m)[m]
  BY DEF to_string, Numerals, Base
<1> HIDE DEF G
<1>3. ASSUME NEW m \in Nat, NEW i \in 0 .. m
      PROVE  /\ i < Base => G(m)[i] = One(i)
             /\ i >= Base => G(m)[i] = More(G(m)[i \div Base], i)
  <2>1. G(m)[i] = IF i < Base THEN One(i) ELSE More(G(m)[i \div Base], i)
    BY <1>1 DEF Numerals
  <2> HIDE DEF One, More
  <2> QED BY <2>1, DigitFacts
<1> HIDE DEF One, More
<1>4. ASSUME NEW m \in Nat
      PROVE  \A i \in Nat : i <= n /\ i <= m => G(n)[i] = G(m)[i]
  <2> DEFINE N == {k \in Nat : \A i \in Nat : i <= k /\ i <= n /\ i <= m => G(n)[i] = G(m)[i]}
  <2>1. ASSUME NEW k \in Nat, \A j \in Nat : j < k => j \in N PROVE k \in N
    <3> SUFFICES ASSUME NEW i \in Nat, i <= k, i <= n, i <= m PROVE G(n)[i] = G(m)[i]
      OBVIOUS
    <3>0. i \in 0 .. n /\ i \in 0 .. m
      OBVIOUS
    <3>1. CASE i < Base
      BY <3>0, <3>1, <1>3
    <3>2. CASE i >= Base
      <4>1. i \div Base \in Nat /\ i \div Base < i
        BY <3>2, Division
      <4>2. G(n)[i \div Base] = G(m)[i \div Base]
        BY <4>1, <2>1
      <4>3. /\ G(n)[i] = More(G(n)[i \div Base], i)
            /\ G(m)[i] = More(G(m)[i \div Base], i)
        BY <3>0, <3>2, <1>3
      <4> QED BY <4>2, <4>3
    <3> QED BY <3>1, <3>2, DigitFacts
  <2> HIDE DEF N
  <2>2. \A k \in Nat : k \in N
    BY <2>1, StrongInd
  <2> QED BY <2>2 DEF N
<1>5. ASSUME n < Base PROVE to_string(n) = One(n)
  BY <1>5, <1>2, <1>3
<1>6. ASSUME n >= Base PROVE to_string(n) = More(to_string(n \div Base), n)
  <2>1. n \div Base \in Nat /\ n \div Base < n
    BY <1>6, Division
  <2>2. G(n)[n \div Base] = G(n \div Base)[n \div Base]
    BY <2>1, <1>4
  <2>3. G(n \div Base)[n \div Base] = to_string(n \div Base)
    BY <2>1, <1>2
  <2>4. to_string(n) = More(G(n)[n \div Base], n)
    BY <1>6, <1>2, <1>3
  <2> QED BY <2>2, <2>3, <2>4
<1> QED BY <1>5, <1>6 DEF One, More

\* stoi reads a part of its argument, all of it if that is a numeral.
LEMMA LeadingFacts ==
  ASSUME NEW Ch, NEW s \in Seq(Ch)
  PROVE  /\ LeadingDigits(s) \in 0 .. Len(s)
         /\ \A i \in 1 .. LeadingDigits(s) : s[i] \in Range(Digits)
         /\ s \in Seq(Range(Digits)) => LeadingDigits(s) = Len(s)
<1> DEFINE E == {i \in 1 .. Len(s) + 1 : i > Len(s) \/ s[i] \notin Range(Digits)}
<1>1. Len(s) \in Nat
  BY LenProperties
<1>2. E \in SUBSET Nat /\ E # {}
  <2>1. Len(s) + 1 \in E
    BY <1>1
  <2> QED BY <1>1, <2>1
<1>3. Min(E) \in E /\ \A y \in E : Min(E) <= y
  <2> HIDE DEF E
  <2> QED BY <1>2, MinProperties
<1> DEFINE m == Min(E)
<1> HIDE DEF m
<1>4. m \in 1 .. Len(s) + 1 /\ (m > Len(s) \/ s[m] \notin Range(Digits))
  BY <1>3 DEF m
<1>5. ASSUME NEW i \in 1 .. m - 1 PROVE s[i] \in Range(Digits)
  <2>1. i \in 1 .. Len(s) + 1 /\ ~(m <= i)
    BY <1>1, <1>4
  <2> QED BY <2>1, <1>3 DEF m
<1>6. LeadingDigits(s) = m - 1
  BY DEF LeadingDigits, m
<1>7. s \in Seq(Range(Digits)) => m = Len(s) + 1
  <2> SUFFICES ASSUME s \in Seq(Range(Digits)) PROVE m = Len(s) + 1
    OBVIOUS
  <2>1. \A i \in 1 .. Len(s) : s[i] \in Range(Digits)
    BY ElementOfSeq
  <2> QED BY <2>1, <1>1, <1>4
<1> QED BY <1>1, <1>4, <1>5, <1>6, <1>7

\* g holds the values of the first n digits of s.
Values(s, n, g) ==
  g = [i \in 0 .. n |-> IF i = 0 THEN 0 ELSE Base * g[i - 1] + DigitValue(s[i])]

\* The recursive definition in stoi has a solution.
LEMMA ValuesExist == ASSUME NEW s PROVE \A n \in Nat : \E g : Values(s, n, g)
<1> DEFINE N == {n \in Nat : \E g : Values(s, n, g)}
<1>1. 0 \in N
  <2> DEFINE g == [i \in 0 .. 0 |-> 0]
  <2>1. Values(s, 0, g)
    BY DEF Values
  <2> HIDE DEF g
  <2> QED BY <2>1
<1>2. ASSUME NEW n \in Nat, n \in N PROVE n + 1 \in N
  <2>1. PICK g : Values(s, n, g)
    BY <1>2
  <2> DEFINE h == [i \in 0 .. n + 1 |->
                     IF i <= n THEN g[i] ELSE Base * g[n] + DigitValue(s[n + 1])]
  <2>2. ASSUME NEW i \in 0 .. n + 1
        PROVE  h[i] = IF i = 0 THEN 0 ELSE Base * h[i - 1] + DigitValue(s[i])
    <3>1. \A j \in 0 .. n : g[j] = IF j = 0 THEN 0 ELSE Base * g[j - 1] + DigitValue(s[j])
      BY <2>1 DEF Values
    <3>2. CASE i <= n
      BY <3>1, <3>2
    <3>3. CASE i = n + 1
      BY <3>3
    <3> QED BY <3>2, <3>3
  <2>3. Values(s, n + 1, h)
    BY <2>2 DEF Values
  <2> HIDE DEF h
  <2> QED BY <2>3
<1> HIDE DEF N
<1>3. \A n \in Nat : n \in N
  BY <1>1, <1>2, NatInd
<1> QED BY <1>3 DEF N

\* stoi returns a number, if its argument begins with a digit or not.
LEMMA StoiType ==
  ASSUME NEW Ch, NEW s \in Seq(Ch)
  PROVE  stoi(s) \in Nat
<1> DEFINE n == LeadingDigits(s)
           g == CHOOSE v : Values(s, n, v)
<1>1. n \in Nat /\ n <= Len(s) /\ \A i \in 1 .. n : s[i] \in Range(Digits)
  BY LeadingFacts, LenProperties
<1>2. stoi(s) = g[n]
  BY DEF stoi, Values, Base
<1> HIDE DEF n
<1>3. Values(s, n, g)
  BY <1>1, ValuesExist
<1> HIDE DEF g
<1>4. \A i \in 0 .. n : g[i] = IF i = 0 THEN 0 ELSE Base * g[i - 1] + DigitValue(s[i])
  BY <1>3 DEF Values
<1> DEFINE N == {i \in Nat : i <= n => g[i] \in Nat}
<1>5. 0 \in N
  BY <1>1, <1>4
<1>6. ASSUME NEW i \in Nat, i \in N PROVE i + 1 \in N
  <2> SUFFICES ASSUME i + 1 <= n PROVE g[i + 1] \in Nat
    OBVIOUS
  <2>1. g[i + 1] = Base * g[i] + DigitValue(s[i + 1])
    BY <1>1, <1>4
  <2>2. g[i] \in Nat /\ DigitValue(s[i + 1]) \in Nat /\ Base \in Nat
    BY <1>1, <1>6, DigitFacts
  <2> QED BY <2>1, <2>2
<1> HIDE DEF N
<1>7. n \in N
  BY <1>1, <1>5, <1>6, NatInd
<1> QED BY <1>1, <1>2, <1>7 DEF N

\* A digit more.
LEMMA StoiAppend ==
  ASSUME NEW s \in Seq(Range(Digits)), NEW d \in Range(Digits)
  PROVE  stoi(Append(s, d)) = Base * stoi(s) + DigitValue(d)
<1> DEFINE n == Len(s)
           t == Append(s, d)
           g == CHOOSE v : Values(s, n, v)
           h == CHOOSE v : Values(t, n + 1, v)
<1>1. /\ n \in Nat /\ t \in Seq(Range(Digits)) /\ Len(t) = n + 1
      /\ \A i \in 1 .. n : t[i] = s[i]
      /\ t[n + 1] = d
  BY LenProperties, AppendProperties
<1>2. LeadingDigits(s) = n /\ LeadingDigits(t) = n + 1
  BY <1>1, LeadingFacts
<1> HIDE DEF t
<1>3. stoi(s) = g[n] /\ stoi(t) = h[n + 1]
  BY <1>2 DEF stoi, Values, Base
<1> HIDE DEF n
<1>4. Values(s, n, g) /\ Values(t, n + 1, h)
  <2>1. \E v : Values(s, n, v)
    BY <1>1, ValuesExist
  <2>2. \E v : Values(t, n + 1, v)
    <3>1. n + 1 \in Nat
      BY <1>1
    <3> QED BY <3>1, ValuesExist, Zenon
  <2> QED BY <2>1, <2>2
<1> HIDE DEF g, h
<1>5. /\ \A i \in 0 .. n : g[i] = IF i = 0 THEN 0 ELSE Base * g[i - 1] + DigitValue(s[i])
      /\ \A i \in 0 .. n + 1 : h[i] = IF i = 0 THEN 0 ELSE Base * h[i - 1] + DigitValue(t[i])
  BY <1>4 DEF Values
<1> DEFINE N == {i \in Nat : i <= n => g[i] = h[i]}
<1>6. 0 \in N
  BY <1>1, <1>5
<1>7. ASSUME NEW i \in Nat, i \in N PROVE i + 1 \in N
  <2> SUFFICES ASSUME i + 1 <= n PROVE g[i + 1] = h[i + 1]
    OBVIOUS
  <2>1. /\ g[i + 1] = Base * g[i] + DigitValue(s[i + 1])
        /\ h[i + 1] = Base * h[i] + DigitValue(t[i + 1])
    BY <1>1, <1>5
  <2>2. g[i] = h[i] /\ s[i + 1] = t[i + 1]
    BY <1>1, <1>7
  <2> QED BY <2>1, <2>2
<1>8. g[n] = h[n]
  <2> HIDE DEF N
  <2>1. n \in N
    BY <1>1, <1>6, <1>7, NatInd
  <2> QED BY <2>1, <1>1 DEF N
<1>9. h[n + 1] = Base * h[n] + DigitValue(d)
  BY <1>1, <1>5
<1> QED BY <1>3, <1>8, <1>9 DEF t

\* Without digits the value is zero.
LEMMA StoiEmpty == stoi(<<>>) = 0
<1> DEFINE g == CHOOSE v : Values(<<>>, 0, v)
<1>1. LeadingDigits(<<>>) = 0
  BY LeadingFacts, EmptySeq
<1>2. stoi(<<>>) = g[0]
  BY <1>1 DEF stoi, Values, Base
<1>3. Values(<<>>, 0, g)
  BY ValuesExist
<1> HIDE DEF g
<1> QED BY <1>2, <1>3 DEF Values

\* What to_string writes stoi reads back.
LEMMA StoiToString ==
  \A n \in Nat : /\ to_string(n) \in Seq(Range(Digits))
                 /\ Numeric(to_string(n))
                 /\ stoi(to_string(n)) = n
<1> DEFINE N == {n \in Nat : /\ to_string(n) \in Seq(Range(Digits))
                             /\ Numeric(to_string(n))
                             /\ stoi(to_string(n)) = n}
<1>1. ASSUME NEW n \in Nat, NEW s \in Seq(Range(Digits)), NEW i \in 0 .. Base - 1,
             to_string(n) = Append(s, Digits[i + 1]), n = Base * stoi(s) + i
      PROVE  n \in N
  <2> DEFINE d == Digits[i + 1]
  <2>1. d \in Range(Digits) /\ DigitValue(d) = i
    BY DigitFacts
  <2> HIDE DEF d
  <2>2. Append(s, d) \in Seq(Range(Digits)) /\ Len(Append(s, d)) > 0
    BY <2>1, AppendProperties, LenProperties
  <2>3. stoi(Append(s, d)) = n
    BY <1>1, <2>1, StoiAppend
  <2>4. Numeric(Append(s, d))
    BY <2>2, LeadingFacts DEF Numeric
  <2> QED BY <1>1, <2>2, <2>3, <2>4 DEF d
<1>2. ASSUME NEW n \in Nat, \A m \in Nat : m < n => m \in N PROVE n \in N
  <2>1. CASE n < Base
    <3>1. <<>> \in Seq(Range(Digits)) /\ n \in 0 .. Base - 1
      BY <2>1, DigitFacts
    <3>2. to_string(n) = Append(<<>>, Digits[n + 1])
      BY <2>1, Unfolded
    <3>3. n = Base * stoi(<<>>) + n
      BY StoiEmpty, DigitFacts
    <3> HIDE DEF N
    <3> QED BY <3>1, <3>2, <3>3, <1>1
  <2>2. CASE n >= Base
    <3> DEFINE m == n \div Base
               i == n % Base
               s == to_string(m)
    <3>1. m \in Nat /\ m < n /\ i \in 0 .. Base - 1 /\ n = Base * m + i
      BY <2>2, Division
    <3>2. to_string(n) = Append(s, Digits[i + 1])
      BY <2>2, Unfolded
    <3> HIDE DEF m, i
    <3>3. s \in Seq(Range(Digits)) /\ stoi(s) = m
      BY <3>1, <1>2
    <3> HIDE DEF N, s
    <3> QED BY <3>1, <3>2, <3>3, <1>1
  <2> QED BY <2>1, <2>2, DigitFacts
<1> HIDE DEF N
<1>3. \A n \in Nat : n \in N
  BY <1>2, StrongInd
<1> QED BY <1>3 DEF N

(***************************************************************************)
(* The parser.  Ch is any set of characters.                               *)
(***************************************************************************)

States == {"IDLE", "READING_ARRAY_SIZE", "READING_BULK_SIZE", "READING_DATA"}

Parsers(Ch) ==
  [state : States, args : Seq(Seq(Ch)), array_count : Nat, current_bulk_len : Nat,
   current_buffer : Seq(Ch), data_accumulator : Seq(Ch)]

\* Commands have at least a name.
CommandsOf(Ch) == {c \in Seq(Seq(Ch)) : Len(c) > 0}

Runs(Ch) == [p : Parsers(Ch), calls : Seq(CommandsOf(Ch)), thrown : BOOLEAN]

\* The run r after the calls k.
Later(k, r) == [p |-> r.p, calls |-> k \o r.calls, thrown |-> r.thrown]

\* A parser that is idle is as new: nothing of an earlier command is left in it.
Clean(p) == p.state = "IDLE" => p = Fresh

\* What one character does to a run, by the state of the parser.
LEMMA ConsumeCases ==
  ASSUME NEW Ch, NEW r \in Runs(Ch), NEW c \in Ch
  PROVE  /\ r.thrown => Consume(r, c) = r
         /\ ~r.thrown =>
              /\ r.p.state = "IDLE" => Consume(r, c) = [r EXCEPT !.p = Idle(r.p, c)]
              /\ r.p.state = "READING_ARRAY_SIZE" /\ c # LF =>
                   Consume(r, c) = [r EXCEPT !.p = Collect(r.p, c)]
              /\ r.p.state = "READING_ARRAY_SIZE" /\ c = LF =>
                   Consume(r, c) = IF Numeric(r.p.current_buffer)
                                   THEN [r EXCEPT !.p = ArraySize(r.p)]
                                   ELSE [r EXCEPT !.thrown = TRUE]
              /\ r.p.state = "READING_BULK_SIZE" =>
                   Consume(r, c) = [r EXCEPT !.p =
                     IF c = "$" THEN [r.p EXCEPT !.current_buffer = <<>>]
                     ELSE IF c = LF THEN BulkSize(r.p) ELSE Collect(r.p, c)]
              /\ r.p.state = "READING_DATA" =>
                   Consume(r, c) =
                     IF Len(r.p.data_accumulator) < r.p.current_bulk_len
                     THEN [r EXCEPT !.p.data_accumulator = Append(@, c)]
                     ELSE IF c = LF THEN EndOfArgument(r) ELSE r
<1>1. r.thrown \in BOOLEAN /\ r.p.state \in States
  BY DEF Runs, Parsers
<1>2. CASE r.thrown
  BY <1>2 DEF Consume
<1>3. CASE ~r.thrown /\ r.p.state = "IDLE"
  BY <1>3 DEF Consume
<1>4. CASE ~r.thrown /\ r.p.state = "READING_ARRAY_SIZE"
  BY <1>4 DEF Consume
<1>5. CASE ~r.thrown /\ r.p.state = "READING_BULK_SIZE"
  <2>1. LF # "$"
    BY DEF LF
  <2> QED BY <1>5, <2>1 DEF Consume
<1>6. CASE ~r.thrown /\ r.p.state = "READING_DATA"
  <2>1. Consume(r, c) = IF InData(r.p, c) THEN [r EXCEPT !.p.data_accumulator = Append(@, c)]
                        ELSE IF c = LF THEN EndOfArgument(r) ELSE r
    BY <1>6 DEF Consume
  <2> QED BY <1>6, <2>1 DEF InData
<1> QED BY <1>1, <1>2, <1>3, <1>4, <1>5, <1>6 DEF States

\* Every character leaves a run of its type, and an idle parser as new.
LEMMA ConsumeType ==
  ASSUME NEW Ch, NEW r \in Runs(Ch), NEW c \in Ch, Clean(r.p)
  PROVE  Consume(r, c) \in Runs(Ch) /\ Clean(Consume(r, c).p)
<1> DEFINE p == r.p
<1>1. /\ p \in Parsers(Ch) /\ r.calls \in Seq(CommandsOf(Ch)) /\ r.thrown \in BOOLEAN
      /\ r = [p |-> p, calls |-> r.calls, thrown |-> r.thrown]
  BY DEF Runs
<1>2. /\ p.state \in States /\ p.args \in Seq(Seq(Ch))
      /\ p.array_count \in Nat /\ p.current_bulk_len \in Nat
      /\ p.current_buffer \in Seq(Ch) /\ p.data_accumulator \in Seq(Ch)
      /\ <<>> \in Seq(Ch)
  BY <1>1, EmptySeq DEF Parsers
<1>3. Fresh \in Parsers(Ch)
  BY DEF Fresh, Parsers, States
<1>4. /\ Append(p.current_buffer, c) \in Seq(Ch)
      /\ Append(p.data_accumulator, c) \in Seq(Ch)
      /\ Append(p.args, p.data_accumulator) \in CommandsOf(Ch)
  BY <1>2, AppendProperties DEF CommandsOf
<1>5. stoi(p.current_buffer) \in Nat
  BY <1>2, StoiType
<1>6. ASSUME NEW q \in Parsers(Ch), Clean(q), Consume(r, c) = [r EXCEPT !.p = q]
      PROVE  Consume(r, c) \in Runs(Ch) /\ Clean(Consume(r, c).p)
  BY <1>1, <1>6 DEF Runs
<1>7. Collect(p, c) \in Parsers(Ch) /\ Collect(p, c).state = p.state
  BY <1>1, <1>2, <1>4 DEF Collect, Parsers
<1>8. CASE r.thrown
  BY <1>8, ConsumeCases
<1>9. CASE ~r.thrown /\ p.state = "IDLE"
  <2>1. Idle(p, c) \in Parsers(Ch) /\ Clean(Idle(p, c))
    BY <1>1, <1>2 DEF Idle, Parsers, States, Clean
  <2> QED BY <1>9, <2>1, <1>6, ConsumeCases
<1>10. CASE ~r.thrown /\ p.state = "READING_ARRAY_SIZE"
  <2>1. ArraySize(p) \in Parsers(Ch) /\ Clean(ArraySize(p))
    BY <1>1, <1>2, <1>5 DEF ArraySize, Parsers, States, Clean
  <2>2. Clean(Collect(p, c))
    BY <1>7, <1>10 DEF Clean
  <2>3. CASE c # LF
    BY <2>2, <2>3, <1>6, <1>7, <1>10, ConsumeCases
  <2>4. CASE c = LF /\ Numeric(p.current_buffer)
    BY <2>1, <2>4, <1>6, <1>10, ConsumeCases
  <2>5. CASE c = LF /\ ~Numeric(p.current_buffer)
    <3>1. Consume(r, c) = [r EXCEPT !.thrown = TRUE]
      BY <2>5, <1>10, ConsumeCases
    <3> QED BY <3>1, <1>1 DEF Runs
  <2> QED BY <2>3, <2>4, <2>5
<1>11. CASE ~r.thrown /\ p.state = "READING_BULK_SIZE"
  <2> DEFINE q == IF c = "$" THEN [p EXCEPT !.current_buffer = <<>>]
                  ELSE IF c = LF THEN BulkSize(p) ELSE Collect(p, c)
  <2>1. [p EXCEPT !.current_buffer = <<>>] \in Parsers(Ch)
    BY <1>1, <1>2 DEF Parsers
  <2>2. BulkSize(p) \in Parsers(Ch) /\ Clean(BulkSize(p))
    BY <1>1, <1>2, <1>3, <1>5, <1>11 DEF BulkSize, reset, Parsers, States, Clean
  <2>3. q \in Parsers(Ch) /\ Clean(q)
    BY <2>1, <2>2, <1>1, <1>7, <1>11 DEF Clean, Parsers
  <2>4. Consume(r, c) = [r EXCEPT !.p = q]
    BY <1>11, ConsumeCases
  <2> HIDE DEF q
  <2> QED BY <2>3, <2>4, <1>6
<1>12. CASE ~r.thrown /\ p.state = "READING_DATA"
  <2>1. CASE Len(p.data_accumulator) < p.current_bulk_len
    <3> DEFINE q == [p EXCEPT !.data_accumulator = Append(@, c)]
    <3>1. q \in Parsers(Ch) /\ Clean(q)
      BY <1>1, <1>2, <1>4, <1>12 DEF Parsers, Clean
    <3>2. Consume(r, c) = [r EXCEPT !.p = q]
      BY <1>12, <2>1, ConsumeCases
    <3> HIDE DEF q
    <3> QED BY <3>1, <3>2, <1>6
  <2>2. CASE ~(Len(p.data_accumulator) < p.current_bulk_len) /\ c = LF
    <3> DEFINE args == Append(p.args, p.data_accumulator)
               q == [p EXCEPT !.args = args, !.current_buffer = <<>>,
                              !.state = "READING_BULK_SIZE"]
    <3>1. Consume(r, c) = IF Len(args) = p.array_count
                          THEN [r EXCEPT !.p = Fresh, !.calls = Append(@, args)]
                          ELSE [r EXCEPT !.p = q]
      BY <1>12, <2>2, ConsumeCases DEF EndOfArgument, reset
    <3>2. args \in CommandsOf(Ch) /\ Append(r.calls, args) \in Seq(CommandsOf(Ch))
      BY <1>1, <1>4, AppendProperties
    <3>3. q \in Parsers(Ch) /\ Clean(q)
      BY <1>1, <1>2, <3>2 DEF Parsers, States, Clean, CommandsOf
    <3> HIDE DEF args, q
    <3>4. CASE Len(args) = p.array_count
      BY <3>1, <3>2, <3>4, <1>1, <1>3 DEF Runs, Clean
    <3>5. CASE Len(args) # p.array_count
      BY <3>1, <3>3, <3>5, <1>6
    <3> QED BY <3>4, <3>5
  <2>3. CASE ~(Len(p.data_accumulator) < p.current_bulk_len) /\ c # LF
    <3>1. Consume(r, c) = r
      BY <1>12, <2>3, ConsumeCases
    <3> QED BY <3>1
  <2> QED BY <2>1, <2>2, <2>3
<1> QED BY <1>2, <1>8, <1>9, <1>10, <1>11, <1>12, <1>1 DEF States

\* The calls made before do not matter to what a character does.
LEMMA ConsumeLater ==
  ASSUME NEW Ch, NEW r \in Runs(Ch), NEW c \in Ch, NEW k \in Seq(CommandsOf(Ch))
  PROVE  Later(k, r) \in Runs(Ch) /\ Consume(Later(k, r), c) = Later(k, Consume(r, c))
<1> DEFINE p == r.p
           l == Later(k, r)
<1>1. /\ p \in Parsers(Ch) /\ r.calls \in Seq(CommandsOf(Ch)) /\ r.thrown \in BOOLEAN
      /\ r = [p |-> p, calls |-> r.calls, thrown |-> r.thrown]
  BY DEF Runs
<1>2. /\ p.state \in States /\ p.args \in Seq(Seq(Ch)) /\ p.data_accumulator \in Seq(Ch)
  BY <1>1 DEF Parsers
<1>3. /\ l \in Runs(Ch) /\ l.p = p /\ l.thrown = r.thrown /\ l.calls = k \o r.calls
      /\ l = [p |-> p, calls |-> l.calls, thrown |-> r.thrown]
  BY <1>1, ConcatProperties DEF Later, Runs
<1> SUFFICES Consume(l, c) = Later(k, Consume(r, c))
  BY <1>3
<1> HIDE DEF l
<1>4. ASSUME NEW q, Consume(r, c) = [r EXCEPT !.p = q], Consume(l, c) = [l EXCEPT !.p = q]
      PROVE  Consume(l, c) = Later(k, Consume(r, c))
  <2>1. Consume(r, c) = [p |-> q, calls |-> r.calls, thrown |-> r.thrown]
    BY <1>1, <1>4
  <2>2. Consume(l, c) = [p |-> q, calls |-> l.calls, thrown |-> r.thrown]
    BY <1>3, <1>4
  <2> QED BY <2>1, <2>2, <1>3 DEF Later
<1>5. CASE r.thrown
  BY <1>5, <1>3, ConsumeCases DEF l
<1>6. CASE ~r.thrown /\ p.state = "IDLE"
  BY <1>6, <1>3, <1>4, ConsumeCases
<1>7. CASE ~r.thrown /\ p.state = "READING_ARRAY_SIZE"
  <2>1. CASE c # LF
    BY <2>1, <1>7, <1>3, <1>4, ConsumeCases
  <2>2. CASE c = LF /\ Numeric(p.current_buffer)
    BY <2>2, <1>7, <1>3, <1>4, ConsumeCases
  <2>3. CASE c = LF /\ ~Numeric(p.current_buffer)
    <3>1. Consume(r, c) = [r EXCEPT !.thrown = TRUE] /\ Consume(l, c) = [l EXCEPT !.thrown = TRUE]
      BY <2>3, <1>7, <1>3, ConsumeCases
    <3> QED BY <3>1, <1>1, <1>3 DEF Later
  <2> QED BY <2>1, <2>2, <2>3
<1>8. CASE ~r.thrown /\ p.state = "READING_BULK_SIZE"
  BY <1>8, <1>3, <1>4, ConsumeCases
<1>9. CASE ~r.thrown /\ p.state = "READING_DATA"
  <2>1. CASE Len(p.data_accumulator) < p.current_bulk_len
    <3> DEFINE q == [p EXCEPT !.data_accumulator = Append(@, c)]
    <3>1. Consume(r, c) = [r EXCEPT !.p = q]
      BY <2>1, <1>9, ConsumeCases
    <3>2. Consume(l, c) = [l EXCEPT !.p = q]
      BY <2>1, <1>9, <1>3, ConsumeCases
    <3> HIDE DEF q
    <3> QED BY <3>1, <3>2, <1>4
  <2>2. CASE ~(Len(p.data_accumulator) < p.current_bulk_len) /\ c = LF
    <3> DEFINE args == Append(p.args, p.data_accumulator)
               q == [p EXCEPT !.args = args, !.current_buffer = <<>>,
                              !.state = "READING_BULK_SIZE"]
    <3>1. /\ Consume(r, c) = IF Len(args) = p.array_count
                             THEN [r EXCEPT !.p = Fresh, !.calls = Append(@, args)]
                             ELSE [r EXCEPT !.p = q]
          /\ Consume(l, c) = IF Len(args) = p.array_count
                             THEN [l EXCEPT !.p = Fresh, !.calls = Append(@, args)]
                             ELSE [l EXCEPT !.p = q]
      <4>1. Consume(r, c) = EndOfArgument(r) /\ Consume(l, c) = EndOfArgument(l)
        BY <1>3, <1>9, <2>2, ConsumeCases
      <4>2. l.p = p
        BY <1>3
      <4> QED BY <4>1, <4>2 DEF EndOfArgument, reset
    <3>2. args \in CommandsOf(Ch)
      BY <1>2, AppendProperties DEF CommandsOf
    <3> HIDE DEF args, q
    <3>3. CASE Len(args) = p.array_count
      <4>1. k \o Append(r.calls, args) = Append(k \o r.calls, args)
        BY <3>2, <1>1, ConcatAppend
      <4>2. Consume(r, c) = [p |-> Fresh, calls |-> Append(r.calls, args), thrown |-> r.thrown]
        BY <3>1, <3>3, <1>1
      <4>3. Consume(l, c) = [p |-> Fresh, calls |-> Append(l.calls, args), thrown |-> r.thrown]
        BY <3>1, <3>3, <1>3
      <4>4. Append(l.calls, args) = k \o Append(r.calls, args)
        BY <4>1, <1>3
      <4> QED BY <4>2, <4>3, <4>4 DEF Later
    <3>4. CASE Len(args) # p.array_count
      BY <3>1, <3>4, <1>4
    <3> QED BY <3>3, <3>4
  <2>3. CASE ~(Len(p.data_accumulator) < p.current_bulk_len) /\ c # LF
    <3>1. Consume(r, c) = r /\ Consume(l, c) = l
      BY <1>3, <1>9, <2>3, ConsumeCases
    <3> QED BY <3>1 DEF l
  <2> QED BY <2>1, <2>2, <2>3
<1> QED BY <1>1, <1>2, <1>5, <1>6, <1>7, <1>8, <1>9 DEF States

\* g holds the runs after the first 0, 1, ..., n characters of s.
Progress(r, s, n, g) ==
  g = [i \in 0 .. n |-> IF i = 0 THEN r ELSE Consume(g[i - 1], s[i])]

\* The recursive definition of After has a solution.
LEMMA ProgressExists == ASSUME NEW r, NEW s PROVE \A n \in Nat : \E g : Progress(r, s, n, g)
<1> DEFINE N == {n \in Nat : \E g : Progress(r, s, n, g)}
<1>1. 0 \in N
  <2> DEFINE g == [i \in 0 .. 0 |-> r]
  <2>1. Progress(r, s, 0, g)
    BY DEF Progress
  <2> HIDE DEF g
  <2> QED BY <2>1
<1>2. ASSUME NEW n \in Nat, n \in N PROVE n + 1 \in N
  <2>1. PICK g : Progress(r, s, n, g)
    BY <1>2
  <2> DEFINE h == [i \in 0 .. n + 1 |-> IF i <= n THEN g[i] ELSE Consume(g[n], s[n + 1])]
  <2>2. ASSUME NEW i \in 0 .. n + 1
        PROVE  h[i] = IF i = 0 THEN r ELSE Consume(h[i - 1], s[i])
    <3>1. \A j \in 0 .. n : g[j] = IF j = 0 THEN r ELSE Consume(g[j - 1], s[j])
      BY <2>1 DEF Progress
    <3>2. CASE i <= n
      BY <3>1, <3>2
    <3>3. CASE i = n + 1
      BY <3>3
    <3> QED BY <3>2, <3>3
  <2>3. Progress(r, s, n + 1, h)
    BY <2>2 DEF Progress
  <2> HIDE DEF h
  <2> QED BY <2>3
<1> HIDE DEF N
<1>3. \A n \in Nat : n \in N
  BY <1>1, <1>2, NatInd
<1> QED BY <1>3 DEF N

\* A run over no characters.
LEMMA AfterEmpty == ASSUME NEW r PROVE After(r, <<>>) = r
<1> DEFINE g == CHOOSE v : Progress(r, <<>>, 0, v)
<1>1. After(r, <<>>) = g[0]
  BY DEF After, Progress
<1>2. Progress(r, <<>>, 0, g)
  BY ProgressExists
<1> HIDE DEF g
<1> QED BY <1>1, <1>2 DEF Progress

\* A character more.
LEMMA AfterAppend ==
  ASSUME NEW Ch, NEW r, NEW s \in Seq(Ch), NEW c \in Ch
  PROVE  After(r, Append(s, c)) = Consume(After(r, s), c)
<1> DEFINE n == Len(s)
           t == Append(s, c)
           g == CHOOSE v : Progress(r, s, n, v)
           h == CHOOSE v : Progress(r, t, n + 1, v)
<1>1. /\ n \in Nat /\ n + 1 \in Nat /\ Len(t) = n + 1
      /\ \A i \in 1 .. n : t[i] = s[i]
      /\ t[n + 1] = c
  BY LenProperties, AppendProperties
<1> HIDE DEF t
<1>2. After(r, s) = g[n] /\ After(r, t) = h[n + 1]
  BY <1>1 DEF After, Progress
<1> HIDE DEF n
<1>3. Progress(r, s, n, g)
  BY <1>1, ProgressExists
<1>4. Progress(r, t, n + 1, h)
  BY <1>1, ProgressExists, Zenon
<1> HIDE DEF g, h
<1>5. /\ \A i \in 0 .. n : g[i] = IF i = 0 THEN r ELSE Consume(g[i - 1], s[i])
      /\ \A i \in 0 .. n + 1 : h[i] = IF i = 0 THEN r ELSE Consume(h[i - 1], t[i])
  BY <1>3, <1>4 DEF Progress
<1> DEFINE N == {i \in Nat : i <= n => g[i] = h[i]}
<1>6. 0 \in N
  BY <1>1, <1>5
<1>7. ASSUME NEW i \in Nat, i \in N PROVE i + 1 \in N
  <2> SUFFICES ASSUME i + 1 <= n PROVE g[i + 1] = h[i + 1]
    OBVIOUS
  <2>1. g[i + 1] = Consume(g[i], s[i + 1]) /\ h[i + 1] = Consume(h[i], t[i + 1])
    BY <1>1, <1>5
  <2>2. g[i] = h[i] /\ s[i + 1] = t[i + 1]
    BY <1>1, <1>7
  <2> QED BY <2>1, <2>2
<1>8. g[n] = h[n]
  <2> HIDE DEF N
  <2>1. n \in N
    BY <1>1, <1>6, <1>7, NatInd
  <2> QED BY <2>1, <1>1 DEF N
<1>9. h[n + 1] = Consume(h[n], c)
  BY <1>1, <1>5
<1> QED BY <1>2, <1>8, <1>9 DEF t

\* However a stream is cut, the pieces leave the parser where the whole does.
LEMMA AfterConcat ==
  ASSUME NEW Ch, NEW r, NEW s \in Seq(Ch), NEW t \in Seq(Ch)
  PROVE  After(r, s \o t) = After(After(r, s), t)
<1> DEFINE S == {u \in Seq(Ch) : After(r, s \o u) = After(After(r, s), u)}
<1>1. <<>> \in S
  <2>1. s \o <<>> = s /\ <<>> \in Seq(Ch)
    BY ConcatEmptySeq, EmptySeq
  <2> QED BY <2>1, AfterEmpty
<1>2. ASSUME NEW u \in Seq(Ch), NEW c \in Ch, u \in S PROVE Append(u, c) \in S
  <2>1. s \o u \in Seq(Ch) /\ Append(u, c) \in Seq(Ch)
    BY ConcatProperties, AppendProperties
  <2>2. s \o Append(u, c) = Append(s \o u, c)
    BY ConcatAppend
  <2>3. After(r, Append(s \o u, c)) = Consume(After(r, s \o u), c)
    <3> DEFINE w == s \o u
    <3> HIDE DEF w
    <3>1. w \in Seq(Ch)
      BY <2>1 DEF w
    <3>2. After(r, Append(w, c)) = Consume(After(r, w), c)
      BY <3>1, AfterAppend
    <3> QED BY <3>2 DEF w
  <2>4. After(After(r, s), Append(u, c)) = Consume(After(After(r, s), u), c)
    BY AfterAppend
  <2> QED BY <2>1, <2>2, <2>3, <2>4, <1>2
<1> HIDE DEF S
<1>3. t \in S
  BY <1>1, <1>2, SeqInd
<1> QED BY <1>3 DEF S

\* A run over any characters is a run, and an idle parser is as new.
LEMMA AfterType ==
  ASSUME NEW Ch, NEW r \in Runs(Ch), Clean(r.p), NEW s \in Seq(Ch)
  PROVE  After(r, s) \in Runs(Ch) /\ Clean(After(r, s).p)
<1> DEFINE S == {u \in Seq(Ch) : After(r, u) \in Runs(Ch) /\ Clean(After(r, u).p)}
<1>1. <<>> \in S
  BY EmptySeq, AfterEmpty
<1>2. ASSUME NEW u \in Seq(Ch), NEW c \in Ch, u \in S PROVE Append(u, c) \in S
  <2>1. Append(u, c) \in Seq(Ch)
    BY AppendProperties
  <2>2. After(r, Append(u, c)) = Consume(After(r, u), c)
    BY AfterAppend
  <2> QED BY <2>1, <2>2, <1>2, ConsumeType
<1> HIDE DEF S
<1>3. s \in S
  BY <1>1, <1>2, SeqInd
<1> QED BY <1>3 DEF S

\* The calls made before do not matter.
LEMMA AfterLater ==
  ASSUME NEW Ch, NEW r \in Runs(Ch), Clean(r.p), NEW s \in Seq(Ch),
         NEW k \in Seq(CommandsOf(Ch))
  PROVE  After(Later(k, r), s) = Later(k, After(r, s))
<1> DEFINE S == {u \in Seq(Ch) : After(Later(k, r), u) = Later(k, After(r, u))}
<1>1. <<>> \in S
  BY EmptySeq, AfterEmpty
<1>2. ASSUME NEW u \in Seq(Ch), NEW c \in Ch, u \in S PROVE Append(u, c) \in S
  <2>1. Append(u, c) \in Seq(Ch)
    BY AppendProperties
  <2>2. After(r, Append(u, c)) = Consume(After(r, u), c)
    BY AfterAppend
  <2>3. After(Later(k, r), Append(u, c)) = Consume(After(Later(k, r), u), c)
    BY AfterAppend
  <2>4. After(r, u) \in Runs(Ch)
    BY AfterType
  <2>5. Consume(Later(k, After(r, u)), c) = Later(k, Consume(After(r, u), c))
    BY <2>4, ConsumeLater
  <2> QED BY <2>1, <2>2, <2>3, <2>5, <1>2
<1> HIDE DEF S
<1>3. s \in S
  BY <1>1, <1>2, SeqInd
<1> QED BY <1>3 DEF S

\* An exception ends the run.
LEMMA AfterThrown ==
  ASSUME NEW Ch, NEW r \in Runs(Ch), r.thrown, NEW s \in Seq(Ch)
  PROVE  After(r, s) = r
<1> DEFINE S == {u \in Seq(Ch) : After(r, u) = r}
<1>1. <<>> \in S
  BY EmptySeq, AfterEmpty
<1>2. ASSUME NEW u \in Seq(Ch), NEW c \in Ch, u \in S PROVE Append(u, c) \in S
  <2>1. Append(u, c) \in Seq(Ch)
    BY AppendProperties
  <2>2. After(r, Append(u, c)) = Consume(After(r, u), c)
    BY AfterAppend
  <2> QED BY <2>1, <2>2, <1>2, ConsumeCases
<1> HIDE DEF S
<1>3. s \in S
  BY <1>1, <1>2, SeqInd
<1> QED BY <1>3 DEF S

(***************************************************************************)
(* Reading what format_resp_command has written.                           *)
(***************************************************************************)

\* The characters a record may contain.
Alphabet(Ch) == Range(Digits) \cup {"*", "$", CR, LF} \subseteq Ch

\* A run with the calls k, by the fields of its parser.
At(st, args, n, len, buf, acc, k) ==
  [p |-> [state |-> st, args |-> args, array_count |-> n, current_bulk_len |-> len,
          current_buffer |-> buf, data_accumulator |-> acc],
   calls |-> k, thrown |-> FALSE]

\* Nothing has been called since the calls k, and the parser waits for no fewer
\* arguments than it has.
Steady(r, k) ==
  /\ ~r.thrown /\ r.calls = k
  /\ r.p.state \in {"READING_BULK_SIZE", "READING_DATA"} => Len(r.p.args) < r.p.array_count

\* The characters s take the run r to the run q, and no character of s calls
\* anything.
Reads(r, s, q) ==
  /\ After(r, s) = q
  /\ \A i \in 0 .. Len(s) : Steady(After(r, SubSeq(s, 1, i)), r.calls)

\* The characters that mean something are different.
LEMMA Distinct ==
  /\ CR # LF /\ CR # "$" /\ LF # "$"
  /\ \A d \in Range(Digits) : d # CR /\ d # LF /\ d # "$"
<1>1. CR # LF /\ CR # "$" /\ LF # "$"
  BY DEF CR, LF
<1>2. \A d \in Range(Digits) : d \notin {CR, LF, "$"}
  BY DigitsAssumption
<1> QED BY <1>1, <1>2

\* A numeral is not empty.
LEMMA NumericNotEmpty == ASSUME Numeric(<<>>) PROVE FALSE
<1>1. LeadingDigits(<<>>) = 0
  BY LeadingFacts, EmptySeq
<1> QED BY <1>1 DEF Numeric

\* The end of an argument, by the fields of the run.
LEMMA Ending ==
  ASSUME NEW Ch, NEW r \in Runs(Ch)
  PROVE  LET p == r.p
             args == Append(p.args, p.data_accumulator)
         IN EndOfArgument(r) =
              [p |-> IF Len(args) = p.array_count THEN Fresh
                     ELSE [state |-> "READING_BULK_SIZE", args |-> args,
                           array_count |-> p.array_count,
                           current_bulk_len |-> p.current_bulk_len, current_buffer |-> <<>>,
                           data_accumulator |-> p.data_accumulator],
               calls |-> IF Len(args) = p.array_count THEN Append(r.calls, args) ELSE r.calls,
               thrown |-> r.thrown]
<1> DEFINE args == Append(r.p.args, r.p.data_accumulator)
<1>1. r.p \in Parsers(Ch) /\ r = [p |-> r.p, calls |-> r.calls, thrown |-> r.thrown]
  BY DEF Runs
<1>2. ASSUME NEW p \in Parsers(Ch), NEW a, NEW x,
             x = [p EXCEPT !.args = a, !.current_buffer = <<>>, !.state = "READING_BULK_SIZE"]
      PROVE  x = [state |-> "READING_BULK_SIZE", args |-> a, array_count |-> p.array_count,
                  current_bulk_len |-> p.current_bulk_len, current_buffer |-> <<>>,
                  data_accumulator |-> p.data_accumulator]
  BY <1>2 DEF Parsers
<1>3. ASSUME NEW q, NEW a, NEW x, x = [r EXCEPT !.p = q, !.calls = Append(@, a)]
      PROVE  x = [p |-> q, calls |-> Append(r.calls, a), thrown |-> r.thrown]
  BY <1>1, <1>3
<1>4. ASSUME NEW q, NEW x, x = [r EXCEPT !.p = q]
      PROVE  x = [p |-> q, calls |-> r.calls, thrown |-> r.thrown]
  BY <1>1, <1>4
<1>5. CASE Len(args) = r.p.array_count
  <2>1. EndOfArgument(r) = [r EXCEPT !.p = Fresh, !.calls = Append(@, args)]
    BY <1>5 DEF EndOfArgument, reset
  <2> QED BY <2>1, <1>3, <1>5
<1>6. CASE Len(args) # r.p.array_count
  <2>1. EndOfArgument(r)
          = [r EXCEPT !.p = [r.p EXCEPT !.args = args, !.current_buffer = <<>>,
                                        !.state = "READING_BULK_SIZE"]]
    BY <1>6 DEF EndOfArgument
  <2> QED BY <2>1, <1>1, <1>2, <1>4, <1>6
<1> QED BY <1>5, <1>6

\* What one character does, by the fields of the parser.
LEMMA Reading ==
  ASSUME NEW Ch, NEW args \in Seq(Seq(Ch)), NEW n \in Nat, NEW len \in Nat,
         NEW buf \in Seq(Ch), NEW acc \in Seq(Ch), NEW k \in Seq(CommandsOf(Ch)),
         NEW c \in Ch
  PROVE  /\ \A st \in States : At(st, args, n, len, buf, acc, k) \in Runs(Ch)
         /\ LET R(b) == At("READING_ARRAY_SIZE", args, n, len, b, acc, k)
            IN /\ c # CR /\ c # LF => Consume(R(buf), c) = R(Append(buf, c))
               /\ c = CR => Consume(R(buf), c) = R(buf)
               /\ c = LF /\ Numeric(buf) =>
                    Consume(R(buf), c)
                      = At("READING_BULK_SIZE", args, stoi(buf), len, <<>>, acc, k)
         /\ LET R(b) == At("READING_BULK_SIZE", args, n, len, b, acc, k)
            IN /\ c = "$" => Consume(R(buf), c) = R(<<>>)
               /\ c # "$" /\ c # CR /\ c # LF => Consume(R(buf), c) = R(Append(buf, c))
               /\ c = CR => Consume(R(buf), c) = R(buf)
               /\ c = LF /\ Numeric(buf) =>
                    Consume(R(buf), c) = At("READING_DATA", args, n, stoi(buf), <<>>, <<>>, k)
         /\ LET R(a) == At("READING_DATA", args, n, len, buf, a, k)
            IN /\ Len(acc) < len => Consume(R(acc), c) = R(Append(acc, c))
               /\ Len(acc) >= len /\ c = CR => Consume(R(acc), c) = R(acc)
               /\ Len(acc) >= len /\ c = LF =>
                    Consume(R(acc), c) =
                      IF Len(args) + 1 = n
                      THEN [p |-> Fresh, calls |-> Append(k, Append(args, acc)),
                            thrown |-> FALSE]
                      ELSE At("READING_BULK_SIZE", Append(args, acc), n, len, <<>>, acc, k)
<1>1. ASSUME NEW st \in States PROVE At(st, args, n, len, buf, acc, k) \in Runs(Ch)
  BY DEF At, Runs, Parsers
<1>2. /\ "READING_ARRAY_SIZE" \in States /\ "READING_BULK_SIZE" \in States
      /\ "READING_DATA" \in States
  BY DEF States
<1> DEFINE A == At("READING_ARRAY_SIZE", args, n, len, buf, acc, k)
           B == At("READING_BULK_SIZE", args, n, len, buf, acc, k)
           D == At("READING_DATA", args, n, len, buf, acc, k)
<1>3. A \in Runs(Ch) /\ B \in Runs(Ch) /\ D \in Runs(Ch)
  BY <1>1, <1>2
<1>4. ~A.thrown /\ A.p.state = "READING_ARRAY_SIZE" /\ A.p.current_buffer = buf
  BY DEF At
<1>5. ~B.thrown /\ B.p.state = "READING_BULK_SIZE" /\ B.p.current_buffer = buf
  BY DEF At
<1>6. /\ ~D.thrown /\ D.p.state = "READING_DATA"
      /\ D.p.data_accumulator = acc /\ D.p.current_bulk_len = len
      /\ D.p.args = args /\ D.p.array_count = n
  BY DEF At
<1>7. ASSUME c # CR, c # LF
      PROVE  Consume(A, c) = At("READING_ARRAY_SIZE", args, n, len, Append(buf, c), acc, k)
  <2>1. Consume(A, c) = [A EXCEPT !.p = Collect(A.p, c)]
    <3> HIDE DEF A
    <3> QED BY <1>3, <1>4, <1>7, ConsumeCases
  <2> QED BY <2>1, <1>7 DEF Collect, At
<1>8. ASSUME c = CR PROVE Consume(A, c) = A
  <2>1. Consume(A, c) = [A EXCEPT !.p = Collect(A.p, c)]
    <3> HIDE DEF A
    <3> QED BY <1>3, <1>4, <1>8, Distinct, ConsumeCases
  <2> QED BY <2>1, <1>8 DEF Collect, At
<1>9. ASSUME c = LF, Numeric(buf)
      PROVE  Consume(A, c) = At("READING_BULK_SIZE", args, stoi(buf), len, <<>>, acc, k)
  <2>1. Consume(A, c) = [A EXCEPT !.p = ArraySize(A.p)]
    <3> HIDE DEF A
    <3> QED BY <1>3, <1>4, <1>9, ConsumeCases
  <2> QED BY <2>1, <1>9 DEF ArraySize, At
<1>10. ASSUME c = "$" PROVE Consume(B, c) = At("READING_BULK_SIZE", args, n, len, <<>>, acc, k)
  <2>1. Consume(B, c) = [B EXCEPT !.p = [B.p EXCEPT !.current_buffer = <<>>]]
    <3> HIDE DEF B
    <3> QED BY <1>3, <1>5, <1>10, ConsumeCases
  <2> QED BY <2>1 DEF At
<1>11. ASSUME c # "$", c # LF PROVE Consume(B, c) = [B EXCEPT !.p = Collect(B.p, c)]
  <2> HIDE DEF B
  <2> QED BY <1>3, <1>5, <1>11, ConsumeCases
<1>12. ASSUME c # "$", c # CR, c # LF
       PROVE  Consume(B, c) = At("READING_BULK_SIZE", args, n, len, Append(buf, c), acc, k)
  BY <1>11, <1>12 DEF Collect, At
<1>13. ASSUME c = CR PROVE Consume(B, c) = B
  <2>1. Consume(B, c) = [B EXCEPT !.p = Collect(B.p, c)]
    BY <1>11, <1>13, Distinct
  <2> QED BY <2>1, <1>13 DEF Collect, At
<1>14. ASSUME c = LF, Numeric(buf)
       PROVE  Consume(B, c) = At("READING_DATA", args, n, stoi(buf), <<>>, <<>>, k)
  <2>1. Consume(B, c) = [B EXCEPT !.p = BulkSize(B.p)]
    <3> HIDE DEF B
    <3> QED BY <1>3, <1>5, <1>14, Distinct, ConsumeCases
  <2>2. buf # <<>>
    BY <1>14, NumericNotEmpty
  <2> QED BY <2>1, <2>2, <1>14 DEF BulkSize, At
<1>15. ASSUME Len(acc) < len
       PROVE  Consume(D, c) = At("READING_DATA", args, n, len, buf, Append(acc, c), k)
  <2>1. Consume(D, c) = [D EXCEPT !.p.data_accumulator = Append(@, c)]
    <3> HIDE DEF D
    <3> QED BY <1>3, <1>6, <1>15, ConsumeCases
  <2> QED BY <2>1 DEF At
<1>16. ASSUME Len(acc) >= len
       PROVE  /\ c = CR => Consume(D, c) = D
              /\ c = LF => Consume(D, c) = EndOfArgument(D)
  <2>1. ~(Len(acc) < len)
    BY <1>16, LenProperties
  <2> HIDE DEF D
  <2> QED BY <2>1, <1>3, <1>6, Distinct, ConsumeCases
<1>17. Len(Append(args, acc)) = Len(args) + 1
  BY AppendProperties
<1>18. EndOfArgument(D) =
         IF Len(args) + 1 = n
         THEN [p |-> Fresh, calls |-> Append(k, Append(args, acc)), thrown |-> FALSE]
         ELSE At("READING_BULK_SIZE", Append(args, acc), n, len, <<>>, acc, k)
  <2>1. D.calls = k /\ D.thrown = FALSE
    BY DEF At
  <2> HIDE DEF D
  <2>2. EndOfArgument(D) =
          [p |-> IF Len(Append(args, acc)) = n THEN Fresh
                 ELSE [state |-> "READING_BULK_SIZE", args |-> Append(args, acc),
                       array_count |-> n, current_bulk_len |-> len, current_buffer |-> <<>>,
                       data_accumulator |-> acc],
           calls |-> IF Len(Append(args, acc)) = n THEN Append(k, Append(args, acc)) ELSE k,
           thrown |-> FALSE]
    BY <2>1, <1>3, <1>6, Ending
  <2> QED BY <2>2, <1>17 DEF At
<1> HIDE DEF A, B, D
<1>19. /\ c # CR /\ c # LF => Consume(A, c) = At("READING_ARRAY_SIZE", args, n, len, Append(buf, c), acc, k)
       /\ c = CR => Consume(A, c) = A
       /\ c = LF /\ Numeric(buf) =>
            Consume(A, c) = At("READING_BULK_SIZE", args, stoi(buf), len, <<>>, acc, k)
  BY <1>7, <1>8, <1>9
<1>20. /\ c = "$" => Consume(B, c) = At("READING_BULK_SIZE", args, n, len, <<>>, acc, k)
       /\ c # "$" /\ c # CR /\ c # LF =>
            Consume(B, c) = At("READING_BULK_SIZE", args, n, len, Append(buf, c), acc, k)
       /\ c = CR => Consume(B, c) = B
       /\ c = LF /\ Numeric(buf) =>
            Consume(B, c) = At("READING_DATA", args, n, stoi(buf), <<>>, <<>>, k)
  BY <1>10, <1>12, <1>13, <1>14
<1>21. /\ Len(acc) < len =>
            Consume(D, c) = At("READING_DATA", args, n, len, buf, Append(acc, c), k)
       /\ Len(acc) >= len /\ c = CR => Consume(D, c) = D
       /\ Len(acc) >= len /\ c = LF =>
            Consume(D, c) =
              IF Len(args) + 1 = n
              THEN [p |-> Fresh, calls |-> Append(k, Append(args, acc)), thrown |-> FALSE]
              ELSE At("READING_BULK_SIZE", Append(args, acc), n, len, <<>>, acc, k)
  BY <1>15, <1>16, <1>18
<1> QED BY <1>1, <1>19, <1>20, <1>21, Zenon DEF A, B, D

\* The line feeds.
LEMMA LineFeeds ==
  ASSUME NEW Ch, NEW args \in Seq(Seq(Ch)), NEW n \in Nat, NEW len \in Nat,
         NEW buf \in Seq(Ch), NEW acc \in Seq(Ch), NEW k \in Seq(CommandsOf(Ch)),
         LF \in Ch
  PROVE  Numeric(buf) =>
              /\ Consume(At("READING_ARRAY_SIZE", args, n, len, buf, acc, k), LF)
                   = At("READING_BULK_SIZE", args, stoi(buf), len, <<>>, acc, k)
              /\ Consume(At("READING_BULK_SIZE", args, n, len, buf, acc, k), LF)
                   = At("READING_DATA", args, n, stoi(buf), <<>>, <<>>, k)
BY Reading

\* The line feed after an argument executes the command if the argument is its last
\* one, and otherwise waits for the next.
LEMMA DataEnds ==
  ASSUME NEW Ch, NEW args \in Seq(Seq(Ch)), NEW n \in Nat, NEW v \in Seq(Ch),
         NEW k \in Seq(CommandsOf(Ch)), LF \in Ch
  PROVE  /\ Len(args) + 1 = n =>
              Consume(At("READING_DATA", args, n, Len(v), <<>>, v, k), LF)
                = [p |-> Fresh, calls |-> Append(k, Append(args, v)), thrown |-> FALSE]
         /\ Len(args) + 1 # n =>
              Consume(At("READING_DATA", args, n, Len(v), <<>>, v, k), LF)
                = At("READING_BULK_SIZE", Append(args, v), n, Len(v), <<>>, v, k)
<1> DEFINE D == At("READING_DATA", args, n, Len(v), <<>>, v, k)
<1>1. /\ D \in Runs(Ch) /\ D.thrown = FALSE /\ D.calls = k /\ D.p.state = "READING_DATA"
      /\ D.p.data_accumulator = v /\ D.p.current_bulk_len = Len(v)
      /\ D.p.args = args /\ D.p.array_count = n
  BY LenProperties DEF At, Runs, Parsers, States
<1>2. ~(Len(v) < Len(v)) /\ Len(Append(args, v)) = Len(args) + 1
  BY LenProperties, AppendProperties
<1> HIDE DEF D
<1>3. Consume(D, LF) = EndOfArgument(D)
  BY <1>1, <1>2, ConsumeCases
<1>4. EndOfArgument(D) =
        [p |-> IF Len(Append(args, v)) = n THEN Fresh
               ELSE [state |-> "READING_BULK_SIZE", args |-> Append(args, v),
                     array_count |-> n, current_bulk_len |-> Len(v), current_buffer |-> <<>>,
                     data_accumulator |-> v],
         calls |-> IF Len(Append(args, v)) = n THEN Append(k, Append(args, v)) ELSE k,
         thrown |-> FALSE]
  BY <1>1, Ending
<1>5. Len(args) + 1 = n =>
        Consume(D, LF) = [p |-> Fresh, calls |-> Append(k, Append(args, v)), thrown |-> FALSE]
  BY <1>2, <1>3, <1>4
<1>6. Len(args) + 1 # n =>
        Consume(D, LF) = At("READING_BULK_SIZE", Append(args, v), n, Len(v), <<>>, v, k)
  BY <1>2, <1>3, <1>4 DEF At
<1> QED BY <1>5, <1>6 DEF D

\* Reading nothing, one character, and one piece after the other.
LEMMA ReadsNothing ==
  ASSUME NEW r, Steady(r, r.calls)
  PROVE  Reads(r, <<>>, r)
<1>1. Len(<<>>) = 0 /\ SubSeq(<<>>, 1, 0) = <<>>
  BY EmptySeq, SubSeqEmpty
<1>2. \A i \in 0 .. 0 : i = 0
  OBVIOUS
<1> QED BY <1>1, <1>2, AfterEmpty DEF Reads

\* Reading s and then t is reading both.
LEMMA ReadsConcat ==
  ASSUME NEW Ch, NEW r, NEW s \in Seq(Ch), NEW q, NEW t \in Seq(Ch), NEW u,
         Reads(r, s, q), Reads(q, t, u), q.calls = r.calls
  PROVE  Reads(r, s \o t, u)
<1>1. After(r, s \o t) = u
  BY AfterConcat DEF Reads
<1>2. Len(s) \in Nat /\ Len(t) \in Nat /\ Len(s \o t) = Len(s) + Len(t)
  BY LenProperties, ConcatProperties
<1>3. ASSUME NEW i \in 0 .. Len(s \o t) PROVE Steady(After(r, SubSeq(s \o t, 1, i)), r.calls)
  <2>1. CASE i <= Len(s)
    <3>1. i \in 0 .. Len(s)
      BY <1>2, <2>1
    <3>2. SubSeq(s \o t, 1, i) = SubSeq(s, 1, i)
      BY <3>1, Cut
    <3> QED BY <3>1, <3>2 DEF Reads
  <2>2. CASE i > Len(s)
    <3>1. PICK j \in 0 .. Len(t) : i = Len(s) + j
      <4>1. i - Len(s) \in 0 .. Len(t) /\ i = Len(s) + (i - Len(s))
        BY <1>2, <2>2
      <4> QED BY <4>1
    <3>2. SubSeq(s \o t, 1, i) = s \o SubSeq(t, 1, j)
      BY <3>1, Cut
    <3>3. SubSeq(t, 1, j) \in Seq(Ch)
      BY Beginning
    <3>4. After(r, s \o SubSeq(t, 1, j)) = After(q, SubSeq(t, 1, j))
      <4> DEFINE v == SubSeq(t, 1, j)
      <4>1. v \in Seq(Ch)
        BY <3>3
      <4> HIDE DEF v
      <4>2. After(r, s \o v) = After(q, v)
        BY <4>1, AfterConcat DEF Reads
      <4> QED BY <4>2 DEF v
    <3> QED BY <3>2, <3>4 DEF Reads
  <2> QED BY <1>2, <2>1, <2>2
<1> QED BY <1>1, <1>3 DEF Reads

\* Reading one character.
LEMMA ReadsOne ==
  ASSUME NEW Ch, NEW r, NEW c \in Ch, NEW q, Consume(r, c) = q,
         Steady(r, r.calls), Steady(q, r.calls)
  PROVE  Reads(r, <<c>>, q)
<1> DEFINE w == <<c>>
<1>1. w = Append(<<>>, c) /\ <<>> \in Seq(Ch) /\ Len(w) = 1 /\ w \in Seq(Ch)
  OBVIOUS
<1> HIDE DEF w
<1>2. After(r, w) = q
  <2>1. After(r, Append(<<>>, c)) = Consume(After(r, <<>>), c)
    <3> DEFINE e == <<>>
    <3>1. e \in Seq(Ch)
      BY <1>1
    <3> HIDE DEF e
    <3>2. After(r, Append(e, c)) = Consume(After(r, e), c)
      BY <3>1, AfterAppend
    <3> QED BY <3>2 DEF e
  <2> QED BY <1>1, <2>1, AfterEmpty
<1>3. SubSeq(w, 1, 0) = <<>> /\ SubSeq(w, 1, 1) = w
  <2>1. SubSeq(w, 1, 0) = <<>>
    BY SubSeqEmpty
  <2>2. SubSeq(w, 1, Len(w)) = w
    BY <1>1, SubSeqFull
  <2> QED BY <1>1, <2>1, <2>2
<1>4. \A i \in 0 .. 1 : i = 0 \/ i = 1
  OBVIOUS
<1>5. Reads(r, w, q)
  BY <1>1, <1>2, <1>3, <1>4, AfterEmpty DEF Reads
<1> QED BY <1>5 DEF w

\* Reading one character more.
LEMMA ReadsAppend ==
  ASSUME NEW Ch, NEW r, NEW s \in Seq(Ch), NEW q, NEW c \in Ch, NEW u,
         Reads(r, s, q), Consume(q, c) = u, Steady(u, r.calls), q.calls = r.calls
  PROVE  Reads(r, Append(s, c), u)
<1>1. Steady(q, q.calls)
  <2>1. Len(s) \in 0 .. Len(s) /\ SubSeq(s, 1, Len(s)) = s
    BY LenProperties, SubSeqFull
  <2> QED BY <2>1 DEF Reads
<1>2. Reads(q, <<c>>, u)
  BY <1>1, ReadsOne
<1>3. Append(s, c) = s \o <<c>> /\ <<c>> \in Seq(Ch)
  BY AppendIsConcat
<1> QED BY <1>2, <1>3, ReadsConcat

\* A run given by its fields.
LEMMA SteadyAt ==
  ASSUME NEW st, NEW args, NEW n, NEW len, NEW buf, NEW acc, NEW k,
         st \in {"READING_BULK_SIZE", "READING_DATA"} => Len(args) < n
  PROVE  /\ At(st, args, n, len, buf, acc, k).calls = k
         /\ Steady(At(st, args, n, len, buf, acc, k), k)
BY DEF At, Steady

\* A numeral is collected.
LEMMA ReadsSize ==
  ASSUME NEW Ch, Alphabet(Ch), NEW st \in {"READING_ARRAY_SIZE", "READING_BULK_SIZE"},
         NEW args \in Seq(Seq(Ch)), NEW n \in Nat, NEW len \in Nat, NEW acc \in Seq(Ch),
         NEW k \in Seq(CommandsOf(Ch)), NEW s \in Seq(Range(Digits)),
         st = "READING_BULK_SIZE" => Len(args) < n
  PROVE  Reads(At(st, args, n, len, <<>>, acc, k), s, At(st, args, n, len, s, acc, k))
<1> DEFINE R(b) == At(st, args, n, len, b, acc, k)
           S == {u \in Seq(Range(Digits)) : Reads(R(<<>>), u, R(u))}
<1>1. \A b : R(b).calls = k /\ Steady(R(b), k)
  BY SteadyAt
<1>2. Range(Digits) \subseteq Ch
  BY DEF Alphabet
<1>3. <<>> \in S
  <2> HIDE DEF R
  <2> QED BY <1>1, EmptySeq, ReadsNothing
<1>4. ASSUME NEW u \in Seq(Range(Digits)), NEW c \in Range(Digits), u \in S
      PROVE  Append(u, c) \in S
  <2>1. c # CR /\ c # LF /\ c # "$"
    BY Distinct
  <2>2. c \in Ch /\ u \in Seq(Ch)
    BY <1>2, SeqMonotonic
  <2>3. Consume(R(u), c) = R(Append(u, c))
    BY <2>1, <2>2, Reading
  <2>4. Append(u, c) \in Seq(Range(Digits))
    BY AppendProperties
  <2> HIDE DEF R
  <2>5. Reads(R(<<>>), u, R(u))
    BY <1>4
  <2>6. Reads(R(<<>>), Append(u, c), R(Append(u, c)))
    BY <1>1, <2>2, <2>3, <2>5, ReadsAppend
  <2> QED BY <2>4, <2>6
<1> HIDE DEF S
<1>5. s \in S
  BY <1>3, <1>4, SeqInd
<1> QED BY <1>5 DEF S

\* The data is collected, whatever characters are in it.
LEMMA ReadsData ==
  ASSUME NEW Ch, NEW args \in Seq(Seq(Ch)), NEW n \in Nat, NEW len \in Nat,
         NEW k \in Seq(CommandsOf(Ch)), NEW v \in Seq(Ch), Len(v) <= len, Len(args) < n
  PROVE  Reads(At("READING_DATA", args, n, len, <<>>, <<>>, k), v,
               At("READING_DATA", args, n, len, <<>>, v, k))
<1> DEFINE R(a) == At("READING_DATA", args, n, len, <<>>, a, k)
           S == {u \in Seq(Ch) : Len(u) <= len => Reads(R(<<>>), u, R(u))}
<1>1. \A a : R(a).calls = k /\ Steady(R(a), k)
  BY SteadyAt
<1>2. <<>> \in S
  <2> HIDE DEF R
  <2> QED BY <1>1, EmptySeq, ReadsNothing
<1>3. ASSUME NEW u \in Seq(Ch), NEW c \in Ch, u \in S PROVE Append(u, c) \in S
  <2>1. Append(u, c) \in Seq(Ch) /\ Len(Append(u, c)) = Len(u) + 1 /\ Len(u) \in Nat
    BY AppendProperties, LenProperties
  <2> SUFFICES ASSUME Len(u) + 1 <= len PROVE Reads(R(<<>>), Append(u, c), R(Append(u, c)))
    BY <2>1
  <2>2. Len(u) < len /\ <<>> \in Seq(Ch)
    BY <2>1
  <2>3. Consume(R(u), c) = R(Append(u, c))
    <3> DEFINE e == <<>>
    <3>1. e \in Seq(Ch)
      BY <2>2
    <3> HIDE DEF e
    <3>2. Consume(At("READING_DATA", args, n, len, e, u, k), c)
            = At("READING_DATA", args, n, len, e, Append(u, c), k)
      BY <2>2, <3>1, Reading
    <3> QED BY <3>2 DEF e
  <2> HIDE DEF R
  <2>4. Reads(R(<<>>), u, R(u))
    BY <1>3, <2>1, <2>2
  <2> QED BY <1>1, <2>3, <2>4, ReadsAppend
<1> HIDE DEF S
<1>4. v \in S
  BY <1>2, <1>3, SeqInd
<1> QED BY <1>4 DEF S

(***************************************************************************)
(* Sequences of records.                                                   *)
(***************************************************************************)

\* g holds the concatenations of the first 1, ..., n sequences of ss.
Flattened(ss, n, g) ==
  g = [i \in 1 .. n |-> IF i = 1 THEN ss[i] ELSE g[i - 1] \o ss[i]]

\* The recursive definition in FlattenSeq has a solution.
LEMMA FlattenedExists == ASSUME NEW ss PROVE \A n \in Nat : \E g : Flattened(ss, n, g)
<1> DEFINE N == {n \in Nat : \E g : Flattened(ss, n, g)}
<1>1. 0 \in N
  <2> DEFINE g == [i \in 1 .. 0 |-> 0]
  <2>1. Flattened(ss, 0, g)
    BY DEF Flattened
  <2> HIDE DEF g
  <2> QED BY <2>1
<1>2. ASSUME NEW n \in Nat, n \in N PROVE n + 1 \in N
  <2>1. PICK g : Flattened(ss, n, g)
    BY <1>2
  <2> DEFINE last == IF n = 0 THEN ss[1] ELSE g[n] \o ss[n + 1]
             h == [i \in 1 .. n + 1 |-> IF i <= n THEN g[i] ELSE last]
  <2>2. ASSUME NEW i \in 1 .. n + 1
        PROVE  h[i] = IF i = 1 THEN ss[i] ELSE h[i - 1] \o ss[i]
    <3>1. \A j \in 1 .. n : g[j] = IF j = 1 THEN ss[j] ELSE g[j - 1] \o ss[j]
      BY <2>1 DEF Flattened
    <3>2. CASE i <= n
      <4>1. h[i] = g[i] /\ (i # 1 => h[i - 1] = g[i - 1])
        BY <3>2
      <4>2. i \in 1 .. n
        BY <3>2
      <4> HIDE DEF h
      <4> QED BY <3>1, <4>1, <4>2
    <3>3. CASE i = n + 1
      <4>1. h[i] = last /\ (i # 1 => h[i - 1] = g[n]) /\ (i = 1 <=> n = 0)
        BY <3>3
      <4> HIDE DEF h
      <4> QED BY <3>3, <4>1
    <3> QED BY <3>2, <3>3
  <2>3. Flattened(ss, n + 1, h)
    BY <2>2 DEF Flattened
  <2> HIDE DEF h
  <2> QED BY <2>3
<1> HIDE DEF N
<1>3. \A n \in Nat : n \in N
  BY <1>1, <1>2, NatInd
<1> QED BY <1>3 DEF N

\* FlattenSeq of one sequence more.
LEMMA FlattenAppend ==
  ASSUME NEW Ch, NEW ss \in Seq(Seq(Ch)), NEW s \in Seq(Ch)
  PROVE  FlattenSeq(Append(ss, s)) = IF ss = <<>> THEN s ELSE FlattenSeq(ss) \o s
<1> DEFINE n == Len(ss)
           t == Append(ss, s)
           g == CHOOSE v : Flattened(ss, n, v)
           h == CHOOSE v : Flattened(t, n + 1, v)
<1>1. /\ n \in Nat /\ n + 1 \in Nat /\ Len(t) = n + 1 /\ (n = 0 <=> ss = <<>>)
      /\ \A i \in 1 .. n : t[i] = ss[i]
      /\ t[n + 1] = s
  BY LenProperties, AppendProperties, EmptySeq
<1> HIDE DEF t
<1>2. n # 0 => FlattenSeq(ss) = g[n]
  BY DEF FlattenSeq, Flattened
<1>3. FlattenSeq(t) = h[n + 1]
  <2>1. Len(t) # 0
    BY <1>1
  <2> QED BY <1>1, <2>1 DEF FlattenSeq, Flattened
<1> HIDE DEF n
<1>4. Flattened(ss, n, g)
  BY <1>1, FlattenedExists
<1>5. Flattened(t, n + 1, h)
  BY <1>1, FlattenedExists, Zenon
<1> HIDE DEF g, h
<1>6. /\ \A i \in 1 .. n : g[i] = IF i = 1 THEN ss[i] ELSE g[i - 1] \o ss[i]
      /\ \A i \in 1 .. n + 1 : h[i] = IF i = 1 THEN t[i] ELSE h[i - 1] \o t[i]
  BY <1>4, <1>5 DEF Flattened
<1> DEFINE N == {i \in Nat : 1 <= i /\ i <= n => g[i] = h[i]}
<1>7. 0 \in N
  OBVIOUS
<1>8. ASSUME NEW i \in Nat, i \in N PROVE i + 1 \in N
  <2> SUFFICES ASSUME i + 1 <= n PROVE g[i + 1] = h[i + 1]
    OBVIOUS
  <2>1. ss[i + 1] = t[i + 1] /\ i + 1 \in 1 .. n /\ i + 1 \in 1 .. n + 1
    BY <1>1
  <2>2. CASE i = 0
    <3>1. g[1] = ss[1] /\ h[1] = t[1]
      BY <1>6, <2>1, <2>2
    <3> QED BY <2>1, <2>2, <3>1
  <2>3. CASE i # 0
    <3>1. g[i + 1] = g[i] \o ss[i + 1] /\ h[i + 1] = h[i] \o t[i + 1]
      <4>1. i + 1 # 1 /\ (i + 1) - 1 = i
        BY <2>3
      <4> QED BY <4>1, <1>6, <2>1
    <3>2. g[i] = h[i]
      BY <1>1, <1>8, <2>3
    <3> QED BY <2>1, <3>1, <3>2
  <2> QED BY <2>2, <2>3
<1>9. n # 0 => g[n] = h[n]
  <2> HIDE DEF N
  <2>1. n \in N
    BY <1>1, <1>7, <1>8, NatInd
  <2> QED BY <2>1, <1>1 DEF N
<1>10. CASE n = 0
  <2>1. h[1] = t[1]
    BY <1>6, <1>10
  <2> QED BY <2>1, <1>1, <1>3, <1>10 DEF t
<1>11. CASE n # 0
  <2>1. h[n + 1] = h[n] \o t[n + 1]
    <3>1. n + 1 # 1 /\ (n + 1) - 1 = n /\ n + 1 \in 1 .. n + 1
      BY <1>1, <1>11
    <3> QED BY <3>1, <1>6
  <2> QED BY <2>1, <1>1, <1>2, <1>3, <1>9, <1>11 DEF t
<1> QED BY <1>10, <1>11

\* How elements of S are written.
Writers(S, Ch) == [S -> Seq(Ch)]

\* The elements of a, as f writes them, one after the other.
Mapped(f, a) == [i \in DOMAIN a |-> f[a[i]]]

Written(f, a) == FlattenSeq(Mapped(f, a))

\* Mapping a writer over a sequence gives a sequence of strings.
LEMMA MappedType ==
  ASSUME NEW Ch, NEW S, NEW f \in Writers(S, Ch), NEW a \in Seq(S)
  PROVE  Mapped(f, a) \in Seq(Seq(Ch)) /\ Len(Mapped(f, a)) = Len(a)
<1>1. Len(a) \in Nat /\ DOMAIN a = 1 .. Len(a) /\ \A i \in 1 .. Len(a) : a[i] \in S
  BY LenProperties, ElementOfSeq
<1>2. \A i \in 1 .. Len(a) : f[a[i]] \in Seq(Ch)
  BY <1>1 DEF Writers
<1> QED BY <1>1, <1>2 DEF Mapped

\* Nothing is written for no element.
LEMMA WrittenEmpty ==
  ASSUME NEW Ch, NEW S, NEW f \in Writers(S, Ch)
  PROVE  Written(f, <<>>) = <<>>
<1>1. <<>> \in Seq(S) /\ Len(<<>>) = 0
  BY EmptySeq
<1>2. Mapped(f, <<>>) \in Seq(Seq(Ch)) /\ Len(Mapped(f, <<>>)) = 0
  BY <1>1 DEF Mapped
<1>3. Mapped(f, <<>>) = <<>>
  BY <1>2, EmptySeq
<1> QED BY <1>2, <1>3 DEF Written, FlattenSeq

\* One element more.
LEMMA WrittenAppend ==
  ASSUME NEW Ch, NEW S, NEW f \in Writers(S, Ch), NEW a \in Seq(S), NEW e \in S
  PROVE  Written(f, Append(a, e)) = Written(f, a) \o f[e]
<1>1. Mapped(f, Append(a, e)) = Append(Mapped(f, a), f[e])
  <2> DEFINE b == Append(a, e)
  <2>1. /\ b \in Seq(S) /\ Len(b) = Len(a) + 1 /\ Len(a) \in Nat
        /\ \A i \in 1 .. Len(a) : b[i] = a[i]
        /\ b[Len(a) + 1] = e
    BY AppendProperties, LenProperties
  <2> HIDE DEF b
  <2>2. f[e] \in Seq(Ch) /\ DOMAIN a = 1 .. Len(a) /\ DOMAIN b = 1 .. Len(a) + 1
    BY <2>1, LenProperties DEF Writers
  <2>3. /\ \A i \in 1 .. Len(a) + 1 : Mapped(f, b)[i] = f[b[i]]
        /\ \A i \in 1 .. Len(a) : Mapped(f, a)[i] = f[a[i]]
    BY <2>2 DEF Mapped
  <2>4. /\ Mapped(f, a) \in Seq(Seq(Ch)) /\ Len(Mapped(f, a)) = Len(a)
        /\ Mapped(f, b) \in Seq(Seq(Ch)) /\ Len(Mapped(f, b)) = Len(a) + 1
    BY <2>1, MappedType
  <2>5. /\ Append(Mapped(f, a), f[e]) \in Seq(Seq(Ch)) /\ Len(Append(Mapped(f, a), f[e])) = Len(a) + 1
        /\ \A i \in 1 .. Len(a) : Append(Mapped(f, a), f[e])[i] = Mapped(f, a)[i]
        /\ Append(Mapped(f, a), f[e])[Len(a) + 1] = f[e]
    BY <2>2, <2>4, AppendProperties
  <2>6. ASSUME NEW i \in 1 .. Len(a) + 1 PROVE Mapped(f, b)[i] = Append(Mapped(f, a), f[e])[i]
    <3>1. CASE i <= Len(a)
      <4>1. i \in 1 .. Len(a)
        BY <3>1, <2>1
      <4> QED BY <4>1, <2>1, <2>3, <2>5
    <3>2. CASE i = Len(a) + 1
      BY <3>2, <2>1, <2>3, <2>5
    <3>3. i <= Len(a) \/ i = Len(a) + 1
      BY <2>1
    <3> QED BY <3>1, <3>2, <3>3
  <2>7. Mapped(f, b) = Append(Mapped(f, a), f[e])
    BY <2>4, <2>5, <2>6, SeqEqual
  <2> QED BY <2>7 DEF b
<1>2. Mapped(f, a) \in Seq(Seq(Ch)) /\ f[e] \in Seq(Ch) /\ (Mapped(f, a) = <<>> <=> a = <<>>)
  <2>0. f[e] \in Seq(Ch)
    BY DEF Writers
  <2>1. Mapped(f, a) \in Seq(Seq(Ch)) /\ Len(Mapped(f, a)) = Len(a) /\ f[e] \in Seq(Ch)
    BY <2>0, MappedType
  <2>2. (Mapped(f, a) = <<>> <=> Len(Mapped(f, a)) = 0) /\ (a = <<>> <=> Len(a) = 0)
    BY <2>1, EmptySeq
  <2> QED BY <2>1, <2>2
<1>3. Written(f, Append(a, e)) = FlattenSeq(Mapped(f, Append(a, e))) /\ Written(f, a) = FlattenSeq(Mapped(f, a))
  BY DEF Written
<1>4. Written(f, Append(a, e)) = IF a = <<>> THEN f[e] ELSE Written(f, a) \o f[e]
  BY <1>1, <1>2, <1>3, FlattenAppend
<1>5. <<>> \o f[e] = f[e]
  BY <1>2, ConcatEmptySeq
<1> QED BY <1>4, <1>5, WrittenEmpty

\* What is written is a string.
LEMMA WrittenType ==
  ASSUME NEW Ch, NEW S, NEW f \in Writers(S, Ch)
  PROVE  \A a \in Seq(S) : Written(f, a) \in Seq(Ch)
<1> DEFINE T == {a \in Seq(S) : Written(f, a) \in Seq(Ch)}
<1>1. <<>> \in T
  BY WrittenEmpty, EmptySeq
<1>2. ASSUME NEW a \in Seq(S), NEW e \in S, a \in T PROVE Append(a, e) \in T
  <2>1. Append(a, e) \in Seq(S) /\ f[e] \in Seq(Ch)
    BY AppendProperties DEF Writers
  <2>2. Written(f, a) \o f[e] \in Seq(Ch)
    BY <1>2, <2>1, ConcatProperties
  <2>3. Written(f, Append(a, e)) = Written(f, a) \o f[e]
    BY WrittenAppend
  <2> QED BY <2>1, <2>2, <2>3
<1> HIDE DEF T
<1>3. \A a \in Seq(S) : a \in T
  BY <1>1, <1>2, SeqInd
<1> QED BY <1>3 DEF T

\* What is written for two sequences is what is written for each.
LEMMA WrittenConcat ==
  ASSUME NEW Ch, NEW S, NEW f \in Writers(S, Ch), NEW a \in Seq(S), NEW b \in Seq(S)
  PROVE  Written(f, a \o b) = Written(f, a) \o Written(f, b)
<1> DEFINE T == {c \in Seq(S) : Written(f, a \o c) = Written(f, a) \o Written(f, c)}
<1>1. \A c \in Seq(S) : Written(f, c) \in Seq(Ch)
  BY WrittenType
<1>2. <<>> \in T
  <2>1. <<>> \in Seq(S) /\ a \o <<>> = a /\ Written(f, a) \o <<>> = Written(f, a)
    BY <1>1, EmptySeq, ConcatEmptySeq
  <2> QED BY <2>1, WrittenEmpty
<1>3. ASSUME NEW c \in Seq(S), NEW e \in S, c \in T PROVE Append(c, e) \in T
  <2>1. /\ Append(c, e) \in Seq(S) /\ a \o c \in Seq(S) /\ f[e] \in Seq(Ch)
        /\ a \o Append(c, e) = Append(a \o c, e)
    BY AppendProperties, ConcatProperties, ConcatAppend DEF Writers
  <2>2. /\ Written(f, Append(a \o c, e)) = Written(f, a \o c) \o f[e]
        /\ Written(f, Append(c, e)) = Written(f, c) \o f[e]
    <3> DEFINE d == a \o c
    <3>1. d \in Seq(S)
      BY <2>1
    <3> HIDE DEF d
    <3>2. Written(f, Append(d, e)) = Written(f, d) \o f[e]
      BY <3>1, WrittenAppend
    <3>3. Written(f, Append(c, e)) = Written(f, c) \o f[e]
      BY WrittenAppend
    <3> QED BY <3>2, <3>3 DEF d
  <2>3. Written(f, a \o c) = Written(f, a) \o Written(f, c)
    BY <1>3
  <2>4. (Written(f, a) \o Written(f, c)) \o f[e] = Written(f, a) \o (Written(f, c) \o f[e])
    <3> DEFINE x == Written(f, a)
               y == Written(f, c)
               z == f[e]
    <3>1. x \in Seq(Ch) /\ y \in Seq(Ch) /\ z \in Seq(Ch)
      BY <1>1, <2>1
    <3> HIDE DEF x, y, z
    <3>2. (x \o y) \o z = x \o (y \o z)
      BY <3>1, ConcatAssociative
    <3> QED BY <3>2 DEF x, y, z
  <2> QED BY <2>1, <2>2, <2>3, <2>4
<1> HIDE DEF T
<1>4. b \in T
  BY <1>2, <1>3, SeqInd
<1> QED BY <1>4 DEF T

(***************************************************************************)
(* A record is read as the command it was written for.                     *)
(***************************************************************************)

\* The parser is new, and the calls k have been made.
Start(k) == [p |-> Fresh, calls |-> k, thrown |-> FALSE]

Header(n) == <<"*">> \o to_string(n) \o <<CR, LF>>

\* The characters and strings of the protocol belong to the alphabet.
LEMMA Characterwise ==
  ASSUME NEW Ch, Alphabet(Ch)
  PROVE  /\ "*" \in Ch /\ "$" \in Ch /\ CR \in Ch /\ LF \in Ch
         /\ <<"*">> \in Seq(Ch) /\ <<"$">> \in Seq(Ch) /\ <<CR>> \in Seq(Ch)
         /\ <<LF>> \in Seq(Ch) /\ <<CR, LF>> \in Seq(Ch) /\ <<CR, LF>> = <<CR>> \o <<LF>>
         /\ \A n \in Nat : to_string(n) \in Seq(Ch)
<1>1. "*" \in Ch /\ "$" \in Ch /\ CR \in Ch /\ LF \in Ch /\ Range(Digits) \subseteq Ch
  BY DEF Alphabet
<1>2. \A n \in Nat : to_string(n) \in Seq(Ch)
  BY <1>1, StoiToString, SeqMonotonic
<1>3. ASSUME NEW c \in Ch, NEW d \in Ch
      PROVE  <<c>> \in Seq(Ch) /\ <<c, d>> \in Seq(Ch) /\ <<c, d>> = <<c>> \o <<d>>
  <2> DEFINE w == <<c>> \o <<d>>
             v == <<c, d>>
  <2>1. <<c>> \in Seq(Ch) /\ <<d>> \in Seq(Ch) /\ Len(<<c>>) = 1 /\ Len(<<d>>) = 1
    OBVIOUS
  <2>2. v \in Seq(Ch) /\ Len(v) = 2 /\ v[1] = c /\ v[2] = d
    OBVIOUS
  <2>3. w \in Seq(Ch) /\ Len(w) = 2 /\ w[1] = c /\ w[2] = d
    BY <2>1
  <2> HIDE DEF v, w
  <2>4. \A i \in 1 .. 2 : i = 1 \/ i = 2
    OBVIOUS
  <2>5. v = w
    BY <2>2, <2>3, <2>4, SeqEqual
  <2> QED BY <2>1, <2>2, <2>5 DEF v, w
<1> QED BY <1>1, <1>2, <1>3

\* The size of an array, or of a bulk string, up to the end of its line.
LEMMA ReadsLine ==
  ASSUME NEW Ch, Alphabet(Ch), NEW st \in {"READING_ARRAY_SIZE", "READING_BULK_SIZE"},
         NEW args \in Seq(Seq(Ch)), NEW n \in Nat, NEW len \in Nat, NEW acc \in Seq(Ch),
         NEW k \in Seq(CommandsOf(Ch)), NEW m \in Nat, NEW q,
         st = "READING_BULK_SIZE" => Len(args) < n,
         Consume(At(st, args, n, len, to_string(m), acc, k), LF) = q,
         Steady(q, k)
  PROVE  Reads(At(st, args, n, len, <<>>, acc, k), to_string(m) \o <<CR, LF>>, q)
<1> DEFINE R(b) == At(st, args, n, len, b, acc, k)
           s == to_string(m)
<1>1. s \in Seq(Range(Digits)) /\ s \in Seq(Ch)
  BY StoiToString, Characterwise
<1>2. \A b : R(b).calls = k /\ Steady(R(b), k)
  BY SteadyAt
<1>3. Reads(R(<<>>), s, R(s))
  BY <1>1, ReadsSize
<1>4. Consume(R(s), CR) = R(s)
  <2>1. CR \in Ch
    BY Characterwise
  <2> HIDE DEF s
  <2>2. CASE st = "READING_ARRAY_SIZE"
    BY <2>1, <2>2, <1>1, Reading
  <2>3. CASE st = "READING_BULK_SIZE"
    BY <2>1, <2>3, <1>1, Reading
  <2> QED BY <2>2, <2>3
<1>5. Consume(R(s), LF) = q
  OBVIOUS
<1> HIDE DEF R, s
<1>6. Reads(R(s), <<CR>>, R(s)) /\ Reads(R(s), <<LF>>, q)
  BY <1>2, <1>4, <1>5, Characterwise, ReadsOne
<1>7. Reads(R(s), <<CR, LF>>, q)
  BY <1>2, <1>6, Characterwise, ReadsConcat
<1>8. Reads(R(<<>>), s \o <<CR, LF>>, q)
  BY <1>1, <1>2, <1>3, <1>7, Characterwise, ReadsConcat
<1> QED BY <1>8 DEF R, s

\* The size of the command.
LEMMA ReadsHeader ==
  ASSUME NEW Ch, Alphabet(Ch), NEW k \in Seq(CommandsOf(Ch)), NEW n \in Nat, n > 0
  PROVE  /\ Header(n) \in Seq(Ch)
         /\ Reads(Start(k), Header(n), At("READING_BULK_SIZE", <<>>, n, 0, <<>>, <<>>, k))
<1> DEFINE e == <<>>
           a == <<>>
           s == to_string(n)
           q == At("READING_BULK_SIZE", a, n, 0, e, e, k)
           r == At("READING_ARRAY_SIZE", a, 0, 0, e, e, k)
<1>1. e \in Seq(Ch) /\ a \in Seq(Seq(Ch)) /\ Len(a) = 0
  OBVIOUS
<1>2. s \in Seq(Ch) /\ Numeric(s) /\ stoi(s) = n
  BY StoiToString, Characterwise
<1>3. Start(k) = At("IDLE", <<>>, 0, 0, <<>>, <<>>, k)
  BY DEF Start, At, Fresh
<1>4. Consume(Start(k), "*") = r
  <2>1. ~Start(k).thrown /\ Start(k).p = Fresh /\ Start(k) \in Runs(Ch) /\ Fresh.state = "IDLE"
    BY DEF Start, Fresh, Runs, Parsers, States
  <2>2. Consume(Start(k), "*") = [Start(k) EXCEPT !.p = Idle(Fresh, "*")]
    BY <2>1, ConsumeCases, Characterwise
  <2> QED BY <2>2 DEF Start, Idle, Fresh, At
<1>5. Start(k).calls = k /\ Steady(Start(k), k)
  BY <1>3, SteadyAt
<1>6. r.calls = k /\ Steady(r, k) /\ q.calls = k /\ Steady(q, k)
  BY <1>1, SteadyAt
<1> HIDE DEF e, a, s
<1>7. Consume(At("READING_ARRAY_SIZE", a, 0, 0, s, e, k), LF) = q
  <2>1. LF \in Ch
    BY Characterwise
  <2>2. ASSUME NEW args \in Seq(Seq(Ch)), NEW z \in Nat, NEW buf \in Seq(Ch),
               NEW acc \in Seq(Ch), Numeric(buf)
        PROVE  Consume(At("READING_ARRAY_SIZE", args, z, z, buf, acc, k), LF)
                 = At("READING_BULK_SIZE", args, stoi(buf), z, <<>>, acc, k)
    BY <2>2, <2>1, LineFeeds
  <2>3. ASSUME NEW z \in Nat
        PROVE  Consume(At("READING_ARRAY_SIZE", a, z, z, s, e, k), LF)
                 = At("READING_BULK_SIZE", a, stoi(s), z, <<>>, e, k)
    BY <1>1, <1>2, <2>2
  <2> QED BY <2>3, <1>2 DEF e
<1>8. Reads(r, s \o <<CR, LF>>, q)
  <2> HIDE DEF q
  <2>1. ASSUME NEW z \in Nat, Consume(At("READING_ARRAY_SIZE", a, z, z, s, e, k), LF) = q
        PROVE  Reads(At("READING_ARRAY_SIZE", a, z, z, <<>>, e, k), s \o <<CR, LF>>, q)
    BY <2>1, <1>1, <1>6, ReadsLine DEF s
  <2> QED BY <2>1, <1>7 DEF e
<1> HIDE DEF q, r
<1>9. Reads(Start(k), <<"*">>, r)
  BY <1>4, <1>5, <1>6, Characterwise, ReadsOne
<1>10. s \o <<CR, LF>> \in Seq(Ch)
  BY <1>2, Characterwise, ConcatProperties
<1>11. Reads(Start(k), <<"*">> \o (s \o <<CR, LF>>), q)
  <2> DEFINE w == s \o <<CR, LF>>
             v == <<"*">>
  <2>1. w \in Seq(Ch) /\ v \in Seq(Ch)
    BY <1>10, Characterwise
  <2> HIDE DEF w, v
  <2>2. Reads(Start(k), v \o w, q)
    BY <1>5, <1>6, <1>8, <1>9, <2>1, ReadsConcat DEF w, v
  <2> QED BY <2>2 DEF w, v
<1>12. Header(n) = <<"*">> \o (s \o <<CR, LF>>)
  <2> DEFINE x == <<"*">>
             y == <<CR, LF>>
  <2>1. x \in Seq(Ch) /\ y \in Seq(Ch)
    BY Characterwise
  <2> HIDE DEF x, y
  <2>2. (x \o s) \o y = x \o (s \o y)
    BY <1>2, <2>1, ConcatAssociative
  <2> QED BY <2>2 DEF Header, x, y, s
<1>13. Header(n) \in Seq(Ch)
  BY <1>10, <1>12, Characterwise, ConcatProperties
<1> QED BY <1>11, <1>12, <1>13 DEF q, e, a

\* An argument, without the line feed after it.
Argument(v) == (<<"$">> \o to_string(Len(v)) \o <<CR, LF>> \o v) \o <<CR>>

\* The record of an argument, up to its last line feed, leaves the parser with the
\* argument in its accumulator.
LEMMA ReadsArgument ==
  ASSUME NEW Ch, Alphabet(Ch), NEW args \in Seq(Seq(Ch)), NEW n \in Nat, NEW len \in Nat,
         NEW acc \in Seq(Ch), NEW k \in Seq(CommandsOf(Ch)), NEW v \in Seq(Ch), Len(args) < n
  PROVE  /\ Argument(v) \in Seq(Ch) /\ resp_bulk_string(v) = Append(Argument(v), LF)
         /\ Reads(At("READING_BULK_SIZE", args, n, len, <<>>, acc, k), Argument(v),
                  At("READING_DATA", args, n, Len(v), <<>>, v, k))
<1> DEFINE m == Len(v)
           s == to_string(m)
           x == <<"$">>
           y == <<CR, LF>>
           z == <<CR>>
           B == At("READING_BULK_SIZE", args, n, len, <<>>, acc, k)
           C == At("READING_DATA", args, n, m, <<>>, <<>>, k)
           D == At("READING_DATA", args, n, m, <<>>, v, k)
<1>1. m \in Nat /\ s \in Seq(Ch) /\ Numeric(s) /\ stoi(s) = m
  BY LenProperties, StoiToString, Characterwise
<1>2. /\ x \in Seq(Ch) /\ y \in Seq(Ch) /\ z \in Seq(Ch) /\ y = z \o <<LF>> /\ <<LF>> \in Seq(Ch)
      /\ LF \in Ch /\ CR \in Ch /\ "$" \in Ch /\ <<>> \in Seq(Ch)
  BY Characterwise, EmptySeq
<1>3. /\ B.calls = k /\ Steady(B, k) /\ C.calls = k /\ Steady(C, k) /\ D.calls = k /\ Steady(D, k)
  BY SteadyAt
<1>4. Reads(B, x, B)
  <2>1. ASSUME NEW buf \in Seq(Ch), NEW c \in Ch, c = "$"
        PROVE  Consume(At("READING_BULK_SIZE", args, n, len, buf, acc, k), c)
                 = At("READING_BULK_SIZE", args, n, len, <<>>, acc, k)
    BY <2>1, Reading
  <2>2. Consume(B, "$") = B
    BY <1>2, <2>1
  <2> HIDE DEF B
  <2> QED BY <1>2, <1>3, <2>2, ReadsOne
<1>5. Reads(B, s \o y, C)
  <2>1. Consume(At("READING_BULK_SIZE", args, n, len, s, acc, k), LF) = C
    <3> HIDE DEF s, m
    <3>1. Consume(At("READING_BULK_SIZE", args, n, len, s, acc, k), LF)
            = At("READING_DATA", args, n, stoi(s), <<>>, <<>>, k)
      BY <1>1, <1>2, LineFeeds
    <3> QED BY <3>1, <1>1
  <2> HIDE DEF C
  <2> QED BY <1>1, <1>3, <2>1, ReadsLine
<1>6. Reads(C, v, D)
  <2>1. m <= m
    BY <1>1
  <2> QED BY <1>1, <2>1, ReadsData
<1>7. Reads(D, z, D)
  <2>1. ASSUME NEW buf \in Seq(Ch), NEW c \in Ch, c = CR
        PROVE  Consume(At("READING_DATA", args, n, m, buf, v, k), c)
                 = At("READING_DATA", args, n, m, buf, v, k)
    <3>1. m \in Nat /\ m = Len(v) /\ Len(v) >= m
      BY <1>1
    <3> HIDE DEF m
    <3> QED BY <3>1, <2>1, Reading
  <2>2. Consume(D, CR) = D
    BY <1>2, <2>1
  <2> HIDE DEF D
  <2> QED BY <1>2, <1>3, <2>2, ReadsOne
<1> HIDE DEF B, C, D, m, s, x, y, z
<1>8. s \o y \in Seq(Ch) /\ x \o (s \o y) \in Seq(Ch)
  BY <1>1, <1>2, ConcatProperties
<1>9. Reads(B, x \o (s \o y), C)
  BY <1>2, <1>3, <1>4, <1>5, <1>8, ReadsConcat
<1>10. (x \o s) \o y = x \o (s \o y)
  <2>1. x \in Seq(Ch) /\ s \in Seq(Ch) /\ y \in Seq(Ch)
    BY <1>1, <1>2
  <2> QED BY <2>1, ConcatAssociative
<1> DEFINE h == (x \o s) \o y
           b == h \o v
<1>11. h \in Seq(Ch) /\ Reads(B, h, C)
  BY <1>8, <1>9, <1>10
<1> HIDE DEF h
<1>12. b \in Seq(Ch)
  BY <1>11, ConcatProperties
<1>13. Reads(B, b, D)
  BY <1>3, <1>6, <1>11, ReadsConcat
<1> HIDE DEF b
<1>14. Reads(B, b \o z, D) /\ b \o z \in Seq(Ch)
  BY <1>2, <1>3, <1>7, <1>12, <1>13, ReadsConcat, ConcatProperties
<1>15. Argument(v) = b \o z
  BY DEF Argument, b, h, x, y, z, s, m
<1>16. resp_bulk_string(v) = b \o y
  BY DEF resp_bulk_string, b, h, x, y, z, s, m
<1>17. b \o (z \o <<LF>>) = (b \o z) \o <<LF>>
  BY <1>2, <1>12, ConcatAssociative
<1>18. Append(b \o z, LF) = (b \o z) \o <<LF>>
  BY <1>2, <1>14, AppendIsConcat
<1> QED BY <1>2, <1>14, <1>15, <1>16, <1>17, <1>18 DEF B, D, m

\* format_resp_command in terms of what it writes for each argument.
Arguments(Ch) == [v \in Seq(Ch) |-> resp_bulk_string(v)]

\* format_resp_command is a header and the records of the arguments.
LEMMA Formatted ==
  ASSUME NEW Ch, Alphabet(Ch), NEW a \in Seq(Seq(Ch))
  PROVE  /\ Arguments(Ch) \in Writers(Seq(Ch), Ch)
         /\ format_resp_command(a) = Header(Len(a)) \o Written(Arguments(Ch), a)
<1>1. ASSUME NEW v \in Seq(Ch) PROVE resp_bulk_string(v) \in Seq(Ch)
  <2>1. Len(v) \in Nat
    BY LenProperties
  <2> DEFINE x == <<"$">>
             y == <<CR, LF>>
             s == to_string(Len(v))
  <2>2. x \in Seq(Ch) /\ y \in Seq(Ch) /\ s \in Seq(Ch)
    BY <2>1, Characterwise
  <2>3. resp_bulk_string(v) = (((x \o s) \o y) \o v) \o y
    BY DEF resp_bulk_string
  <2> HIDE DEF x, y, s
  <2> QED BY <2>2, <2>3, ConcatProperties
<1>2. Arguments(Ch) \in Writers(Seq(Ch), Ch)
  BY <1>1 DEF Writers, Arguments
<1>3. [i \in DOMAIN a |-> resp_bulk_string(a[i])] = Mapped(Arguments(Ch), a)
  <2>1. \A i \in DOMAIN a : a[i] \in Seq(Ch)
    BY LenProperties, ElementOfSeq
  <2> QED BY <2>1 DEF Mapped, Arguments
<1>4. format_resp_command(a) = Header(Len(a)) \o Written(Arguments(Ch), a)
  BY <1>3 DEF format_resp_command, Header, Written
<1> QED BY <1>2, <1>4

\* One argument more.
LEMMA FormattedAfter ==
  ASSUME NEW Ch, NEW h \in Seq(Ch), NEW a \in Seq(Seq(Ch)), NEW v \in Seq(Ch)
  PROVE  /\ Arguments(Ch) \in Writers(Seq(Ch), Ch)
         /\ LF \in Ch /\ Argument(v) \in Seq(Ch) /\ resp_bulk_string(v) = Append(Argument(v), LF)
         => h \o Written(Arguments(Ch), Append(a, v))
              = Append((h \o Written(Arguments(Ch), a)) \o Argument(v), LF)
<1>1. ASSUME NEW f \in Writers(Seq(Ch), Ch)
      PROVE  Written(f, a) \in Seq(Ch) /\ Written(f, Append(a, v)) = Written(f, a) \o f[v]
  BY WrittenAppend, WrittenType
<1>2. ASSUME NEW x \in Seq(Ch), NEW g \in Seq(Ch), NEW e \in Ch
      PROVE  h \o (x \o Append(g, e)) = Append((h \o x) \o g, e)
  <2> DEFINE y == x \o g
  <2>1. x \o Append(g, e) = Append(y, e)
    BY ConcatAppend
  <2>2. y \in Seq(Ch)
    BY ConcatProperties
  <2>3. (h \o x) \o g = h \o y
    BY ConcatAssociative
  <2> HIDE DEF y
  <2>4. h \o Append(y, e) = Append(h \o y, e)
    BY <2>2, ConcatAppend
  <2> QED BY <2>1, <2>3, <2>4
<1>3. Arguments(Ch)[v] = resp_bulk_string(v)
  BY DEF Arguments
<1> DEFINE f == Arguments(Ch)
           g == Argument(v)
           x == Written(f, a)
<1> HIDE DEF f, g, x
<1>4. ASSUME f \in Writers(Seq(Ch), Ch), LF \in Ch, g \in Seq(Ch), f[v] = Append(g, LF)
      PROVE  h \o Written(f, Append(a, v)) = Append((h \o x) \o g, LF)
  <2>1. x \in Seq(Ch) /\ Written(f, Append(a, v)) = x \o Append(g, LF)
    BY <1>1, <1>4 DEF x
  <2>2. h \o (x \o Append(g, LF)) = Append((h \o x) \o g, LF)
    BY <1>2, <1>4, <2>1
  <2> QED BY <2>1, <2>2
<1> QED BY <1>3, <1>4 DEF f, g, x

\* What format_resp_command writes for a command the parser reads as this command,
\* with its arguments, whatever characters are in them, and is new again; before
\* the last character it has called nothing.
THEOREM CommandRead ==
  ASSUME NEW Ch, Alphabet(Ch), NEW k \in Seq(CommandsOf(Ch)), NEW c \in CommandsOf(Ch)
  PROVE  LET record == format_resp_command(c)
         IN /\ record \in Seq(Ch) /\ Len(record) > 0
            /\ After(Start(k), record) = Start(Append(k, c))
            /\ \A i \in 0 .. Len(record) - 1 : Steady(After(Start(k), SubSeq(record, 1, i)), k)
<1> DEFINE n == Len(c)
           f == Arguments(Ch)
           R(a, len, acc) == At("READING_BULK_SIZE", a, n, len, <<>>, acc, k)
           H == Header(n)
           T == {a \in Seq(Seq(Ch)) : Len(a) < n =>
                   \E len \in Nat, acc \in Seq(Ch) :
                      Reads(Start(k), H \o Written(f, a), R(a, len, acc))}
<1>1. c \in Seq(Seq(Ch)) /\ n \in Nat /\ n > 0
  BY LenProperties DEF CommandsOf
<1>2. /\ f \in Writers(Seq(Ch), Ch)
      /\ format_resp_command(c) = H \o Written(f, c)
  BY <1>1, Formatted
<1>3. H \in Seq(Ch) /\ Reads(Start(k), H, R(<<>>, 0, <<>>)) /\ LF \in Ch
  BY <1>1, ReadsHeader, Characterwise
<1>4. Start(k).calls = k /\ \A a, len, acc : R(a, len, acc).calls = k
  BY DEF Start, At
<1> HIDE DEF H, f, n
<1>5. \A a \in Seq(Seq(Ch)) : Written(f, a) \in Seq(Ch) /\ H \o Written(f, a) \in Seq(Ch)
  BY <1>2, <1>3, WrittenType, ConcatProperties
\* The run up to the line feed after the next argument.
<1>6. ASSUME NEW a \in Seq(Seq(Ch)), NEW v \in Seq(Ch), a \in T, Len(a) < n
      PROVE  \E u \in Seq(Ch) :
               /\ H \o Written(f, Append(a, v)) = Append(u, LF)
               /\ Reads(Start(k), u, At("READING_DATA", a, n, Len(v), <<>>, v, k))
  <2>1. PICK len \in Nat, acc \in Seq(Ch) : Reads(Start(k), H \o Written(f, a), R(a, len, acc))
    BY <1>6
  <2> DEFINE g == Argument(v)
             w == H \o Written(f, a)
             D == At("READING_DATA", a, n, Len(v), <<>>, v, k)
             B == R(a, len, acc)
  <2>2. g \in Seq(Ch) /\ resp_bulk_string(v) = Append(g, LF) /\ Reads(B, g, D)
    BY <1>1, <1>6, ReadsArgument DEF n
  <2>3. w \in Seq(Ch) /\ Reads(Start(k), w, B) /\ B.calls = Start(k).calls
    BY <1>4, <1>5, <2>1
  <2>4. H \o Written(f, Append(a, v)) = Append(w \o g, LF)
    BY <1>2, <1>3, <2>2, FormattedAfter DEF f
  <2> HIDE DEF g, w, D, B
  <2>5. Reads(Start(k), w \o g, D) /\ w \o g \in Seq(Ch)
    BY <2>2, <2>3, ReadsConcat, ConcatProperties
  <2> QED BY <2>4, <2>5 DEF D
<1>7. <<>> \in T
  <2>1. <<>> \in Seq(Seq(Ch)) /\ <<>> \in Seq(Ch) /\ 0 \in Nat
    OBVIOUS
  <2>2. H \o Written(f, <<>>) = H
    BY <1>2, <1>3, WrittenEmpty, ConcatEmptySeq
  <2> HIDE DEF R
  <2> QED BY <1>3, <2>1, <2>2
<1>8. ASSUME NEW a \in Seq(Seq(Ch)), NEW v \in Seq(Ch), a \in T PROVE Append(a, v) \in T
  <2>1. Append(a, v) \in Seq(Seq(Ch)) /\ Len(Append(a, v)) = Len(a) + 1 /\ Len(a) \in Nat
    BY AppendProperties, LenProperties
  <2> SUFFICES ASSUME Len(a) + 1 < n
               PROVE  \E len \in Nat, acc \in Seq(Ch) :
                         Reads(Start(k), H \o Written(f, Append(a, v)), R(Append(a, v), len, acc))
    BY <2>1
  <2> DEFINE D == At("READING_DATA", a, n, Len(v), <<>>, v, k)
             q == R(Append(a, v), Len(v), v)
  <2>2. Len(a) < n /\ Len(a) + 1 # n /\ Len(v) \in Nat
    BY <1>1, <2>1, LenProperties
  <2>3. PICK u \in Seq(Ch) : /\ H \o Written(f, Append(a, v)) = Append(u, LF)
                             /\ Reads(Start(k), u, D)
    <3> HIDE DEF T
    <3> QED BY <1>6, <1>8, <2>2
  <2>4. Consume(D, LF) = q
    BY <1>1, <1>3, <2>2, DataEnds
  <2>5. D.calls = k /\ q.calls = k /\ Steady(q, k)
    <3>1. Len(Append(a, v)) < n
      BY <2>1
    <3> QED BY <3>1 DEF At, Steady
  <2> HIDE DEF D, q
  <2>6. Reads(Start(k), Append(u, LF), q)
    BY <1>3, <1>4, <2>3, <2>4, <2>5, ReadsAppend
  <2> QED BY <2>2, <2>3, <2>6 DEF q
<1>9. PICK a \in Seq(Seq(Ch)), v \in Seq(Ch) : c = Append(a, v)
  BY <1>1, EmptySeq, SequenceEmptyOrAppend DEF n
<1>10. Len(a) + 1 = n /\ Len(a) \in Nat /\ Len(a) < n /\ Len(v) \in Nat
  BY <1>9, AppendProperties, LenProperties DEF n
<1> DEFINE D == At("READING_DATA", a, n, Len(v), <<>>, v, k)
<1>11. PICK u \in Seq(Ch) : H \o Written(f, c) = Append(u, LF) /\ Reads(Start(k), u, D)
  <2> HIDE DEF T
  <2>1. a \in T
    BY <1>7, <1>8, SeqInd
  <2> QED BY <2>1, <1>6, <1>9, <1>10
<1>12. Consume(D, LF) = Start(Append(k, c))
  <2>1. Consume(D, LF) = [p |-> Fresh, calls |-> Append(k, Append(a, v)), thrown |-> FALSE]
    BY <1>1, <1>3, <1>10, DataEnds
  <2> QED BY <1>9, <2>1 DEF Start
<1> DEFINE record == format_resp_command(c)
<1>13. record = Append(u, LF)
  BY <1>2, <1>11
<1> HIDE DEF D, record
<1>14. After(Start(k), record) = Start(Append(k, c))
  BY <1>3, <1>11, <1>12, <1>13, AfterAppend DEF Reads
<1>15. record \in Seq(Ch) /\ Len(record) = Len(u) + 1 /\ Len(u) \in Nat
  BY <1>3, <1>13, AppendProperties, LenProperties
<1>16. ASSUME NEW i \in 0 .. Len(record) - 1
       PROVE  Steady(After(Start(k), SubSeq(record, 1, i)), k)
  <2>1. i \in 0 .. Len(u)
    BY <1>15
  <2>2. record = u \o <<LF>> /\ <<LF>> \in Seq(Ch)
    BY <1>3, <1>13, AppendIsConcat
  <2>3. SubSeq(record, 1, i) = SubSeq(u, 1, i)
    BY <2>1, <2>2, Cut
  <2> QED BY <2>1, <2>3, <1>4, <1>11 DEF Reads
<1> QED BY <1>14, <1>15, <1>16 DEF record

=============================================================================
