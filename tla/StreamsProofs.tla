--------------------------- MODULE StreamsProofs ---------------------------
(***************************************************************************)
(* Proofs about module Streams: for every set of commands, every base of   *)
(* the numerals, every way recv cuts the stream and every way a crash cuts *)
(* the log.                                                                *)
(***************************************************************************)
EXTENDS Streams, RespParserProofs

Bytes == Seq(Characters)

Lists == Seq(CommandsOf(Characters))

\* What replay_aof makes of a log is the run of a new parser over it.
Decoded(log) == After(Start(<<>>), log)

(***************************************************************************)
(* Records.                                                                *)
(***************************************************************************)

Formats == [c \in CommandsOf(Characters) |-> format_resp_command(c)]

\* The characters of module Streams are an alphabet of the protocol.
LEMMA Letters == Alphabet(Characters) /\ LF \in Characters
BY DEF Alphabet, Characters

\* Formats writes a command as format_resp_command does.
LEMMA FormatsType ==
  /\ Formats \in Writers(CommandsOf(Characters), Characters)
  /\ \A c \in CommandsOf(Characters) : Formats[c] = format_resp_command(c)
<1>1. ASSUME NEW c \in CommandsOf(Characters) PROVE format_resp_command(c) \in Seq(Characters)
  <2>1. <<>> \in Seq(CommandsOf(Characters))
    OBVIOUS
  <2> QED BY <2>1, Letters, CommandRead
<1> QED BY <1>1 DEF Formats, Writers

\* The records of a list of commands, by the writer Formats.
LEMMA RecordsWritten == ASSUME NEW a \in Lists PROVE Records(a) = Written(Formats, a)
<1>1. \A i \in DOMAIN a : a[i] \in CommandsOf(Characters)
  BY LenProperties, ElementOfSeq DEF Lists
<1>2. [i \in DOMAIN a |-> format_resp_command(a[i])] = Mapped(Formats, a)
  BY <1>1 DEF Mapped, Formats
<1> QED BY <1>2 DEF Records, Written

\* The records of a list of commands are a string.
LEMMA RecordsFacts ==
  /\ <<>> \in Lists /\ Records(<<>>) = <<>>
  /\ \A a \in Lists : Records(a) \in Bytes
<1>1. <<>> \in Lists
  BY DEF Lists
<1>2. Records(<<>>) = <<>>
  BY <1>1, RecordsWritten, FormatsType, WrittenEmpty
<1>3. \A a \in Lists : Written(Formats, a) \in Bytes
  BY FormatsType, WrittenType DEF Lists, Bytes
<1> QED BY <1>1, <1>2, <1>3, RecordsWritten

\* The record of one command more.
LEMMA RecordsAppend ==
  ASSUME NEW a \in Lists, NEW c \in CommandsOf(Characters)
  PROVE  Append(a, c) \in Lists /\ Records(Append(a, c)) = Records(a) \o format_resp_command(c)
<1>1. Append(a, c) \in Lists
  BY AppendProperties DEF Lists
<1>2. Written(Formats, Append(a, c)) = Written(Formats, a) \o Formats[c]
  <2> DEFINE f == Formats
  <2>1. f \in Writers(CommandsOf(Characters), Characters)
    BY FormatsType
  <2> HIDE DEF f
  <2>2. Written(f, Append(a, c)) = Written(f, a) \o f[c]
    BY <2>1, WrittenAppend DEF Lists
  <2> QED BY <2>2 DEF f
<1> QED BY <1>1, <1>2, RecordsWritten, FormatsType

\* The records of two lists.
LEMMA RecordsConcat ==
  ASSUME NEW a \in Lists, NEW b \in Lists
  PROVE  a \o b \in Lists /\ Records(a \o b) = Records(a) \o Records(b)
<1>1. a \o b \in Lists
  BY ConcatProperties DEF Lists
<1>2. Written(Formats, a \o b) = Written(Formats, a) \o Written(Formats, b)
  <2> DEFINE f == Formats
  <2>1. f \in Writers(CommandsOf(Characters), Characters)
    BY FormatsType
  <2> HIDE DEF f
  <2>2. Written(f, a \o b) = Written(f, a) \o Written(f, b)
    BY <2>1, WrittenConcat DEF Lists
  <2> QED BY <2>2 DEF f
<1> QED BY <1>1, <1>2, RecordsWritten

\* One record is read as one command.
LEMMA OneRead ==
  ASSUME NEW k \in Lists, NEW c \in CommandsOf(Characters)
  PROVE  LET record == format_resp_command(c)
         IN /\ record \in Bytes /\ Len(record) > 0
            /\ After(Start(k), record) = Start(Append(k, c))
            /\ \A i \in 0 .. Len(record) - 1 : Steady(After(Start(k), SubSeq(record, 1, i)), k)
BY Letters, CommandRead DEF Lists, Bytes

\* Records are read as their commands.
LEMMA RecordsRead ==
  ASSUME NEW k \in Lists, NEW a \in Lists
  PROVE  k \o a \in Lists /\ After(Start(k), Records(a)) = Start(k \o a)
<1> DEFINE S == {b \in Lists : After(Start(k), Records(b)) = Start(k \o b)}
<1>1. <<>> \in S
  <2>1. k \o <<>> = k
    BY ConcatEmptySeq DEF Lists
  <2> QED BY <2>1, RecordsFacts, AfterEmpty
<1>2. ASSUME NEW b \in Seq(CommandsOf(Characters)), NEW c \in CommandsOf(Characters), b \in S
      PROVE  Append(b, c) \in S
  <2> DEFINE w == format_resp_command(c)
  <2>1. b \in Lists /\ k \o b \in Lists /\ Append(b, c) \in Lists
    BY <1>2, RecordsConcat, RecordsAppend
  <2>2. Records(Append(b, c)) = Records(b) \o w
    BY <2>1, RecordsAppend
  <2>3. Records(b) \in Bytes /\ w \in Bytes
    BY <2>1, RecordsFacts, OneRead
  <2>4. After(Start(k), Records(b) \o w) = After(After(Start(k), Records(b)), w)
    <3> DEFINE v == Records(b)
    <3>1. v \in Bytes
      BY <2>3
    <3> HIDE DEF v, w
    <3> QED BY <2>3, <3>1, AfterConcat DEF v, Bytes
  <2>5. After(Start(k \o b), w) = Start(Append(k \o b, c))
    BY <2>1, OneRead
  <2>6. k \o Append(b, c) = Append(k \o b, c)
    BY ConcatAppend DEF Lists
  <2> QED BY <1>2, <2>1, <2>2, <2>4, <2>5, <2>6
<1> HIDE DEF S
<1>3. a \in S
  BY <1>1, <1>2, SeqInd DEF Lists
<1> QED BY <1>3, RecordsConcat DEF S

\* The length of the first m records of a.
Length(a, m) == Len(Records(SubSeq(a, 1, m)))

\* After i characters of the records of a, the first j commands have been called,
\* those whose records are complete; between two records the parser is new.
PrefixRead(a, i, j) ==
  LET run == Decoded(SubSeq(Records(a), 1, i))
  IN /\ \A m \in 0 .. Len(a) : Length(a, m) <= i <=> m <= j
     /\ Steady(run, SubSeq(a, 1, j))
     /\ i = Length(a, j) => run = Start(SubSeq(a, 1, j))

\* Every beginning of the records of a list decodes to the commands whose records it
\* holds.
LEMMA PrefixesRead ==
  \A a \in Lists : \A i \in 0 .. Len(Records(a)) : \E j \in 0 .. Len(a) : PrefixRead(a, i, j)
<1> DEFINE S == {a \in Lists :
                   \A i \in 0 .. Len(Records(a)) : \E j \in 0 .. Len(a) : PrefixRead(a, i, j)}
<1>1. ASSUME NEW a \in Lists
      PROVE  /\ Len(a) \in Nat /\ Records(a) \in Bytes /\ Len(Records(a)) \in Nat
             /\ SubSeq(a, 1, Len(a)) = a /\ Length(a, Len(a)) = Len(Records(a))
             /\ SubSeq(Records(a), 1, Len(Records(a))) = Records(a)
             /\ Decoded(Records(a)) = Start(a) /\ Steady(Start(a), a)
             /\ \A m \in 0 .. Len(a) : SubSeq(a, 1, m) \in Lists /\ Length(a, m) \in Nat
  <2>1. Len(a) \in Nat /\ SubSeq(a, 1, Len(a)) = a
    BY LenProperties, SubSeqFull DEF Lists
  <2>2. Records(a) \in Bytes
    BY RecordsFacts
  <2>3. Len(Records(a)) \in Nat /\ SubSeq(Records(a), 1, Len(Records(a))) = Records(a)
    <3> DEFINE w == Records(a)
    <3>1. w \in Bytes
      BY <2>2
    <3> HIDE DEF w
    <3>2. Len(w) \in Nat /\ SubSeq(w, 1, Len(w)) = w
      BY <3>1, LenProperties, SubSeqFull DEF Bytes
    <3> QED BY <3>2 DEF w
  <2>4. Decoded(Records(a)) = Start(a)
    <3>1. <<>> \in Lists /\ <<>> \o a = a
      BY ConcatEmptySeq, RecordsFacts DEF Lists
    <3> QED BY <3>1, RecordsRead DEF Decoded
  <2>5. Steady(Start(a), a)
    BY DEF Steady, Start, Fresh
  <2>6. ASSUME NEW m \in 0 .. Len(a) PROVE SubSeq(a, 1, m) \in Lists /\ Length(a, m) \in Nat
    <3>1. SubSeq(a, 1, m) \in Lists
      BY Beginning DEF Lists
    <3>2. Records(SubSeq(a, 1, m)) \in Bytes
      BY <3>1, RecordsFacts
    <3> QED BY <3>1, <3>2, LenProperties DEF Length, Bytes
  <2> QED BY <2>1, <2>2, <2>3, <2>4, <2>5, <2>6 DEF Length
<1>2. <<>> \in S
  <2> DEFINE e == <<>>
  <2>1. e \in Lists /\ Len(e) = 0 /\ Records(e) = e
    BY RecordsFacts
  <2> HIDE DEF e
  <2>2. /\ Length(e, 0) = 0 /\ SubSeq(e, 1, 0) = e
        /\ Decoded(SubSeq(Records(e), 1, 0)) = Start(e) /\ Steady(Start(e), e)
    BY <2>1, <1>1
  <2>3. \A m \in 0 .. 0 : m = 0
    OBVIOUS
  <2>4. PrefixRead(e, 0, 0)
    BY <2>1, <2>2, <2>3 DEF PrefixRead
  <2>5. e \in S
    BY <2>1, <2>3, <2>4
  <2> QED BY <2>5 DEF e
<1>3. ASSUME NEW a \in Seq(CommandsOf(Characters)), NEW c \in CommandsOf(Characters), a \in S
      PROVE  Append(a, c) \in S
  <2> DEFINE b == Append(a, c)
             n == Len(a)
             w == format_resp_command(c)
             R == Records(a)
  <2>1. a \in Lists /\ b \in Lists /\ Records(b) = R \o w
    BY <1>3, RecordsAppend
  <2>2. /\ w \in Bytes /\ Len(w) > 0 /\ Len(w) \in Nat
        /\ After(Start(a), w) = Start(b)
        /\ \A i \in 0 .. Len(w) - 1 : Steady(After(Start(a), SubSeq(w, 1, i)), a)
    BY <2>1, OneRead, LenProperties DEF Bytes
  <2>3. /\ n \in Nat /\ R \in Bytes /\ Len(R) \in Nat /\ SubSeq(a, 1, n) = a
        /\ Length(a, n) = Len(R) /\ SubSeq(R, 1, Len(R)) = R
        /\ Decoded(R) = Start(a)
        /\ \A m \in 0 .. n : Length(a, m) \in Nat
    BY <2>1, <1>1
  <2>4. Len(b) = n + 1 /\ SubSeq(b, 1, n + 1) = b /\ \A m \in 0 .. n : SubSeq(b, 1, m) = SubSeq(a, 1, m)
    <3>1. Len(b) = n + 1
      BY AppendProperties
    <3>2. SubSeq(b, 1, n + 1) = b
      BY <2>1, <1>1, <3>1
    <3>3. b = a \o <<c>> /\ <<c>> \in Seq(CommandsOf(Characters))
      BY AppendIsConcat
    <3> QED BY <3>1, <3>2, <3>3, Cut
  <2>5. Length(b, n + 1) = Len(R) + Len(w) /\ \A m \in 0 .. n : Length(b, m) = Length(a, m)
    <3>1. Len(R \o w) = Len(R) + Len(w)
      BY <2>2, <2>3, ConcatProperties DEF Bytes
    <3> QED BY <2>1, <2>4, <3>1 DEF Length
  <2>6. /\ \A i \in 0 .. Len(R) : SubSeq(R \o w, 1, i) = SubSeq(R, 1, i)
        /\ \A i \in 0 .. Len(w) : SubSeq(R \o w, 1, Len(R) + i) = R \o SubSeq(w, 1, i)
    <3> HIDE DEF R, w
    <3> QED BY <2>2, <2>3, Cut DEF Bytes
  <2>7. ASSUME NEW i \in 0 .. Len(w)
        PROVE  Decoded(R \o SubSeq(w, 1, i)) = After(Start(a), SubSeq(w, 1, i))
    <3> DEFINE v == SubSeq(w, 1, i)
    <3>1. v \in Bytes
      BY <2>2, Beginning DEF Bytes
    <3> HIDE DEF v, R
    <3>2. Decoded(R \o v) = After(Decoded(R), v)
      BY <2>3, <3>1, AfterConcat DEF Decoded, Bytes
    <3> QED BY <2>3, <3>2 DEF v
  <2> HIDE DEF R, w, n
  \* All the records of a are shorter than the whole.
  <2>8. \A m \in 0 .. n : Length(a, m) <= Len(R)
    <3>1. Len(R) \in 0 .. Len(R)
      BY <2>3
    <3>2. PICK j \in 0 .. n : PrefixRead(a, Len(R), j)
      BY <1>3, <3>1 DEF R, n
    <3>3. \A m \in 0 .. n : Length(a, m) <= Len(R) <=> m <= j
      BY <3>2 DEF PrefixRead, n
    <3>4. n \in 0 .. n /\ Length(a, n) <= Len(R)
      BY <2>3
    <3>5. n <= j
      BY <3>3, <3>4
    <3>6. \A m \in 0 .. n : m <= j
      BY <3>5, <2>3
    <3> QED BY <3>3, <3>6
  <2>9. ASSUME NEW i \in 0 .. Len(R) + Len(w) PROVE \E j \in 0 .. n + 1 : PrefixRead(b, i, j)
    <3>1. CASE i <= Len(R)
      <4>1. i \in 0 .. Len(R)
        BY <3>1, <2>3
      <4>2. PICK j \in 0 .. n : PrefixRead(a, i, j)
        BY <1>3, <4>1 DEF R, n
      <4>3. SubSeq(Records(b), 1, i) = SubSeq(Records(a), 1, i) /\ SubSeq(b, 1, j) = SubSeq(a, 1, j)
        BY <2>1, <2>4, <2>6, <4>1 DEF R
      <4>4. ASSUME NEW m \in 0 .. Len(b) PROVE Length(b, m) <= i <=> m <= j
        <5>1. CASE m \in 0 .. n
          BY <4>2, <5>1, <2>5 DEF PrefixRead, n
        <5>2. CASE m = n + 1
          <6>1. Length(b, m) = Len(R) + Len(w)
            BY <5>2, <2>5
          <6>2. ~(Len(R) + Len(w) <= i) /\ ~(m <= j)
            BY <5>2, <3>1, <2>2, <2>3
          <6> QED BY <6>1, <6>2
        <5>3. m \in 0 .. n \/ m = n + 1
          BY <2>3, <2>4
        <5> QED BY <5>1, <5>2, <5>3
      <4>5. Length(b, j) = Length(a, j)
        BY <2>5
      <4>6. PrefixRead(b, i, j)
        BY <4>2, <4>3, <4>4, <4>5 DEF PrefixRead
      <4>7. j \in 0 .. n + 1
        BY <2>3
      <4> QED BY <4>6, <4>7
    <3>2. CASE i > Len(R)
      <4>1. PICK l \in 0 .. Len(w) : i = Len(R) + l /\ l > 0
        <5>1. i - Len(R) \in 0 .. Len(w) /\ i = Len(R) + (i - Len(R)) /\ i - Len(R) > 0
          BY <3>2, <2>2, <2>3
        <5> QED BY <5>1
      <4>2. Decoded(SubSeq(Records(b), 1, i)) = After(Start(a), SubSeq(w, 1, l))
        BY <4>1, <2>1, <2>6, <2>7
      <4>3. CASE l = Len(w)
        <5>1. SubSeq(w, 1, l) = w
          BY <4>3, <2>2, SubSeqFull DEF Bytes
        <5>2. Decoded(SubSeq(Records(b), 1, i)) = Start(b)
          BY <4>2, <5>1, <2>2
        <5>3. Steady(Start(b), b)
          BY <2>1, <1>1
        <5>4. ASSUME NEW m \in 0 .. Len(b) PROVE Length(b, m) <= i <=> m <= n + 1
          <6>1. CASE m \in 0 .. n
            <7>1. Length(b, m) <= Len(R) /\ Length(b, m) \in Nat
              BY <6>1, <2>3, <2>5, <2>8
            <7> QED BY <7>1, <4>1, <6>1, <2>2, <2>3
          <6>2. CASE m = n + 1
            BY <6>2, <4>1, <4>3, <2>2, <2>3, <2>5
          <6>3. m \in 0 .. n \/ m = n + 1
            BY <2>3, <2>4
          <6> QED BY <6>1, <6>2, <6>3
        <5>5. PrefixRead(b, i, n + 1)
          BY <5>2, <5>3, <5>4, <2>4 DEF PrefixRead
        <5>6. n + 1 \in 0 .. n + 1
          BY <2>3
        <5> QED BY <5>5, <5>6
      <4>4. CASE l # Len(w)
        <5>1. l \in 0 .. Len(w) - 1
          BY <4>4, <2>2
        <5>2. Steady(Decoded(SubSeq(Records(b), 1, i)), a)
          BY <4>2, <5>1, <2>2
        <5>3. SubSeq(b, 1, n) = a /\ Length(b, n) = Len(R)
          <6>1. n \in 0 .. n
            BY <2>3
          <6> QED BY <6>1, <2>3, <2>4, <2>5
        <5>4. ASSUME NEW m \in 0 .. Len(b) PROVE Length(b, m) <= i <=> m <= n
          <6>1. CASE m \in 0 .. n
            <7>1. Length(b, m) <= Len(R) /\ Length(b, m) \in Nat
              BY <6>1, <2>3, <2>5, <2>8
            <7> QED BY <7>1, <4>1, <6>1, <2>2, <2>3
          <6>2. CASE m = n + 1
            <7>1. ~(Len(R) + Len(w) <= i) /\ ~(m <= n)
              BY <6>2, <4>1, <5>1, <2>2, <2>3
            <7> QED BY <7>1, <6>2, <2>5
          <6>3. m \in 0 .. n \/ m = n + 1
            BY <2>3, <2>4
          <6> QED BY <6>1, <6>2, <6>3
        <5>5. i # Length(b, n)
          BY <5>3, <4>1, <2>3
        <5>6. PrefixRead(b, i, n)
          BY <5>2, <5>3, <5>4, <5>5 DEF PrefixRead
        <5>7. n \in 0 .. n + 1
          BY <2>3
        <5> QED BY <5>6, <5>7
      <4> QED BY <4>3, <4>4
    <3>3. i <= Len(R) \/ i > Len(R)
      BY <2>2, <2>3
    <3> QED BY <3>1, <3>2, <3>3
  <2>10. Len(Records(b)) = Len(R) + Len(w) /\ Len(b) = n + 1
    <3>1. Len(R \o w) = Len(R) + Len(w)
      BY <2>2, <2>3, ConcatProperties DEF Bytes
    <3> QED BY <3>1, <2>1, <2>4
  <2>11. b \in S
    BY <2>1, <2>9, <2>10
  <2> QED BY <2>11
<1> HIDE DEF S
<1>4. \A a \in Lists : a \in S
  BY <1>2, <1>3, SeqInd DEF Lists
<1> QED BY <1>4 DEF S

(***************************************************************************)
(* A stream in two parts.                                                  *)
(***************************************************************************)

\* A run of the parser, by its fields.
LEMMA RunFields ==
  ASSUME NEW r \in Runs(Characters)
  PROVE  /\ r.calls \in Lists /\ r.p \in Parsers(Characters) /\ r.thrown \in BOOLEAN
         /\ r = [p |-> r.p, calls |-> r.calls, thrown |-> r.thrown]
BY DEF Runs, Lists

\* Whatever is decoded, the parser stays in its states.
LEMMA DecodedType ==
  ASSUME NEW a \in Bytes
  PROVE  Decoded(a) \in Runs(Characters) /\ Clean(Decoded(a).p)
<1>1. Start(<<>>) \in Runs(Characters) /\ Clean(Start(<<>>).p)
  BY DEF Start, Fresh, Runs, Parsers, States, Clean
<1> DEFINE r == Start(<<>>)
<1> HIDE DEF r
<1>2. r \in Runs(Characters) /\ Clean(r.p)
  BY <1>1 DEF r
<1>3. After(r, a) \in Runs(Characters) /\ Clean(After(r, a).p)
  BY <1>2, AfterType DEF Bytes
<1> QED BY <1>3 DEF r, Decoded

\* Decoding may stop and go on anywhere.
LEMMA DecodedConcat ==
  ASSUME NEW a \in Bytes, NEW b \in Bytes
  PROVE  a \o b \in Bytes /\ Decoded(a \o b) = After(Decoded(a), b)
<1>1. a \o b \in Bytes
  BY ConcatProperties DEF Bytes
<1>2. After(Start(<<>>), a \o b) = After(After(Start(<<>>), a), b)
  <2> DEFINE r == Start(<<>>)
  <2> HIDE DEF r
  <2>1. After(r, a \o b) = After(After(r, a), b)
    BY AfterConcat DEF Bytes
  <2> QED BY <2>1 DEF r
<1> QED BY <1>1, <1>2 DEF Decoded

\* Parsing a chunk is going on from where the parser is.
LEMMA Continued ==
  ASSUME NEW r \in Runs(Characters), Clean(r.p), ~r.thrown, NEW s \in Bytes
  PROVE  LET run == parse_and_execute(r.p, s)
         IN /\ run \in Runs(Characters) /\ Clean(run.p)
            /\ After(r, s) = [p |-> run.p, calls |-> r.calls \o run.calls, thrown |-> run.thrown]
<1> DEFINE q == [p |-> r.p, calls |-> <<>>, thrown |-> FALSE]
<1>1. q \in Runs(Characters) /\ Clean(q.p)
  BY RunFields, EmptySeq DEF Runs
<1>2. Later(r.calls, q) = r
  <2>1. r.calls \o <<>> = r.calls /\ r.thrown = FALSE
    BY RunFields, ConcatEmptySeq DEF Lists
  <2>2. Later(r.calls, q) = [p |-> r.p, calls |-> r.calls, thrown |-> FALSE]
    BY <2>1 DEF Later
  <2> QED BY <2>1, <2>2, RunFields
<1>3. parse_and_execute(r.p, s) = After(q, s)
  BY DEF parse_and_execute
<1>4. r.calls \in Seq(CommandsOf(Characters))
  BY RunFields DEF Lists
<1> HIDE DEF q
<1>5. After(q, s) \in Runs(Characters) /\ Clean(After(q, s).p)
  BY <1>1, AfterType DEF Bytes
<1>6. After(Later(r.calls, q), s) = Later(r.calls, After(q, s))
  <2> DEFINE k == r.calls
  <2> HIDE DEF k
  <2>1. k \in Seq(CommandsOf(Characters))
    BY <1>4 DEF k
  <2>2. After(Later(k, q), s) = Later(k, After(q, s))
    BY <1>1, <2>1, AfterLater DEF Bytes
  <2> QED BY <2>2 DEF k
<1> QED BY <1>2, <1>3, <1>5, <1>6 DEF Later

\* A prefix of a sequence is one of every longer sequence.
LEMMA PrefixConcat ==
  ASSUME NEW S, NEW s \in Seq(S), NEW t \in Seq(S), NEW u \in Seq(S), IsPrefix(s, t)
  PROVE  IsPrefix(s, t \o u) /\ Len(s) <= Len(t)
<1>1. /\ Len(s) \in Nat /\ Len(t) \in Nat /\ Len(u) \in Nat /\ Len(s) <= Len(t)
      /\ SubSeq(s, 1, Len(s)) = SubSeq(t, 1, Len(s))
  BY LenProperties DEF IsPrefix
<1>2. Len(t \o u) = Len(t) + Len(u)
  BY ConcatProperties
<1>3. SubSeq(t \o u, 1, Len(s)) = SubSeq(t, 1, Len(s))
  <2>1. Len(s) \in 0 .. Len(t)
    BY <1>1
  <2> QED BY <2>1, Cut
<1> QED BY <1>1, <1>2, <1>3 DEF IsPrefix

\* A sequence is a prefix of itself.
LEMMA PrefixSelf ==
  ASSUME NEW S, NEW s \in Seq(S)
  PROVE  IsPrefix(s, s)
BY LenProperties DEF IsPrefix

\* The beginning of a log that decodes decodes to the beginning of its commands.
LEMMA DecodedPart ==
  ASSUME NEW a \in Bytes, NEW b \in Bytes, ~Decoded(a \o b).thrown
  PROVE  /\ ~Decoded(a).thrown
         /\ IsPrefix(Decoded(a).calls, Decoded(a \o b).calls)
         /\ Len(Decoded(a).calls) <= Len(Decoded(a \o b).calls)
<1> DEFINE r == Decoded(a)
<1>1. r \in Runs(Characters) /\ Clean(r.p)
  BY DecodedType
<1>2. Decoded(a \o b) = After(r, b)
  BY DecodedConcat
<1> HIDE DEF r
<1>3. ~r.thrown
  <2>1. r.thrown => After(r, b) = r
    BY <1>1, AfterThrown DEF Bytes
  <2> QED BY <1>2, <2>1
<1>4. PICK k \in Lists : After(r, b).calls = r.calls \o k
  <2> DEFINE run == parse_and_execute(r.p, b)
  <2>1. /\ run \in Runs(Characters)
        /\ After(r, b) = [p |-> run.p, calls |-> r.calls \o run.calls, thrown |-> run.thrown]
    BY <1>1, <1>3, Continued
  <2> HIDE DEF run
  <2>2. run.calls \in Lists
    BY <2>1, RunFields
  <2>3. After(r, b).calls = r.calls \o run.calls
    <3> DEFINE x == After(r, b)
               k == r.calls \o run.calls
    <3>1. x = [p |-> run.p, calls |-> k, thrown |-> run.thrown]
      BY <2>1
    <3> HIDE DEF x, k
    <3>2. x.calls = k
      BY <3>1
    <3> QED BY <3>2 DEF x, k
  <2> QED BY <2>2, <2>3
<1>5. r.calls \in Lists
  BY <1>1, RunFields
<1>6. IsPrefix(r.calls, r.calls \o k)
  <2> DEFINE s == r.calls
  <2>1. s \in Seq(CommandsOf(Characters)) /\ k \in Seq(CommandsOf(Characters))
    BY <1>5 DEF Lists
  <2> HIDE DEF s
  <2>2. IsPrefix(s, s)
    BY <2>1, PrefixSelf
  <2>3. IsPrefix(s, s \o k)
    BY <2>1, <2>2, PrefixConcat
  <2> QED BY <2>3 DEF s
<1>7. Len(r.calls) <= Len(r.calls \o k)
  BY <1>6 DEF IsPrefix
<1> QED BY <1>2, <1>3, <1>4, <1>6, <1>7 DEF r

\* What has been received of the records of s, if w is still on its way.
LEMMA Received ==
  ASSUME NEW r \in Bytes, NEW w \in Bytes, NEW s \in Lists, r \o w = Records(s)
  PROVE  /\ Len(r) \in Nat /\ Len(Records(s)) = Len(r) + Len(w)
         /\ SubSeq(Records(s), 1, Len(r)) = r
         /\ \E j \in 0 .. Len(s) : PrefixRead(s, Len(r), j)
<1>1. Len(r) \in Nat /\ Len(w) \in Nat /\ Len(r \o w) = Len(r) + Len(w)
  BY LenProperties, ConcatProperties DEF Bytes
<1>2. SubSeq(r \o w, 1, Len(r)) = r
  <2>1. Len(r) \in 0 .. Len(r) /\ SubSeq(r, 1, Len(r)) = r
    BY <1>1, SubSeqFull DEF Bytes
  <2> QED BY <2>1, Cut DEF Bytes
<1>3. Len(r) \in 0 .. Len(Records(s))
  BY <1>1
<1> QED BY <1>1, <1>2, <1>3, PrefixesRead

\* Concatenation is associative.
LEMMA Regrouped ==
  ASSUME NEW a \in Bytes, NEW b \in Bytes, NEW c \in Bytes
  PROVE  (a \o b) \o c = a \o (b \o c)
<1>1. a \in Seq(Characters) /\ b \in Seq(Characters) /\ c \in Seq(Characters)
  BY DEF Bytes
<1> QED BY ONLY <1>1, ConcatAssociative

\* The same for lists of commands.
LEMMA ListsRegrouped ==
  ASSUME NEW a \in Lists, NEW b \in Lists, NEW c \in Lists
  PROVE  (a \o b) \o c = a \o (b \o c)
<1> DEFINE C == CommandsOf(Characters)
<1>1. a \in Seq(C) /\ b \in Seq(C) /\ c \in Seq(C)
  BY DEF Lists
<1> QED BY ONLY <1>1, ConcatAssociative

\* The records of a list are read as that list.
LEMMA DecodedWritten ==
  ASSUME NEW a \in Lists
  PROVE  Decoded(Records(a)) = Start(a)
<1>1. <<>> \in Lists /\ <<>> \o a = a
  BY ConcatEmptySeq, RecordsFacts DEF Lists
<1> QED BY <1>1, RecordsRead DEF Decoded

\* A log of records that begins with a log of records.
LEMMA DecodedRecords ==
  ASSUME NEW a \in Bytes, NEW k \in Lists, Decoded(a) = Start(k), NEW c \in Lists
  PROVE  a \o Records(c) \in Bytes /\ Decoded(a \o Records(c)) = Start(k \o c)
<1>1. Records(c) \in Bytes
  BY RecordsFacts
<1>2. a \o Records(c) \in Bytes /\ Decoded(a \o Records(c)) = After(Start(k), Records(c))
  BY <1>1, DecodedConcat
<1> QED BY <1>2, RecordsRead

(***************************************************************************)
(* The invariant.  What has been received and what is on its way are the   *)
(* records of what was sent; file and buffer are the records of the store. *)
(***************************************************************************)

\* The part rcv of what was sent has been received.
HasReceived(rcv) ==
  /\ rcv \o wire = Records(sent)
  /\ Decoded(rcv) = [p |-> parser, calls |-> executed, thrown |-> FALSE]

ConnectionInv ==
  /\ wire \in Bytes /\ sent \in Lists
  /\ \E rcv \in Bytes : HasReceived(rcv)

LogInv ==
  /\ buffer \in Bytes /\ file \in Bytes /\ store \in Lists
  /\ last_rewrite_size \in Nat /\ safe \in 0 .. Len(store) /\ torn \in BOOLEAN
  /\ pc \in {"up", "down", "failed"}
  /\ pc # "up" => buffer = <<>>
  /\ pc = "up" /\ ~torn => Decoded(file \o buffer) = Start(store)
  /\ ~torn => RestartExact

Bounds ==
  /\ commands \in 0 .. MaxCommands /\ crashes \in 0 .. MaxCrashes
  /\ closed \in 0 .. MaxClients

Inv == ConnectionInv /\ LogInv /\ Bounds

\* What RestartExact says in terms of Decoded.
LEMMA RestartDecoded ==
  RestartExact <=>
    /\ pc # "failed" /\ ~Decoded(file).thrown
    /\ IsPrefix(Decoded(file).calls, store) /\ Len(Decoded(file).calls) >= safe
BY DEF RestartExact, Replayed, parse_and_execute, Decoded, Start

\* The bounds are numbers.
LEMMA Numbers ==
  /\ MaxCommands \in Nat /\ MaxCrashes \in Nat /\ MaxClients \in Nat
  /\ RecvBuffer \in Nat /\ REWRITE_THRESHOLD \in Nat
<1>1. /\ RecvBuffer \in Nat \ {0} /\ REWRITE_THRESHOLD \in Nat
      /\ {MaxCommands, MaxCrashes, MaxClients} \subseteq Nat
  BY StreamsAssumption, Zenon
<1> QED BY <1>1

\* The invariant holds initially.
LEMMA InitInv == Init => Inv
<1> SUFFICES ASSUME Init PROVE Inv
  OBVIOUS
<1> USE DEF Init
<1>1. <<>> \in Bytes /\ <<>> \in Lists /\ Records(<<>>) = <<>> /\ <<>> \o <<>> = <<>>
  BY RecordsFacts DEF Bytes
<1>2. Decoded(<<>>) = Start(<<>>)
  BY AfterEmpty DEF Decoded
<1>3. ConnectionInv
  <2>1. HasReceived(<<>>)
    BY <1>1, <1>2 DEF HasReceived, Start
  <2> QED BY <1>1, <2>1 DEF ConnectionInv
<1>4. RestartExact
  <2>1. Len(<<>>) = 0 /\ IsPrefix(<<>>, <<>>)
    BY <1>1, PrefixSelf DEF Lists
  <2> QED BY <1>2, <2>1, RestartDecoded DEF Start
<1>5. LogInv
  <2>1. Decoded(file \o buffer) = Start(store)
    BY <1>1, <1>2
  <2>2. safe \in 0 .. Len(store) /\ last_rewrite_size \in Nat
    OBVIOUS
  <2>3. buffer \in Bytes /\ file \in Bytes /\ store \in Lists
    BY <1>1
  <2>4. torn \in BOOLEAN /\ pc \in {"up", "down", "failed"} /\ (pc # "up" => buffer = <<>>)
    OBVIOUS
  <2> QED BY <1>4, <2>1, <2>2, <2>3, <2>4 DEF LogInv
<1>6. Bounds
  BY Numbers DEF Bounds
<1> QED BY <1>3, <1>5, <1>6 DEF Inv

\* A client sends commands, in the order of their arguments.
LEMMA CommandsTyped == Commands \subseteq CommandsOf(Characters)
BY StreamsAssumption DEF CommandsOf

\* The connection ends.
LEMMA HangupConnection ==
  ASSUME Hangup PROVE ConnectionInv'
<1>1. <<>> \in Bytes /\ <<>> \in Lists /\ Records(<<>>) = <<>> /\ <<>> \o <<>> = <<>>
  BY RecordsFacts DEF Bytes
<1>2. Decoded(<<>>) = Start(<<>>)
  BY AfterEmpty DEF Decoded
<1>3. HasReceived(<<>>)'
  BY <1>1, <1>2 DEF HasReceived, Start, Hangup
<1> QED BY <1>1, <1>3 DEF ConnectionInv, Hangup

\* recv never makes the parser throw, and what it executes is what has arrived.
LEMMA RecvRun ==
  ASSUME ConnectionInv, NEW n \in 1 .. Len(wire)
  PROVE  LET run == parse_and_execute(parser, SubSeq(wire, 1, n))
             rest == SubSeq(wire, n + 1, Len(wire))
         IN /\ ~run.thrown /\ run.calls \in Lists
            /\ rest \in Bytes
            /\ \E rcv \in Bytes :
                 /\ rcv \o rest = Records(sent)
                 /\ Decoded(rcv) = [p |-> run.p, calls |-> executed \o run.calls,
                                    thrown |-> FALSE]
<1> DEFINE chunk == SubSeq(wire, 1, n)
           rest == SubSeq(wire, n + 1, Len(wire))
           run == parse_and_execute(parser, chunk)
<1>1. wire \in Bytes /\ sent \in Lists /\ Len(wire) \in Nat
  BY LenProperties DEF ConnectionInv, Bytes
<1>2. chunk \in Bytes /\ rest \in Bytes /\ chunk \o rest = wire
  <2>1. n \in 0 .. Len(wire)
    BY <1>1
  <2> QED BY <1>1, <2>1, Halves DEF Bytes
<1> HIDE DEF chunk, rest
<1>3. PICK rcv \in Bytes : HasReceived(rcv)
  BY DEF ConnectionInv
<1> DEFINE r == Decoded(rcv)
<1>4. /\ r \in Runs(Characters) /\ Clean(r.p) /\ ~r.thrown
      /\ r.p = parser /\ r.calls = executed
  <2>1. r = [p |-> parser, calls |-> executed, thrown |-> FALSE]
    BY <1>3 DEF HasReceived
  <2>2. r \in Runs(Characters) /\ Clean(r.p)
    BY DecodedType
  <2> HIDE DEF r
  <2>3. ~r.thrown /\ r.p = parser /\ r.calls = executed
    BY <2>1
  <2> QED BY <2>2, <2>3
<1>5. rcv \o chunk \in Bytes /\ Decoded(rcv \o chunk) = After(r, chunk)
  BY <1>2, DecodedConcat
<1> HIDE DEF r
<1>6. /\ run \in Runs(Characters)
      /\ After(r, chunk) = [p |-> run.p, calls |-> executed \o run.calls, thrown |-> run.thrown]
  BY <1>2, <1>4, Continued
<1>7. (rcv \o chunk) \o rest = Records(sent)
  <2>1. (rcv \o chunk) \o rest = rcv \o (chunk \o rest)
    BY <1>2, Regrouped
  <2> QED BY <1>2, <1>3, <2>1 DEF HasReceived
<1> HIDE DEF run
<1>8. ~Decoded(rcv \o chunk).thrown
  <2> DEFINE q == rcv \o chunk
  <2>1. q \in Bytes /\ q \o rest = Records(sent)
    BY <1>5, <1>7
  <2> HIDE DEF q
  <2>2. SubSeq(Records(sent), 1, Len(q)) = q /\ \E j \in 0 .. Len(sent) : PrefixRead(sent, Len(q), j)
    BY <1>1, <1>2, <2>1, Received
  <2>3. PICK j : PrefixRead(sent, Len(q), j)
    BY <2>2
  <2>4. ~Decoded(q).thrown
    BY <2>2, <2>3 DEF PrefixRead, Steady
  <2> QED BY <2>4 DEF q
<1>9. run.thrown = FALSE /\ run.calls \in Lists
  <2>1. run.thrown \in BOOLEAN /\ run.calls \in Lists
    BY <1>6, RunFields
  <2>2. ~run.thrown
    BY <1>5, <1>6, <1>8
  <2> QED BY <2>1, <2>2
<1>10. Decoded(rcv \o chunk) = [p |-> run.p, calls |-> executed \o run.calls, thrown |-> FALSE]
  BY <1>5, <1>6, <1>9
<1> QED BY <1>2, <1>5, <1>7, <1>9, <1>10 DEF run, rest, chunk

\* The same after a step.
LEMMA RestartDecodedNext ==
  RestartExact' <=>
    /\ pc' # "failed" /\ ~Decoded(file').thrown
    /\ IsPrefix(Decoded(file').calls, store') /\ Len(Decoded(file').calls) >= safe'
BY DEF RestartExact, Replayed, parse_and_execute, Decoded, Start

\* A start on a file that holds the records of s, of what was executed.
LEMMA Restarts ==
  ASSUME NEW f \in Bytes, NEW s \in Lists, NEW t \in Lists, Decoded(f) = Start(s)
  PROVE  /\ ~Decoded(f).thrown /\ Decoded(f).calls = s /\ Decoded(f).p = Fresh
         /\ IsPrefix(s, s) /\ IsPrefix(s, s \o t)
         /\ Len(s) \in Nat /\ Len(s \o t) \in Nat /\ Len(s) <= Len(s \o t)
<1>1. Decoded(f).calls = s /\ ~Decoded(f).thrown /\ Decoded(f).p = Fresh
  BY DEF Start
<1>2. s \in Seq(CommandsOf(Characters)) /\ t \in Seq(CommandsOf(Characters))
  BY DEF Lists
<1>3. IsPrefix(s, s)
  BY <1>2, PrefixSelf
<1>4. IsPrefix(s, s \o t)
  BY <1>2, <1>3, PrefixConcat
<1>5. Len(s) \in Nat /\ Len(t) \in Nat /\ Len(s \o t) = Len(s) + Len(t)
  BY <1>2, LenProperties, ConcatProperties
<1> QED BY <1>1, <1>3, <1>4, <1>5

\* A client sends a command.
LEMMA ClientSendsInv ==
  ASSUME Inv, NEW c \in Commands, ClientSends(c) PROVE Inv'
<1>1. c \in CommandsOf(Characters)
  BY CommandsTyped
<1>2. PICK rcv \in Bytes : HasReceived(rcv)
  BY DEF Inv, ConnectionInv
<1>3. wire \in Bytes /\ sent \in Lists
  BY DEF Inv, ConnectionInv
<1> DEFINE w == format_resp_command(c)
<1>4. w \in Bytes
  BY <1>1, RecordsFacts, OneRead
<1>5. sent' \in Lists /\ Records(sent') = Records(sent) \o w
  BY <1>1, <1>3, RecordsAppend DEF ClientSends
<1> HIDE DEF w
<1>6. wire' = wire \o w /\ wire \o w \in Bytes
  <2>1. wire' = wire \o w
    BY DEF ClientSends, w
  <2> QED BY <1>3, <1>4, <2>1, ConcatProperties DEF Bytes
<1>7. rcv \o wire' = Records(sent')
  <2>1. (rcv \o wire) \o w = rcv \o (wire \o w)
    BY <1>3, <1>4, Regrouped
  <2> QED BY <1>2, <1>5, <1>6, <2>1 DEF HasReceived
<1>8. HasReceived(rcv)'
  BY <1>2, <1>7 DEF HasReceived, ClientSends
<1>9. ConnectionInv'
  BY <1>5, <1>6, <1>8 DEF ConnectionInv
<1>10. LogInv'
  BY DEF Inv, LogInv, ClientSends, logVars, RestartExact
<1>11. Bounds'
  BY Numbers DEF Inv, Bounds, ClientSends
<1> QED BY <1>9, <1>10, <1>11 DEF Inv

\* The log after the commands of one recv.
LEMMA LogStep ==
  ASSUME LogInv, pc = "up", pc' = pc, NEW calls \in Lists,
         store' = store \o calls, Log(calls)
  PROVE  LogInv'
<1>1. /\ buffer \in Bytes /\ file \in Bytes /\ store \in Lists
      /\ last_rewrite_size \in Nat /\ safe \in 0 .. Len(store) /\ torn \in BOOLEAN
      /\ ~torn => Decoded(file \o buffer) = Start(store)
      /\ ~torn => RestartExact
  BY DEF LogInv
<1>2. store' \in Lists /\ Records(calls) \in Bytes
  BY <1>1, RecordsConcat, RecordsFacts
<1>3. CASE /\ buffer' = buffer \o Records(calls)
           /\ UNCHANGED <<file, last_rewrite_size, safe, torn>>
  <2>1. buffer' \in Bytes /\ file' = file /\ last_rewrite_size' = last_rewrite_size
        /\ safe' = safe /\ torn' = torn
    BY <1>1, <1>2, <1>3, ConcatProperties DEF Bytes
  <2>2. Len(store) \in Nat /\ Len(store') \in Nat /\ Len(store) <= Len(store')
    <3> DEFINE n == Len(store)
    <3>1. Len(store \o calls) = Len(store) + Len(calls) /\ Len(store) \in Nat /\ Len(calls) \in Nat
      BY <1>1, LenProperties, ConcatProperties DEF Lists
    <3> QED BY <3>1
  <2>3. safe' \in 0 .. Len(store')
    BY <1>1, <2>1, <2>2
  <2>4. ASSUME ~torn' PROVE Decoded(file' \o buffer') = Start(store')
    <3>1. Decoded(file \o buffer) = Start(store)
      BY <1>1, <2>1, <2>4
    <3>2. (file \o buffer) \o Records(calls) = file \o (buffer \o Records(calls))
      BY <1>1, <1>2, Regrouped
    <3>3. file \o buffer \in Bytes
      BY <1>1, DecodedConcat
    <3>4. Decoded((file \o buffer) \o Records(calls)) = Start(store \o calls)
      BY <1>1, <3>1, <3>3, DecodedRecords
    <3> QED BY <1>3, <2>1, <3>2, <3>4
  <2>5. ASSUME ~torn' PROVE RestartExact'
    <3> DEFINE k == Decoded(file).calls
    <3>1. /\ ~Decoded(file).thrown
          /\ IsPrefix(k, store) /\ Len(k) >= safe
      BY <1>1, <2>1, <2>5, RestartDecoded
    <3>2. k \in Lists
      BY <1>1, DecodedType, RunFields
    <3> HIDE DEF k
    <3>3. IsPrefix(k, store \o calls)
      BY <1>1, <3>1, <3>2, PrefixConcat DEF Lists
    <3> QED BY <2>1, <3>1, <3>3, RestartDecodedNext DEF k
  <2> QED BY <1>2, <2>1, <2>3, <2>4, <2>5, <1>1 DEF LogInv
<1>4. ASSUME NEW k \in 1 .. Len(calls),
             file' = Records(store \o SubSeq(calls, 1, k)),
             buffer' = Records(SubSeq(calls, k + 1, Len(calls))),
             last_rewrite_size' = Len(file'),
             safe' = Len(store \o SubSeq(calls, 1, k)), torn' = FALSE
      PROVE  LogInv'
  <2> DEFINE first == SubSeq(calls, 1, k)
             last == SubSeq(calls, k + 1, Len(calls))
  <2>1. first \in Lists /\ last \in Lists /\ first \o last = calls
    BY Halves DEF Lists
  <2>2. /\ file' = Records(store \o first) /\ buffer' = Records(last)
        /\ safe' = Len(store \o first)
    BY <1>4
  <2> HIDE DEF first, last
  <2>3. /\ store \o first \in Lists /\ (store \o first) \o last = store'
    <3>1. store \o first \in Lists
      BY <1>1, <2>1, RecordsConcat
    <3>2. (store \o first) \o last = store \o (first \o last)
      BY <1>1, <2>1, ListsRegrouped
    <3> QED BY <2>1, <3>1, <3>2
  <2> DEFINE s == store \o first
  <2>4. s \in Lists /\ s \o last = store' /\ file' = Records(s) /\ safe' = Len(s)
    BY <2>2, <2>3
  <2> HIDE DEF s
  <2>5. file' \in Bytes /\ buffer' \in Bytes
    BY <2>1, <2>2, <2>4, RecordsFacts
  <2>6. Decoded(file') = Start(s)
    BY <2>4, DecodedWritten
  <2>7. Decoded(file' \o buffer') = Start(store')
    <3>1. Decoded(file' \o Records(last)) = Start(s \o last)
      BY <2>1, <2>4, <2>5, <2>6, DecodedRecords
    <3> QED BY <2>2, <2>4, <3>1
  <2>8. /\ ~Decoded(file').thrown /\ Decoded(file').calls = s
        /\ IsPrefix(s, s \o last)
        /\ Len(s) \in Nat /\ Len(s \o last) \in Nat /\ Len(s) <= Len(s \o last)
    BY <2>1, <2>4, <2>5, <2>6, Restarts
  <2>9. safe' \in 0 .. Len(store') /\ Len(s) >= safe'
    BY <2>4, <2>8
  <2>10. RestartExact'
    BY <2>4, <2>8, <2>9, RestartDecodedNext
  <2>11. last_rewrite_size' \in Nat
    BY <1>4, <2>5, LenProperties DEF Bytes
  <2> QED BY <1>2, <1>4, <2>5, <2>7, <2>9, <2>10, <2>11 DEF LogInv
<1> QED BY <1>3, <1>4 DEF Log

\* A recv.
LEMMA RecvInv ==
  ASSUME Inv, NEW n \in 1 .. Len(wire), Recv(n) PROVE Inv'
<1> DEFINE run == parse_and_execute(parser, SubSeq(wire, 1, n))
           rest == SubSeq(wire, n + 1, Len(wire))
<1>1. ConnectionInv /\ LogInv /\ Bounds
  BY DEF Inv
<1>2. /\ ~run.thrown /\ run.calls \in Lists /\ rest \in Bytes
      /\ \E rcv \in Bytes :
           /\ rcv \o rest = Records(sent)
           /\ Decoded(rcv) = [p |-> run.p, calls |-> executed \o run.calls, thrown |-> FALSE]
  BY <1>1, RecvRun
<1>3. /\ pc = "up" /\ wire' = rest /\ parser' = run.p
      /\ executed' = executed \o run.calls /\ store' = store \o run.calls
      /\ Log(run.calls)
      /\ sent' = sent /\ closed' = closed /\ pc' = pc
      /\ commands' = commands /\ crashes' = crashes
  BY <1>2 DEF Recv
<1> HIDE DEF run, rest
<1>4. PICK rcv \in Bytes :
           /\ rcv \o rest = Records(sent)
           /\ Decoded(rcv) = [p |-> run.p, calls |-> executed \o run.calls, thrown |-> FALSE]
  BY <1>2
<1>5. HasReceived(rcv)'
  BY <1>3, <1>4 DEF HasReceived
<1>6. ConnectionInv'
  BY <1>1, <1>2, <1>3, <1>5 DEF ConnectionInv
<1>7. LogInv'
  BY <1>1, <1>2, <1>3, LogStep
<1>8. Bounds'
  BY <1>1, <1>3 DEF Bounds
<1> QED BY <1>6, <1>7, <1>8 DEF Inv

\* The client closes the connection.
LEMMA DisconnectInv ==
  ASSUME Inv, Disconnect PROVE Inv'
<1>1. ConnectionInv'
  BY HangupConnection DEF Disconnect
<1>2. LogInv'
  BY DEF Inv, LogInv, Disconnect, logVars, RestartExact
<1>3. Bounds'
  BY Numbers DEF Inv, Bounds, Disconnect
<1> QED BY <1>1, <1>2, <1>3 DEF Inv

\* The log is flushed.
LEMMA FlushInv ==
  ASSUME Inv, flush_aof PROVE Inv'
<1>1. /\ buffer \in Bytes /\ file \in Bytes /\ store \in Lists
      /\ last_rewrite_size \in Nat /\ torn \in BOOLEAN
      /\ ~torn => Decoded(file \o buffer) = Start(store)
  BY DEF Inv, LogInv, flush_aof
<1>2. /\ file' = file \o buffer /\ buffer' = <<>> /\ safe' = Len(store) /\ pc' = "up" /\ pc = "up"
      /\ last_rewrite_size' = last_rewrite_size /\ torn' = torn /\ store' = store
  BY DEF flush_aof
<1>3. file' \in Bytes /\ buffer' \in Bytes /\ file' \o buffer' = file'
  <2>1. file' \in Bytes
    BY <1>1, <1>2, DecodedConcat
  <2> QED BY <1>2, <2>1, ConcatEmptySeq, EmptySeq DEF Bytes
<1>4. Len(store) \in Nat /\ safe' \in 0 .. Len(store')
  <2>1. Len(store) \in Nat
    BY <1>1, LenProperties DEF Lists
  <2> QED BY <1>2, <2>1
<1>5. ASSUME ~torn' PROVE RestartExact' /\ Decoded(file' \o buffer') = Start(store')
  <2>1. Decoded(file') = Start(store)
    BY <1>1, <1>2, <1>5
  <2>2. /\ ~Decoded(file').thrown /\ Decoded(file').calls = store /\ IsPrefix(store, store)
    BY <1>1, <1>3, <2>1, Restarts
  <2> QED BY <1>2, <1>3, <1>4, <2>1, <2>2, RestartDecodedNext
<1>6. LogInv'
  BY <1>1, <1>2, <1>3, <1>4, <1>5 DEF LogInv
<1>7. ConnectionInv'
  BY DEF Inv, ConnectionInv, HasReceived, flush_aof, clientVars
<1>8. Bounds'
  BY DEF Inv, Bounds, flush_aof, clientVars
<1> QED BY <1>6, <1>7, <1>8 DEF Inv

\* A crash leaves any part of what the stream held in the file.
LEMMA CrashInv ==
  ASSUME Inv, Crash PROVE Inv'
<1>1. /\ buffer \in Bytes /\ file \in Bytes /\ store \in Lists
      /\ last_rewrite_size \in Nat /\ safe \in 0 .. Len(store) /\ torn \in BOOLEAN
      /\ ~torn => Decoded(file \o buffer) = Start(store)
      /\ ~torn => RestartExact
  BY DEF Inv, LogInv, Crash
<1>2. /\ pc' = "down" /\ buffer' = <<>> /\ safe' = safe /\ torn' = torn /\ store' = store
      /\ last_rewrite_size' = last_rewrite_size
      /\ \E k \in 0 .. Len(buffer) : file' = file \o SubSeq(buffer, 1, k)
  BY DEF Crash, Killed
<1>3. PICK k \in 0 .. Len(buffer) : file' = file \o SubSeq(buffer, 1, k)
  BY <1>2
<1> DEFINE kept == SubSeq(buffer, 1, k)
           lost == SubSeq(buffer, k + 1, Len(buffer))
<1>4. kept \in Bytes /\ lost \in Bytes /\ kept \o lost = buffer
  BY <1>1, Halves DEF Bytes
<1>5. file' = file \o kept
  BY <1>3
<1> HIDE DEF kept, lost
<1>6. file' \in Bytes /\ file' \o lost = file \o buffer
  <2>1. (file \o kept) \o lost = file \o (kept \o lost)
    BY <1>1, <1>4, Regrouped
  <2>2. file \o kept \in Bytes
    BY <1>1, <1>4, DecodedConcat
  <2> QED BY <1>4, <1>5, <2>1, <2>2
<1>7. ASSUME ~torn' PROVE RestartExact'
  <2> DEFINE f == file'
  <2>1. f \in Bytes /\ f \o lost = file \o buffer /\ f = file \o kept
    BY <1>5, <1>6
  <2>2. Decoded(file \o buffer) = Start(store) /\ RestartExact
    BY <1>1, <1>2, <1>7
  <2> HIDE DEF f
  <2>3. ~Decoded(f \o lost).thrown /\ Decoded(f \o lost).calls = store
    BY <2>1, <2>2 DEF Start
  <2>4. ~Decoded(f).thrown /\ IsPrefix(Decoded(f).calls, store)
    BY <1>4, <2>1, <2>3, DecodedPart
  <2>5. Len(Decoded(file).calls) <= Len(Decoded(f).calls)
    BY <1>1, <1>4, <2>1, <2>4, DecodedPart
  <2>6. Len(Decoded(file).calls) >= safe
    BY <2>2, RestartDecoded
  <2>7. Len(Decoded(file).calls) \in Nat /\ Len(Decoded(f).calls) \in Nat
    <3>1. Decoded(file).calls \in Lists /\ Decoded(f).calls \in Lists
      BY <1>1, <2>1, DecodedType, RunFields
    <3> QED BY <3>1, LenProperties DEF Lists
  <2>8. safe \in Int
    BY <1>1
  <2>9. Len(Decoded(f).calls) >= safe
    BY <2>5, <2>6, <2>7, <2>8
  <2> QED BY <1>2, <2>4, <2>9, RestartDecodedNext DEF f
<1>8. buffer' \in Bytes
  BY <1>2 DEF Bytes
<1>9. LogInv'
  BY <1>1, <1>2, <1>6, <1>7, <1>8 DEF LogInv
<1>10. ConnectionInv'
  BY HangupConnection DEF Crash, Killed
<1>11. Bounds'
  BY Numbers DEF Inv, Bounds, Crash, Killed
<1> QED BY <1>9, <1>10, <1>11 DEF Inv

\* A start leaves the connection alone, and the bounds.
LEMMA ReplayRest ==
  ASSUME Inv, replay_aof, LogInv' PROVE Inv'
<1>1. ConnectionInv'
  BY DEF Inv, ConnectionInv, HasReceived, replay_aof, clientVars
<1>2. Bounds'
  BY DEF Inv, Bounds, replay_aof, clientVars
<1> QED BY <1>1, <1>2 DEF Inv

\* A start: a log that was never cut in the middle of a command is executed; if
\* its end is half a command, the process knows it only until the next one.
LEMMA ReplayInv ==
  ASSUME Inv, replay_aof PROVE Inv'
<1> DEFINE run == Decoded(file)
<1>1. /\ buffer = <<>> /\ file \in Bytes /\ store \in Lists
      /\ last_rewrite_size \in Nat /\ safe \in 0 .. Len(store) /\ torn \in BOOLEAN
      /\ ~torn => RestartExact
  BY DEF Inv, LogInv, replay_aof
<1>2. Replayed(file) = run
  BY DEF Replayed, parse_and_execute, Decoded, Start
<1>3. run \in Runs(Characters) /\ Clean(run.p)
  BY <1>1, DecodedType
<1>4. CASE run.thrown
  <2>1. torn
    BY <1>1, <1>4, RestartDecoded
  <2>2. /\ pc' = "failed" /\ buffer' = buffer /\ file' = file /\ store' = store /\ torn' = torn
        /\ last_rewrite_size' = last_rewrite_size /\ safe' = safe
    BY <1>2, <1>4 DEF replay_aof, logVars
  <2>3. <<>> \in Bytes
    BY DEF Bytes
  <2> QED BY <1>1, <2>1, <2>2, <2>3, ReplayRest DEF LogInv
<1>5. CASE ~run.thrown
  <2> DEFINE s == run.calls
  <2>1. /\ pc' = "up" /\ store' = s /\ safe' = Len(s) /\ buffer' = <<>>
        /\ last_rewrite_size' = Len(file')
        /\ \/ file' = Records(s) /\ torn' = FALSE
           \/ file' = file /\ torn' = (run.p.state # "IDLE")
    BY <1>1, <1>2, <1>5 DEF replay_aof
  <2>2. s \in Lists
    BY <1>3, RunFields
  <2>3. file' \in Bytes /\ (~torn' => Decoded(file') = Start(s))
    <3>1. CASE file' = Records(s) /\ torn' = FALSE
      BY <2>2, <3>1, RecordsFacts, DecodedWritten
    <3>2. CASE file' = file /\ torn' = (run.p.state # "IDLE")
      <4>1. ASSUME ~torn' PROVE run = Start(s)
        <5>1. run.p = Fresh
          BY <1>3, <3>2, <4>1 DEF Clean
        <5>2. run.thrown = FALSE
          BY <1>3, <1>5, RunFields
        <5>3. run = [p |-> run.p, calls |-> s, thrown |-> run.thrown]
          BY <1>3, RunFields
        <5> QED BY <5>1, <5>2, <5>3 DEF Start
      <4> QED BY <1>1, <3>2, <4>1
    <3> QED BY <2>1, <3>1, <3>2
  <2> HIDE DEF s
  <2>4. buffer' \in Bytes /\ file' \o buffer' = file'
    BY <2>1, <2>3, ConcatEmptySeq, EmptySeq DEF Bytes
  <2>5. Len(s) \in Nat /\ safe' \in 0 .. Len(store') /\ last_rewrite_size' \in Nat
    <3>1. Len(s) \in Nat
      BY <2>2, LenProperties DEF Lists
    <3>2. Len(file') \in Nat
      BY <2>3, LenProperties DEF Bytes
    <3> QED BY <2>1, <3>1, <3>2
  <2>6. ASSUME ~torn' PROVE RestartExact'
    <3>1. ~Decoded(file').thrown /\ Decoded(file').calls = s /\ IsPrefix(s, s)
      BY <2>2, <2>3, <2>6, Restarts
    <3> QED BY <2>1, <2>5, <3>1, RestartDecodedNext
  <2>7. torn' \in BOOLEAN
    BY <2>1
  <2> QED BY <2>1, <2>2, <2>3, <2>4, <2>5, <2>6, <2>7, ReplayRest DEF LogInv
<1> QED BY <1>4, <1>5

\* The invariant is kept by every step.
LEMMA NextInv == Inv /\ [Next]_vars => Inv'
<1> SUFFICES ASSUME Inv, [Next]_vars PROVE Inv'
  OBVIOUS
<1>1. CASE UNCHANGED vars
  <2>1. /\ wire' = wire /\ parser' = parser /\ sent' = sent /\ executed' = executed
        /\ closed' = closed /\ buffer' = buffer /\ file' = file
        /\ last_rewrite_size' = last_rewrite_size /\ safe' = safe /\ torn' = torn
        /\ pc' = pc /\ commands' = commands /\ crashes' = crashes /\ store' = store
    BY <1>1 DEF vars, clientVars, logVars
  <2>2. ConnectionInv'
    BY <2>1 DEF Inv, ConnectionInv, HasReceived
  <2>3. LogInv'
    BY <2>1 DEF Inv, LogInv, RestartExact
  <2>4. Bounds'
    BY <2>1 DEF Inv, Bounds
  <2> QED BY <2>2, <2>3, <2>4 DEF Inv
<1>2. ASSUME NEW c \in Commands, ClientSends(c) PROVE Inv'
  BY <1>2, ClientSendsInv
<1>3. ASSUME NEW n \in 1 .. Len(wire), Recv(n) PROVE Inv'
  BY <1>3, RecvInv
<1>4. CASE Disconnect
  BY <1>4, DisconnectInv
<1>5. CASE flush_aof
  BY <1>5, FlushInv
<1>6. CASE Crash
  BY <1>6, CrashInv
<1>7. CASE replay_aof
  BY <1>7, ReplayInv
<1> QED BY <1>1, <1>2, <1>3, <1>4, <1>5, <1>6, <1>7 DEF Next

\* The invariant holds in every state.
LEMMA Invariance == Spec => []Inv
<1>1. Init => Inv
  BY InitInv
<1>2. Inv /\ [Next]_vars => Inv'
  BY NextInv
<1> QED BY <1>1, <1>2, PTL DEF Spec

(***************************************************************************)
(* The theorems.                                                           *)
(***************************************************************************)

\* What has been received, by the number of complete records in it.
LEMMA Arrived ==
  ASSUME ConnectionInv
  PROVE  \E i \in Nat, j \in 0 .. Len(sent) :
           /\ Len(sent) \in Nat /\ Len(wire) \in Nat
           /\ Length(sent, Len(sent)) - Len(wire) = i
           /\ \A m \in 0 .. Len(sent) : Length(sent, m) <= i <=> m <= j
           /\ Steady([p |-> parser, calls |-> executed, thrown |-> FALSE], SubSeq(sent, 1, j))
           /\ i = Length(sent, j) => parser = Fresh
<1>1. PICK rcv \in Bytes : HasReceived(rcv)
  BY DEF ConnectionInv
<1>2. wire \in Bytes /\ sent \in Lists /\ rcv \o wire = Records(sent)
  BY <1>1 DEF ConnectionInv, HasReceived
<1> DEFINE i == Len(rcv)
<1>3. /\ i \in Nat /\ Len(Records(sent)) = i + Len(wire)
      /\ SubSeq(Records(sent), 1, i) = rcv
      /\ \E j \in 0 .. Len(sent) : PrefixRead(sent, i, j)
  BY <1>2, Received
<1>4. PICK j \in 0 .. Len(sent) : PrefixRead(sent, i, j)
  BY <1>3
<1>5. Len(wire) \in Nat /\ Len(sent) \in Nat /\ SubSeq(sent, 1, Len(sent)) = sent
  BY <1>2, LenProperties, SubSeqFull DEF Bytes, Lists
<1> HIDE DEF i
<1>6. Length(sent, Len(sent)) - Len(wire) = i
  <2> DEFINE l == Len(Records(sent))
             w == Len(wire)
  <2>1. l = i + w /\ w \in Nat /\ i \in Nat
    BY <1>3, <1>5
  <2>2. Length(sent, Len(sent)) = l
    BY <1>5 DEF Length
  <2> HIDE DEF l, w
  <2>3. l - w = i
    BY <2>1
  <2> QED BY <2>2, <2>3 DEF w
<1> DEFINE r == [p |-> parser, calls |-> executed, thrown |-> FALSE]
<1>7. Decoded(SubSeq(Records(sent), 1, i)) = r
  BY <1>1, <1>3 DEF HasReceived
<1>8. Steady(r, SubSeq(sent, 1, j))
  BY <1>4, <1>7 DEF PrefixRead
<1>9. \A m \in 0 .. Len(sent) : Length(sent, m) <= i <=> m <= j
  BY <1>4 DEF PrefixRead
<1>10. i = Length(sent, j) => parser = Fresh
  <2>1. ASSUME i = Length(sent, j) PROVE parser = Fresh
    <3>1. r = Start(SubSeq(sent, 1, j))
      BY <2>1, <1>4, <1>7 DEF PrefixRead
    <3>2. r.p = parser /\ Start(SubSeq(sent, 1, j)).p = Fresh
      BY DEF Start
    <3> QED BY <3>1, <3>2
  <2> QED BY <2>1
<1> QED BY <1>3, <1>5, <1>6, <1>8, <1>9, <1>10

\* The connection, for every set of commands, every base of the numerals and every
\* size of the receive buffer: however TCP and recv cut the stream, after any number
\* of connections, exactly the commands that have arrived completely are executed,
\* and between two commands the parser of parser_resp.cpp is as new.
THEOREM ArrivedIsExecuted == Spec => []ExecutesWhatArrived
<1>1. ASSUME Inv PROVE ExecutesWhatArrived
  <2>1. PICK i \in Nat, j \in 0 .. Len(sent) :
           /\ Len(sent) \in Nat /\ Len(wire) \in Nat
           /\ Length(sent, Len(sent)) - Len(wire) = i
           /\ \A m \in 0 .. Len(sent) : Length(sent, m) <= i <=> m <= j
           /\ Steady([p |-> parser, calls |-> executed, thrown |-> FALSE], SubSeq(sent, 1, j))
           /\ i = Length(sent, j) => parser = Fresh
    BY <1>1, Arrived DEF Inv
  <2>2. executed = SubSeq(sent, 1, j)
    BY <2>1 DEF Steady
  <2> DEFINE J == {m \in 0 .. Len(sent) : Length(sent, m) <= i}
  <2>3. Max(J) = j
    <3>1. j \in J /\ \A m \in J : j >= m
      BY <2>1
    <3>2. J \subseteq Int
      OBVIOUS
    <3> HIDE DEF J
    <3>3. Max(J) \in J /\ \A m \in J : Max(J) >= m
      BY <3>1 DEF Max
    <3> DEFINE x == Max(J)
    <3>4. x \in Int /\ j \in Int /\ x >= j /\ j >= x
      BY <3>1, <3>2, <3>3
    <3> HIDE DEF x
    <3>5. x = j
      BY <3>4
    <3> QED BY <3>5 DEF x
  <2>4. Max({m \in 0 .. Len(sent) : Len(Records(SubSeq(sent, 1, m))) <=
                Len(Records(SubSeq(sent, 1, Len(sent)))) - Len(wire)}) = j
    BY <2>1, <2>3 DEF Length
  <2>5. Len(Records(SubSeq(sent, 1, Len(sent)))) - Len(wire) = i
    BY <2>1 DEF Length
  <2>6. i = Len(Records(SubSeq(sent, 1, j))) => parser = Fresh
    BY <2>1 DEF Length
  <2> QED BY <2>2, <2>4, <2>5, <2>6 DEF ExecutesWhatArrived
<1> QED BY <1>1, Invariance, PTL

\* The log, however often it is flushed, written anew, cut by a crash and replayed:
\* while a process that did not start on half a command runs, what append_to_aof and
\* rewrite_aof have written decodes to exactly the commands executed.
THEOREM LogIsDecoded == Spec => []LogDecodes
<1>1. ASSUME Inv PROVE LogDecodes
  <2>1. ASSUME pc = "up", ~torn
        PROVE  Replayed(file \o buffer).p = Fresh /\ Replayed(file \o buffer).calls = store
    <3>1. Decoded(file \o buffer) = Start(store)
      BY <1>1, <2>1 DEF Inv, LogInv
    <3>2. Replayed(file \o buffer) = Decoded(file \o buffer)
      BY DEF Replayed, parse_and_execute, Decoded, Start
    <3> QED BY <3>1, <3>2 DEF Start
  <2> QED BY <2>1 DEF LogDecodes
<1> QED BY <1>1, Invariance, PTL

\* A crash at any character of the log: unless the process started on half a command,
\* replay_aof executes what was flushed, in its order, and no half a command.
THEOREM TornTailHarmless == Spec => []TornTailIgnored
<1>1. ASSUME Inv PROVE TornTailIgnored
  BY <1>1 DEF Inv, LogInv, TornTailIgnored
<1> QED BY <1>1, Invariance, PTL

\* The types of the variables of Streams, and that a parser that collects arguments
\* never has all of them already: Len(args) = array_count is where it calls.
THEOREM StreamsTypeCorrect == Spec => []TypeOK
<1>1. ASSUME Inv PROVE TypeOK
  <2>1. ASSUME NEW s \in Bytes PROVE Range(s) \subseteq Characters
    BY ElementOfSeq, LenProperties DEF Bytes, Range
  <2>2. Range(wire) \cup Range(buffer) \cup Range(file) \subseteq Characters
    BY <1>1, <2>1 DEF Inv, ConnectionInv, LogInv
  <2>3. PICK rcv \in Bytes : HasReceived(rcv)
    BY <1>1 DEF Inv, ConnectionInv
  <2> DEFINE r == [p |-> parser, calls |-> executed, thrown |-> FALSE]
  <2>4. parser.state \in {"IDLE", "READING_ARRAY_SIZE", "READING_BULK_SIZE", "READING_DATA"}
    <3>1. r \in Runs(Characters)
      BY <2>3, DecodedType DEF HasReceived
    <3>2. r.p = parser
      OBVIOUS
    <3>3. parser \in Parsers(Characters)
      BY <3>1, <3>2, RunFields
    <3> QED BY <3>3 DEF Parsers, States
  <2>5. parser.state \in {"READING_BULK_SIZE", "READING_DATA"} =>
          Len(parser.args) < parser.array_count
    <3>1. PICK j : Steady(r, SubSeq(sent, 1, j))
      BY <1>1, Arrived DEF Inv
    <3> QED BY <3>1 DEF Steady
  <2>6. /\ last_rewrite_size \in Nat /\ safe \in 0 .. Len(store) /\ torn \in BOOLEAN
        /\ pc \in {"up", "down", "failed"}
    BY <1>1 DEF Inv, LogInv
  <2>7. /\ commands \in 0 .. MaxCommands /\ crashes \in 0 .. MaxCrashes
        /\ closed \in 0 .. MaxClients
    BY <1>1 DEF Inv, Bounds
  <2> QED BY <2>2, <2>4, <2>5, <2>6, <2>7 DEF TypeOK
<1> QED BY <1>1, Invariance, PTL

=============================================================================
