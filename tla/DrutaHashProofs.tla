-------------------------- MODULE DrutaHashProofs --------------------------
(***************************************************************************)
(* Proofs about module DrutaHash: for every set of fields and values,      *)
(* every length of them and every DRUTA_MAX_KEY, the hash holds what was   *)
(* put into it, the replies count what changed, and the memory accounting  *)
(* is exact as long as no string is long.                                  *)
(***************************************************************************)
EXTENDS DrutaHash, Induction

Slots == [field : Field, fcap : Nat, value : Value, vcap : Nat]

Hashes == [type : {"VECTOR", "MAP"}, slots : Seq(Slots), memory_usage : 0 .. SizeT - 1]

\* No field has two slots, and a vector is not too long.
Sound(h) ==
  /\ h \in Hashes
  /\ \A i, j \in DOMAIN h.slots : h.slots[i].field = h.slots[j].field => i = j
  /\ h.type = "VECTOR" => Len(h.slots) <= DRUTA_MAX_KEY

\* Field x has value y.
Maps(h, x, y) == \E i \in 1 .. Len(h.slots) : h.slots[i].field = x /\ h.slots[i].value = y

\* What a slot of short strings occupies.
SlotSize(type) == SSO + SSO + EntryOverhead(type)

ShortSlot(s) == s.fcap = SSO /\ s.vcap = SSO /\ length[s.field] <= SSO

\* All the strings are short, and the counter is exact.
Short(h) ==
  /\ \A i \in DOMAIN h.slots : ShortSlot(h.slots[i])
  /\ h.memory_usage = Len(h.slots) * SlotSize(h.type)

\* The constants are numbers.
LEMMA Numbers ==
  /\ SSO \in Nat \ {0} /\ DRUTA_MAX_KEY \in Nat \ {0} /\ STRING_OBJ_OVERHEAD \in Nat \ {0}
  /\ MAP_NODE_OVERHEAD \in Nat \ {0} /\ NodeSize \in Nat \ {0} /\ OtherKeys \in Nat \ {0}
  /\ SizeT \in Nat \ {0} /\ MaxPairs \in Nat \ {0} /\ MaxCommands \in Nat \ {0}
BY HashAssumption

\* Sizes are numbers, and a slot of the map is larger than one of the vector.
LEMMA Sizes ==
  /\ SlotSize("MAP") \in Nat \ {0} /\ SlotSize("VECTOR") \in Nat \ {0}
  /\ SlotSize("MAP") = SlotSize("VECTOR") + MAP_NODE_OVERHEAD
  /\ \A type \in {"VECTOR", "MAP"} : EntryOverhead(type) \in Nat
BY Numbers DEF SlotSize, EntryOverhead, HASH_ENTRY_OVERHEAD_MAP, HASH_ENTRY_OVERHEAD_VECTOR

\* A wrapped number is a size_t.
LEMMA WrapType == ASSUME NEW n \in Int PROVE Wrap(n) \in 0 .. SizeT - 1
BY Numbers DEF Wrap

\* A size_t is not changed by wrapping.
LEMMA WrapSmall == ASSUME NEW n \in 0 .. SizeT - 1 PROVE Wrap(n) = n
BY Numbers DEF Wrap

\* Capacities are numbers, and that of a short string is SSO.
LEMMA CapTypes ==
  /\ \A s \in Field \cup Value : /\ Fresh(s) \in Nat
                                 /\ \A cap \in Nat : Assigned(cap, s) \in Nat
                                 /\ length[s] <= SSO => Fresh(s) = SSO /\ Assigned(SSO, s) = SSO
<1>1. \A s \in Field \cup Value : length[s] \in Nat
  BY HashAssumption
<1> QED BY <1>1, Numbers DEF Fresh, Assigned

\* A sound hash by its parts.
LEMMA HashFields ==
  ASSUME NEW h, Sound(h)
  PROVE  /\ h = [type |-> h.type, slots |-> h.slots, memory_usage |-> h.memory_usage]
         /\ h.type \in {"VECTOR", "MAP"} /\ h.slots \in Seq(Slots)
         /\ h.memory_usage \in 0 .. SizeT - 1 /\ h.memory_usage \in Nat
         /\ Len(h.slots) \in Nat /\ DOMAIN h.slots = 1 .. Len(h.slots)
         /\ h.slots = [i \in 1 .. Len(h.slots) |-> h.slots[i]]
         /\ \A i \in 1 .. Len(h.slots) :
              /\ h.slots[i] \in Slots
              /\ h.slots[i].field \in Field /\ h.slots[i].value \in Value
              /\ h.slots[i].fcap \in Nat /\ h.slots[i].vcap \in Nat
         /\ \A i, j \in 1 .. Len(h.slots) : h.slots[i].field = h.slots[j].field => i = j
<1>1. h \in Hashes
  BY DEF Sound
<1>2. /\ h = [type |-> h.type, slots |-> h.slots, memory_usage |-> h.memory_usage]
      /\ h.type \in {"VECTOR", "MAP"} /\ h.slots \in Seq(Slots)
      /\ h.memory_usage \in 0 .. SizeT - 1
  BY <1>1 DEF Hashes
<1>3. h.memory_usage \in Nat
  BY <1>2, Numbers
<1>4. Len(h.slots) \in Nat /\ DOMAIN h.slots = 1 .. Len(h.slots)
  BY <1>2, LenProperties
<1>5. h.slots = [i \in 1 .. Len(h.slots) |-> h.slots[i]]
  BY <1>2, LenProperties
<1>6. \A i \in 1 .. Len(h.slots) : h.slots[i] \in Slots
  BY <1>2, ElementOfSeq
<1> QED BY <1>2, <1>3, <1>4, <1>5, <1>6 DEF Sound, Slots

\* The position of a field is its only one.
LEMMA PositionFacts ==
  ASSUME NEW h, Sound(h), NEW f
  PROVE  LET i == Position(h, f)
         IN /\ i \in 0 .. Len(h.slots)
            /\ i > 0 => h.slots[i].field = f
            /\ i = 0 => \A j \in 1 .. Len(h.slots) : h.slots[j].field # f
            /\ \A j \in 1 .. Len(h.slots) : h.slots[j].field = f => j = i
<1> DEFINE I == {i \in 1 .. Len(h.slots) : h.slots[i].field = f}
<1>1. Position(h, f) = IF I # {} THEN Min(I) ELSE 0
  BY DEF Position, SelectInSeq
<1>2. Len(h.slots) \in Nat /\ \A i, j \in 1 .. Len(h.slots) : h.slots[i].field = h.slots[j].field => i = j
  BY HashFields
<1>3. CASE I = {}
  BY <1>1, <1>2, <1>3
<1>4. CASE I # {}
  <2>1. I \in SUBSET Nat
    BY <1>2
  <2> DEFINE m == Min(I)
  <2>2. m \in I
    <3> HIDE DEF I
    <3> QED BY <1>4, <2>1, MinProperties
  <2> HIDE DEF m
  <2>3. Position(h, f) = m /\ m \in 1 .. Len(h.slots) /\ h.slots[m].field = f /\ m > 0
    BY <1>1, <1>4, <2>2 DEF m
  <2> QED BY <1>2, <2>3
<1> QED BY <1>3, <1>4

\* A sound hash from its parts.
LEMMA Built ==
  ASSUME NEW type \in {"VECTOR", "MAP"}, NEW s \in Seq(Slots), NEW m \in 0 .. SizeT - 1,
         \A i, j \in 1 .. Len(s) : s[i].field = s[j].field => i = j,
         type = "VECTOR" => Len(s) <= DRUTA_MAX_KEY,
         NEW g, g = [type |-> type, slots |-> s, memory_usage |-> m]
  PROVE  Sound(g) /\ g.type = type /\ g.slots = s /\ g.memory_usage = m
<1>1. g.type = type /\ g.slots = s /\ g.memory_usage = m
  OBVIOUS
<1>2. g \in Hashes
  BY DEF Hashes
<1>3. DOMAIN s = 1 .. Len(s)
  BY LenProperties
<1> QED BY <1>1, <1>2, <1>3 DEF Sound

\* The forms of update in the code.
LEMMA SlotUpdate ==
  ASSUME NEW r \in Slots, NEW v, NEW c, NEW x, x = [r EXCEPT !.value = v, !.vcap = c]
  PROVE  x = [field |-> r.field, fcap |-> r.fcap, value |-> v, vcap |-> c]
BY DEF Slots

\* The same for a hash.
LEMMA HashUpdate ==
  ASSUME NEW h \in Hashes, NEW s, NEW m, NEW x, x = [h EXCEPT !.slots = s, !.memory_usage = m]
  PROVE  x = [type |-> h.type, slots |-> s, memory_usage |-> m]
BY DEF Hashes

\* What set_hash promises: g is h with v at f.
IsSet(h, f, v, g) ==
  /\ Sound(g)
  /\ \A x, y : Maps(g, x, y) <=> IF x = f THEN y = v ELSE Maps(h, x, y)
  /\ Len(g.slots) = IF Position(h, f) = 0 THEN Len(h.slots) + 1 ELSE Len(h.slots)
  /\ Short(h) /\ length[f] <= SSO /\ length[v] <= SSO
       /\ Len(g.slots) * SlotSize("MAP") < SizeT => Short(g)

\* Overwriting a value.
LEMMA OverwriteSets ==
  ASSUME NEW h, Sound(h), NEW f \in Field, NEW v \in Value, Position(h, f) > 0
  PROVE  IsSet(h, f, v, Overwrite(h, Position(h, f), v))
<1> DEFINE i == Position(h, f)
           n == Len(h.slots)
           old == h.slots[i]
           cap == Assigned(old.vcap, v)
           m == Wrap(h.memory_usage - old.vcap + cap)
           g == Overwrite(h, i, v)
           new == [field |-> f, fcap |-> old.fcap, value |-> v, vcap |-> cap]
           s == [h.slots EXCEPT ![i] = new]
<1>1. i \in 1 .. n /\ old.field = f /\ \A j \in 1 .. n : h.slots[j].field = f => j = i
  BY PositionFacts
<1>2. /\ h = [type |-> h.type, slots |-> h.slots, memory_usage |-> h.memory_usage]
      /\ h.type \in {"VECTOR", "MAP"} /\ h.slots \in Seq(Slots) /\ n \in Nat
      /\ h.memory_usage \in Nat /\ old \in Slots /\ old.vcap \in Nat /\ old.fcap \in Nat
      /\ \A k, j \in 1 .. n : h.slots[k].field = h.slots[j].field => k = j
  BY <1>1, HashFields
<1>3. cap \in Nat /\ m \in 0 .. SizeT - 1 /\ new \in Slots
  <2>1. cap \in Nat
    BY <1>2, CapTypes
  <2>2. h.memory_usage - old.vcap + cap \in Int
    BY <1>2, <2>1
  <2> QED BY <1>2, <2>1, <2>2, WrapType DEF Slots
<1>4. g = [type |-> h.type, slots |-> s, memory_usage |-> m]
  <2> DEFINE x == [old EXCEPT !.value = v, !.vcap = cap]
  <2>1. x = new
    <3> HIDE DEF x, cap, old
    <3>1. x = [field |-> old.field, fcap |-> old.fcap, value |-> v, vcap |-> cap]
      BY <1>2, SlotUpdate DEF x
    <3> QED BY <1>1, <3>1
  <2>2. g = [h EXCEPT !.slots = [h.slots EXCEPT ![i] = x], !.memory_usage = m]
    BY DEF Overwrite
  <2>3. g = [h EXCEPT !.slots = s, !.memory_usage = m]
    <3> HIDE DEF x, new, g, m
    <3> QED BY <2>1, <2>2
  <2>4. h \in Hashes
    BY DEF Sound
  <2> HIDE DEF s, g, m
  <2> QED BY <2>3, <2>4, HashUpdate
<1>5. /\ s \in Seq(Slots) /\ Len(s) = n
      /\ \A j \in 1 .. n : s[j] = IF j = i THEN new ELSE h.slots[j]
  BY <1>1, <1>2, <1>3, ExceptSeq
<1> HIDE DEF cap, m, old, i, g
<1>6. \A j \in 1 .. n : s[j].field = h.slots[j].field
  BY <1>1, <1>5 DEF old
<1> HIDE DEF s, new
<1>7. Sound(g) /\ g.type = h.type /\ g.slots = s /\ g.memory_usage = m
  <2>1. h.type = "VECTOR" => Len(s) <= DRUTA_MAX_KEY
    BY <1>5 DEF Sound
  <2>2. \A k, j \in 1 .. Len(s) : s[k].field = s[j].field => k = j
    BY <1>2, <1>5, <1>6
  <2> QED BY <1>2, <1>3, <1>4, <1>5, <2>1, <2>2, Built
<1>8. ASSUME NEW x, NEW y PROVE Maps(g, x, y) <=> IF x = f THEN y = v ELSE Maps(h, x, y)
  <2>1. \A j \in 1 .. n : s[j].value = IF j = i THEN v ELSE h.slots[j].value
    BY <1>5 DEF new
  <2>2. CASE x = f
    BY <2>1, <2>2, <1>1, <1>5, <1>6, <1>7 DEF Maps, old
  <2>3. CASE x # f
    BY <2>1, <2>3, <1>1, <1>5, <1>6, <1>7 DEF Maps, old
  <2> QED BY <2>2, <2>3
<1>9. ASSUME Short(h), length[v] <= SSO PROVE Short(g)
  <2>1. old.vcap = SSO /\ old.fcap = SSO
    BY <1>1, <1>2, <1>9, HashFields DEF Short, ShortSlot, old
  <2>2. cap = SSO
    BY <1>9, <2>1, CapTypes DEF cap
  <2>3. m = h.memory_usage
    <3> DEFINE u == h.memory_usage
    <3>1. u \in 0 .. SizeT - 1 /\ SSO \in Nat
      BY HashFields, Numbers
    <3> HIDE DEF u
    <3>2. u - SSO + SSO = u
      BY <3>1, Numbers
    <3>3. m = Wrap(u - SSO + SSO)
      BY <2>1, <2>2 DEF m, u
    <3> QED BY <3>1, <3>2, <3>3, WrapSmall DEF u
  <2>4. \A j \in 1 .. n : ShortSlot(s[j])
    <3>1. \A j \in 1 .. n : ShortSlot(h.slots[j])
      BY <1>9, HashFields DEF Short
    <3> QED BY <3>1, <2>1, <2>2, <1>5, <1>6 DEF new, ShortSlot
  <2>5. h.memory_usage = n * SlotSize(h.type)
    BY <1>9 DEF Short
  <2>6. DOMAIN g.slots = 1 .. n
    BY <1>5, <1>7, LenProperties
  <2> QED BY <1>5, <1>7, <2>3, <2>4, <2>5, <2>6 DEF Short
<1>10. Len(g.slots) = n /\ i # 0
  BY <1>1, <1>5, <1>7
<1> QED BY <1>7, <1>8, <1>9, <1>10 DEF IsSet, i, g

\* Products.
LEMMA Products ==
  ASSUME NEW n \in Nat, NEW a \in Nat, NEW b \in Nat
  PROVE  /\ n * a \in Nat /\ n * (a + b) = n * a + n * b /\ (n + 1) * a = n * a + a
         /\ a <= b => n * a <= n * b
         /\ \A k \in Nat : k <= n => k * a <= n * a
<1>1. n * a \in Nat /\ n * (a + b) = n * a + n * b /\ (n + 1) * a = n * a + a
  OBVIOUS
<1>2. ASSUME a <= b PROVE n * a <= n * b
  <2>1. b - a \in Nat /\ b = a + (b - a)
    BY <1>2
  <2>2. n * b = n * a + n * (b - a) /\ n * (b - a) \in Nat
    BY <2>1
  <2> QED BY <2>2
<1>3. ASSUME NEW k \in Nat, k <= n PROVE k * a <= n * a
  <2>1. n - k \in Nat /\ n = k + (n - k)
    BY <1>3
  <2>2. n * a = k * a + (n - k) * a /\ (n - k) * a \in Nat
    BY <2>1
  <2> QED BY <2>2
<1> QED BY <1>1, <1>2, <1>3

\* A slot whose field is copied, as convert_to_map does.
LEMMA Recapped ==
  ASSUME NEW r \in Slots, NEW c \in Nat, NEW x, x = [r EXCEPT !.fcap = c]
  PROVE  /\ x \in Slots /\ x.field = r.field /\ x.value = r.value
         /\ x.fcap = c /\ x.vcap = r.vcap
BY DEF Slots

\* A new field.
LEMMA InsertSets ==
  ASSUME NEW h, Sound(h), NEW f \in Field, NEW v \in Value, Position(h, f) = 0
  PROVE  IsSet(h, f, v, Insert(h, f, v))
<1> DEFINE n == Len(h.slots)
           vcap == IF h.type = "MAP" THEN Assigned(SSO, v) ELSE Fresh(v)
           slot == [field |-> f, fcap |-> Fresh(f), value |-> v, vcap |-> vcap]
           s == Append(h.slots, slot)
           m == Wrap(h.memory_usage + Fresh(f) + Fresh(v) + EntryOverhead(h.type))
           l == [h EXCEPT !.slots = s, !.memory_usage = m]
           g == Insert(h, f, v)
<1>1. \A j \in 1 .. n : h.slots[j].field # f
  BY PositionFacts
<1>2. /\ h \in Hashes /\ h.type \in {"VECTOR", "MAP"} /\ h.slots \in Seq(Slots) /\ n \in Nat
      /\ h.memory_usage \in Nat
      /\ \A k, j \in 1 .. n : h.slots[k].field = h.slots[j].field => k = j
      /\ \A k \in 1 .. n : h.slots[k] \in Slots
  BY HashFields DEF Sound
<1>3. /\ Fresh(f) \in Nat /\ Fresh(v) \in Nat /\ vcap \in Nat /\ EntryOverhead(h.type) \in Nat
      /\ slot \in Slots
  <2>1. Fresh(f) \in Nat /\ Fresh(v) \in Nat /\ vcap \in Nat
    BY Numbers, CapTypes
  <2>2. EntryOverhead(h.type) \in Nat
    BY <1>2, Sizes
  <2> HIDE DEF vcap
  <2> QED BY <2>1, <2>2 DEF Slots
<1>4. m \in 0 .. SizeT - 1
  <2>1. h.memory_usage + Fresh(f) + Fresh(v) + EntryOverhead(h.type) \in Int
    BY <1>2, <1>3
  <2> QED BY <2>1, WrapType
<1>5. g = IF h.type = "VECTOR" /\ Len(l.slots) > DRUTA_MAX_KEY THEN convert_to_map(l) ELSE l
  BY DEF Insert
<1> HIDE DEF g, slot
<1>6. /\ s \in Seq(Slots) /\ Len(s) = n + 1 /\ s[n + 1] = slot
      /\ \A j \in 1 .. n : s[j] = h.slots[j]
  BY <1>2, <1>3, AppendProperties
<1>7. slot.field = f /\ slot.value = v /\ slot.fcap = Fresh(f) /\ slot.vcap = vcap
  BY DEF slot
<1> HIDE DEF s, m
<1>8. /\ l = [type |-> h.type, slots |-> s, memory_usage |-> m]
      /\ l.type = h.type /\ l.slots = s /\ l.memory_usage = m
  <2> HIDE DEF l
  <2>1. l = [type |-> h.type, slots |-> s, memory_usage |-> m]
    BY <1>2, HashUpdate DEF l
  <2> QED BY <2>1
<1> HIDE DEF l
\* What holds of every hash with these fields and values.
<1>9. ASSUME NEW t \in Seq(Slots), Len(t) = n + 1,
             \A j \in 1 .. n + 1 : t[j].field = s[j].field /\ t[j].value = s[j].value,
             NEW x, x.slots = t
      PROVE  /\ \A k, j \in 1 .. Len(t) : t[k].field = t[j].field => k = j
             /\ \A a, b : Maps(x, a, b) <=> IF a = f THEN b = v ELSE Maps(h, a, b)
  <2>1. \A j \in 1 .. n + 1 : j \in 1 .. n \/ j = n + 1
    BY <1>2
  <2>2. n + 1 \in 1 .. n + 1 /\ \A j \in 1 .. n : j \in 1 .. n + 1 /\ j # n + 1
    BY <1>2
  <2>3. \A j \in 1 .. n + 1 :
           /\ t[j].field = IF j = n + 1 THEN f ELSE h.slots[j].field
           /\ t[j].value = IF j = n + 1 THEN v ELSE h.slots[j].value
    BY <1>6, <1>7, <1>9, <2>1
  <2>4. \A k, j \in 1 .. Len(t) : t[k].field = t[j].field => k = j
    BY <1>1, <1>2, <1>9, <2>1, <2>3
  <2>5. ASSUME NEW a, NEW b PROVE Maps(x, a, b) <=> IF a = f THEN b = v ELSE Maps(h, a, b)
    <3>1. Maps(x, a, b) <=> \E j \in 1 .. n + 1 : t[j].field = a /\ t[j].value = b
      BY <1>9 DEF Maps
    <3>2. Maps(h, a, b) <=> \E j \in 1 .. n : h.slots[j].field = a /\ h.slots[j].value = b
      BY DEF Maps
    <3>3. CASE a = f
      BY <3>1, <3>3, <2>1, <2>2, <2>3, <1>1
    <3>4. CASE a # f
      BY <3>1, <3>2, <3>4, <2>1, <2>2, <2>3
    <3> QED BY <3>3, <3>4
  <2> QED BY <2>4, <2>5
\* The counter before a conversion.
<1>10. ASSUME Short(h), length[f] <= SSO, length[v] <= SSO, (n + 1) * SlotSize("MAP") < SizeT
       PROVE  /\ m = (n + 1) * SlotSize(h.type)
              /\ \A j \in 1 .. n + 1 : ShortSlot(s[j])
  <2> DEFINE z == SlotSize(h.type)
             y == SlotSize("MAP")
  <2>1. z \in Nat /\ y \in Nat /\ z <= y
    BY <1>2, Sizes, Numbers
  <2>2. Fresh(f) = SSO /\ Fresh(v) = SSO /\ vcap = SSO
    BY <1>10, CapTypes
  <2>3. z = SSO + SSO + EntryOverhead(h.type) /\ h.memory_usage = n * z
    BY <1>10 DEF SlotSize, Short
  <2>4. h.memory_usage + Fresh(f) + Fresh(v) + EntryOverhead(h.type) = h.memory_usage + z
    <3> DEFINE u == h.memory_usage
               e == EntryOverhead(h.type)
    <3>1. u \in Nat /\ e \in Nat /\ SSO \in Nat
      BY <1>2, <1>3, Numbers
    <3> HIDE DEF u, e
    <3>2. u + SSO + SSO + e = u + (SSO + SSO + e)
      BY <3>1
    <3> QED BY <2>2, <2>3, <3>2 DEF u, e
  <2> HIDE DEF z, y
  <2>5. n * z + z = (n + 1) * z /\ (n + 1) * z <= (n + 1) * y /\ (n + 1) * z \in Nat
        /\ (n + 1) * y \in Nat
    <3>1. n + 1 \in Nat
      BY <1>2
    <3> QED BY <1>2, <2>1, <3>1, Products
  <2>6. (n + 1) * y < SizeT
    BY <1>10 DEF y
  <2>7. n * z + z \in 0 .. SizeT - 1
    BY <2>5, <2>6, Numbers
  <2>8. m = (n + 1) * z
    BY <2>3, <2>4, <2>5, <2>7, WrapSmall DEF m
  <2>9. \A j \in 1 .. n : ShortSlot(h.slots[j])
    BY <1>10, HashFields DEF Short
  <2>10. \A j \in 1 .. n + 1 : j \in 1 .. n \/ j = n + 1
    BY <1>2
  <2>11. ShortSlot(slot)
    BY <1>7, <1>10, <2>2 DEF ShortSlot
  <2>12. \A j \in 1 .. n + 1 : ShortSlot(s[j])
    BY <1>6, <2>9, <2>10, <2>11
  <2> QED BY <2>8, <2>12 DEF z
<1> HIDE DEF vcap
<1>11. CASE ~(h.type = "VECTOR" /\ n + 1 > DRUTA_MAX_KEY)
  <2>1. g = l
    BY <1>5, <1>6, <1>8, <1>11
  <2>2. h.type = "VECTOR" => Len(s) <= DRUTA_MAX_KEY
    BY <1>2, <1>6, <1>11, Numbers
  <2>3. /\ \A k, j \in 1 .. Len(s) : s[k].field = s[j].field => k = j
        /\ \A a, b : Maps(l, a, b) <=> IF a = f THEN b = v ELSE Maps(h, a, b)
    BY <1>6, <1>8, <1>9
  <2>4. Sound(l)
    BY <1>2, <1>4, <1>6, <1>8, <2>2, <2>3, Built
  <2>5. ASSUME Short(h), length[f] <= SSO, length[v] <= SSO, (n + 1) * SlotSize("MAP") < SizeT
        PROVE  Short(l)
    <3>1. DOMAIN s = 1 .. n + 1
      BY <1>6, LenProperties
    <3> QED BY <1>6, <1>8, <1>10, <2>5, <3>1 DEF Short
  <2> QED BY <1>6, <1>8, <2>1, <2>3, <2>4, <2>5 DEF IsSet, g
<1>12. CASE h.type = "VECTOR" /\ n + 1 > DRUTA_MAX_KEY
  <2> DEFINE t == [j \in 1 .. n + 1 |-> [s[j] EXCEPT !.fcap = Fresh(s[j].field)]]
             w == Wrap(m + (n + 1) * MAP_NODE_OVERHEAD)
  <2>1. g = [type |-> "MAP", slots |-> t, memory_usage |-> w]
    <3>1. g = convert_to_map(l)
      BY <1>5, <1>6, <1>8, <1>12
    <3>2. DOMAIN s = 1 .. n + 1
      BY <1>6, LenProperties
    <3> QED BY <1>6, <1>8, <3>1, <3>2 DEF convert_to_map
  <2>2. ASSUME NEW j \in 1 .. n + 1
        PROVE  /\ t[j] \in Slots /\ t[j].field = s[j].field /\ t[j].value = s[j].value
               /\ t[j].fcap = Fresh(s[j].field) /\ t[j].vcap = s[j].vcap
    <3> DEFINE r == s[j]
               c == Fresh(s[j].field)
    <3>1. r \in Slots
      BY <1>6, ElementOfSeq
    <3>2. r.field \in Field
      BY <3>1 DEF Slots
    <3>3. c \in Nat
      BY <3>2, CapTypes
    <3>4. t[j] = [r EXCEPT !.fcap = c]
      OBVIOUS
    <3> HIDE DEF r, c, t
    <3>5. t[j] \in Slots /\ t[j].field = r.field /\ t[j].value = r.value /\ t[j].fcap = c /\ t[j].vcap = r.vcap
      BY <3>1, <3>3, <3>4, Recapped
    <3> QED BY <3>5 DEF r, c
  <2>3. t \in Seq(Slots) /\ Len(t) = n + 1
    <3>1. n + 1 \in Nat /\ t \in [1 .. n + 1 -> Slots]
      <4>1. t = [j \in 1 .. n + 1 |-> t[j]]
        OBVIOUS
      <4>2. \A j \in 1 .. n + 1 : t[j] \in Slots
        BY <2>2
      <4>3. n + 1 \in Nat
        BY <1>2
      <4> HIDE DEF t
      <4>4. t \in [1 .. n + 1 -> Slots]
        BY <4>1, <4>2
      <4> QED BY <4>3, <4>4
    <3> HIDE DEF t
    <3> QED BY <3>1, IsASeq, LenProperties
  <2>4. w \in 0 .. SizeT - 1
    <3>1. m + (n + 1) * MAP_NODE_OVERHEAD \in Int
      BY <1>2, <1>4, Numbers
    <3> QED BY <3>1, WrapType
  <2> HIDE DEF t, w
  <2>5. g.slots = t /\ g.type = "MAP" /\ g.memory_usage = w
    BY <2>1
  <2>6. /\ \A k, j \in 1 .. Len(t) : t[k].field = t[j].field => k = j
        /\ \A a, b : Maps(g, a, b) <=> IF a = f THEN b = v ELSE Maps(h, a, b)
    BY <2>2, <2>3, <2>5, <1>9
  <2>7. Sound(g)
    BY <2>1, <2>3, <2>4, <2>6, Built
  <2>8. ASSUME Short(h), length[f] <= SSO, length[v] <= SSO, (n + 1) * SlotSize("MAP") < SizeT
        PROVE  Short(g)
    <3>1. DOMAIN t = 1 .. n + 1
      BY <2>3, LenProperties
    <3>2. /\ m = (n + 1) * SlotSize("VECTOR")
          /\ \A j \in 1 .. n + 1 : ShortSlot(s[j])
      BY <1>10, <1>12, <2>8
    <3>3. w = (n + 1) * SlotSize("MAP")
      <4> DEFINE a == SlotSize("VECTOR")
                 b == SlotSize("MAP")
      <4>1. a \in Nat /\ b \in Nat /\ b = a + MAP_NODE_OVERHEAD /\ MAP_NODE_OVERHEAD \in Nat
        BY Sizes, Numbers
      <4>2. n + 1 \in Nat /\ (n + 1) * b < SizeT /\ m = (n + 1) * a
        BY <1>2, <2>8, <3>2
      <4> HIDE DEF a, b
      <4>3. (n + 1) * b = (n + 1) * a + (n + 1) * MAP_NODE_OVERHEAD /\ (n + 1) * b \in Nat
        <5> DEFINE k == n + 1
        <5>1. k \in Nat
          BY <4>2
        <5> HIDE DEF k
        <5>2. k * (a + MAP_NODE_OVERHEAD) = k * a + k * MAP_NODE_OVERHEAD
          BY <4>1, <5>1, Products
        <5>3. k * b \in Nat
          BY <4>1, <5>1, Products
        <5> QED BY <4>1, <5>2, <5>3 DEF k
      <4>4. (n + 1) * b \in 0 .. SizeT - 1
        BY <4>2, <4>3, Numbers
      <4> QED BY <4>2, <4>3, <4>4, WrapSmall DEF w, b
    <3>4. ASSUME NEW j \in 1 .. n + 1 PROVE ShortSlot(t[j])
      <4>1. s[j].field \in Field
        <5>1. s[j] \in Slots
          BY <1>6, ElementOfSeq
        <5> QED BY <5>1 DEF Slots
      <4>2. Fresh(s[j].field) = SSO
        BY <3>2, <4>1, CapTypes DEF ShortSlot
      <4> QED BY <3>2, <2>2, <4>2 DEF ShortSlot
    <3> QED BY <2>3, <2>5, <3>1, <3>3, <3>4 DEF Short
  <2> QED BY <2>3, <2>5, <2>6, <2>7, <2>8 DEF IsSet, g
<1> QED BY <1>11, <1>12

\* set_hash, whether the field is there or not.
LEMMA SetHash ==
  ASSUME NEW h, Sound(h), NEW f \in Field, NEW v \in Value
  PROVE  IsSet(h, f, v, set_hash(h, f, v))
<1>1. Position(h, f) \in Nat
  BY PositionFacts, HashFields
<1>2. CASE Position(h, f) > 0
  BY <1>2, OverwriteSets DEF set_hash
<1>3. CASE Position(h, f) = 0
  BY <1>3, InsertSets DEF set_hash
<1> QED BY <1>1, <1>2, <1>3

(***************************************************************************)
(* Deleting a field.                                                       *)
(***************************************************************************)

\* A function on 1 .. n is a sequence.
LEMMA FunctionSeq ==
  ASSUME NEW S, NEW n \in Nat, NEW f, f \in [1 .. n -> S]
  PROVE  f \in Seq(S) /\ Len(f) = n
<1>1. f \in Seq(S)
  BY IsASeq
<1> QED BY <1>1, LenProperties

\* A sequence without its i-th element.
LEMMA Removed ==
  ASSUME NEW S, NEW s \in Seq(S), NEW i \in 1 .. Len(s)
  PROVE  /\ RemoveAt(s, i) \in Seq(S) /\ Len(RemoveAt(s, i)) = Len(s) - 1
         /\ \A j \in 1 .. Len(s) - 1 : RemoveAt(s, i)[j] = IF j < i THEN s[j] ELSE s[j + 1]
<1> DEFINE n == Len(s)
           a == SubSeq(s, 1, i - 1)
           b == SubSeq(s, i + 1, n)
<1>1. n \in Nat /\ \A j \in 1 .. n : s[j] \in S
  BY LenProperties, ElementOfSeq
<1>2. a \in Seq(S) /\ Len(a) = i - 1 /\ \A j \in 1 .. i - 1 : a[j] = s[j]
  <2>1. \A j \in 1 .. i - 1 : s[j] \in S
    BY <1>1
  <2>2. /\ a \in Seq(S) /\ Len(a) = IF 1 <= i - 1 THEN i - 1 - 1 + 1 ELSE 0
        /\ \A j \in 1 .. i - 1 - 1 + 1 : a[j] = s[1 + j - 1]
    BY <1>1, <2>1, SubSeqProperties
  <2> HIDE DEF a
  <2> QED BY <1>1, <2>2
<1>3. b \in Seq(S) /\ Len(b) = n - i /\ \A j \in 1 .. n - i : b[j] = s[i + j]
  <2>1. \A j \in i + 1 .. n : s[j] \in S
    BY <1>1
  <2>2. /\ b \in Seq(S) /\ Len(b) = IF i + 1 <= n THEN n - (i + 1) + 1 ELSE 0
        /\ \A j \in 1 .. n - (i + 1) + 1 : b[j] = s[i + 1 + j - 1]
    BY <1>1, <2>1, SubSeqProperties
  <2> HIDE DEF b
  <2> QED BY <1>1, <2>2
<1> HIDE DEF a, b
<1>4. /\ a \o b \in Seq(S) /\ Len(a \o b) = (i - 1) + (n - i)
      /\ \A j \in 1 .. (i - 1) + (n - i) : (a \o b)[j] = IF j <= i - 1 THEN a[j] ELSE b[j - (i - 1)]
  <2>1. a \in Seq(S) /\ b \in Seq(S)
    BY <1>2, <1>3
  <2>2. /\ a \o b \in Seq(S) /\ Len(a \o b) = Len(a) + Len(b)
        /\ \A j \in 1 .. Len(a) + Len(b) : (a \o b)[j] = IF j <= Len(a) THEN a[j] ELSE b[j - Len(a)]
    BY ONLY <2>1, ConcatProperties
  <2>3. Len(a) = i - 1 /\ Len(b) = n - i
    BY <1>2, <1>3
  <2> QED BY <2>2, <2>3
<1>5. (i - 1) + (n - i) = n - 1
  BY <1>1
<1>6. ASSUME NEW j \in 1 .. n - 1 PROVE (a \o b)[j] = IF j < i THEN s[j] ELSE s[j + 1]
  <2>1. (a \o b)[j] = IF j <= i - 1 THEN a[j] ELSE b[j - (i - 1)]
    BY <1>4, <1>5
  <2>2. CASE j < i
    BY <1>1, <1>2, <2>1, <2>2
  <2>3. CASE ~(j < i)
    <3>1. j - (i - 1) \in 1 .. n - i /\ i + (j - (i - 1)) = j + 1 /\ ~(j <= i - 1)
      BY <1>1, <2>3
    <3> QED BY <1>3, <2>1, <2>3, <3>1
  <2> QED BY <2>2, <2>3
<1>7. RemoveAt(s, i) = a \o b
  BY DEF RemoveAt, a, b
<1> QED BY <1>4, <1>5, <1>6, <1>7

\* The capacities vector::erase leaves are capacities it found.
LEMMA Erased ==
  ASSUME NEW caps \in Seq(Nat), NEW i \in 1 .. Len(caps)
  PROVE  /\ AfterErase(caps, i) \in Seq(Nat) /\ Len(AfterErase(caps, i)) = Len(caps) - 1
         /\ (\A j \in 1 .. Len(caps) : caps[j] = SSO) =>
              \A j \in 1 .. Len(caps) - 1 : AfterErase(caps, i)[j] = SSO
<1> DEFINE n == Len(caps)
           short == {j \in i + 1 .. n : caps[j] = SSO}
           first == CHOOSE j \in short : \A h \in short : j <= h
           moved == IF short = {} THEN caps ELSE [caps EXCEPT ![first] = caps[i]]
<1>1. AfterErase(caps, i) = RemoveAt(moved, i)
  BY DEF AfterErase
<1>2. n \in Nat /\ caps = [j \in 1 .. n |-> caps[j]] /\ \A j \in 1 .. n : caps[j] \in Nat
  BY LenProperties, ElementOfSeq
<1> HIDE DEF short, first
<1>3. /\ moved = [j \in 1 .. n |-> moved[j]]
      /\ \A j \in 1 .. n : moved[j] = caps[j] \/ moved[j] = caps[i]
  BY <1>2
<1> HIDE DEF moved
<1>4. moved \in [1 .. n -> Nat]
  <2>1. \A j \in 1 .. n : moved[j] \in Nat
    BY <1>2, <1>3
  <2> QED BY <1>3, <2>1
<1>5. moved \in Seq(Nat) /\ Len(moved) = n
  BY <1>2, <1>4, IsASeq, LenProperties
<1>6. /\ RemoveAt(moved, i) \in Seq(Nat) /\ Len(RemoveAt(moved, i)) = n - 1
      /\ \A j \in 1 .. n - 1 : RemoveAt(moved, i)[j] = IF j < i THEN moved[j] ELSE moved[j + 1]
  BY <1>5, Removed
<1>7. ASSUME \A j \in 1 .. n : caps[j] = SSO, NEW j \in 1 .. n - 1
      PROVE  RemoveAt(moved, i)[j] = SSO
  <2>1. j \in 1 .. n /\ j + 1 \in 1 .. n
    BY <1>2
  <2>2. moved[j] = SSO /\ moved[j + 1] = SSO
    BY <1>3, <1>7, <2>1
  <2> QED BY <1>6, <2>2
<1> QED BY <1>1, <1>6, <1>7

\* What del_hash promises: g is h without f.
IsDeleted(h, f, g) ==
  /\ Sound(g) /\ g.type = h.type
  /\ \A x, y : Maps(g, x, y) <=> x # f /\ Maps(h, x, y)
  /\ Len(g.slots) = IF Position(h, f) = 0 THEN Len(h.slots) ELSE Len(h.slots) - 1
  /\ Short(h) => Short(g)

\* del_hash, whether the field is there or not, in a vector or in a map.
LEMMA DelHash ==
  ASSUME NEW h, Sound(h), NEW f \in Field
  PROVE  IsDeleted(h, f, del_hash(h, f))
<1> DEFINE i == Position(h, f)
           n == Len(h.slots)
           g == del_hash(h, f)
           fcol == [j \in DOMAIN h.slots |-> h.slots[j].fcap]
           vcol == [j \in DOMAIN h.slots |-> h.slots[j].vcap]
           fcaps == AfterErase(fcol, i)
           vcaps == AfterErase(vcol, i)
           rest == RemoveAt(h.slots, i)
           moved == [j \in 1 .. n - 1 |-> [rest[j] EXCEPT !.fcap = fcaps[j], !.vcap = vcaps[j]]]
           s == IF h.type = "MAP" THEN rest ELSE moved
           slot == h.slots[i]
           m == Wrap(h.memory_usage - (slot.fcap + slot.vcap + EntryOverhead(h.type)))
<1>1. /\ h \in Hashes /\ h.type \in {"VECTOR", "MAP"} /\ h.slots \in Seq(Slots) /\ n \in Nat
      /\ h.memory_usage \in Nat /\ DOMAIN h.slots = 1 .. n
      /\ \A k, j \in 1 .. n : h.slots[k].field = h.slots[j].field => k = j
      /\ \A k \in 1 .. n : h.slots[k] \in Slots /\ h.slots[k].fcap \in Nat /\ h.slots[k].vcap \in Nat
  BY HashFields DEF Sound
<1>2. /\ i \in 0 .. n /\ (i > 0 => slot.field = f)
      /\ i = 0 => \A j \in 1 .. n : h.slots[j].field # f
      /\ \A j \in 1 .. n : h.slots[j].field = f => j = i
  BY PositionFacts
<1>3. CASE i = 0
  <2>1. g = h
    BY <1>3 DEF del_hash
  <2>2. \A x, y : Maps(h, x, y) => x # f
    BY <1>2, <1>3 DEF Maps
  <2> QED BY <1>3, <2>1, <2>2 DEF IsDeleted
<1>4. CASE i # 0
  <2>1. i \in 1 .. n /\ slot.field = f
    BY <1>1, <1>2, <1>4
  <2>2. g = [h EXCEPT !.slots = s, !.memory_usage = m]
    BY <1>4 DEF del_hash
  <2>3. /\ rest \in Seq(Slots) /\ Len(rest) = n - 1
        /\ \A j \in 1 .. n - 1 : rest[j] = IF j < i THEN h.slots[j] ELSE h.slots[j + 1]
    BY <1>1, <2>1, Removed
  <2>4. fcol \in Seq(Nat) /\ Len(fcol) = n /\ vcol \in Seq(Nat) /\ Len(vcol) = n
    <3>1. fcol \in [1 .. n -> Nat] /\ vcol \in [1 .. n -> Nat]
      BY <1>1
    <3> HIDE DEF fcol, vcol
    <3> QED BY <1>1, <3>1, FunctionSeq
  <2>5. \A j \in 1 .. n : fcol[j] = h.slots[j].fcap /\ vcol[j] = h.slots[j].vcap
    BY <1>1
  <2> HIDE DEF fcol, vcol
  <2>6. /\ fcaps \in Seq(Nat) /\ Len(fcaps) = n - 1 /\ vcaps \in Seq(Nat) /\ Len(vcaps) = n - 1
        /\ (\A j \in 1 .. n : fcol[j] = SSO) => \A j \in 1 .. n - 1 : fcaps[j] = SSO
        /\ (\A j \in 1 .. n : vcol[j] = SSO) => \A j \in 1 .. n - 1 : vcaps[j] = SSO
    BY <2>1, <2>4, Erased
  <2> HIDE DEF fcaps, vcaps, rest
  <2>7. \A j \in 1 .. n - 1 : rest[j] \in Slots /\ fcaps[j] \in Nat /\ vcaps[j] \in Nat
    BY <2>3, <2>6, ElementOfSeq
  <2>8. ASSUME NEW j \in 1 .. n - 1
        PROVE  /\ moved[j] \in Slots
               /\ moved[j].field = rest[j].field /\ moved[j].value = rest[j].value
               /\ moved[j].fcap = fcaps[j] /\ moved[j].vcap = vcaps[j]
    <3>1. moved[j] = [rest[j] EXCEPT !.fcap = fcaps[j], !.vcap = vcaps[j]]
      OBVIOUS
    <3> DEFINE x == moved[j]
               r == rest[j]
               b == fcaps[j]
               c == vcaps[j]
    <3>2. r \in Slots /\ b \in Nat /\ c \in Nat
      BY <2>7
    <3>3. x = [r EXCEPT !.fcap = b, !.vcap = c]
      BY <3>1
    <3> HIDE DEF x, r, b, c, moved, s, m, g
    <3>4. /\ x \in Slots /\ x.field = r.field /\ x.value = r.value
          /\ x.fcap = b /\ x.vcap = c
      BY <3>2, <3>3 DEF Slots
    <3> QED BY <3>4 DEF x, r, b, c
  <2>9. moved \in Seq(Slots) /\ Len(moved) = n - 1
    <3>1. moved = [j \in 1 .. n - 1 |-> moved[j]]
      OBVIOUS
    <3>2. \A j \in 1 .. n - 1 : moved[j] \in Slots
      BY <2>8
    <3>3. n - 1 \in Nat
      BY <1>1, <2>1
    <3> HIDE DEF moved
    <3>4. moved \in [1 .. n - 1 -> Slots]
      BY <3>1, <3>2
    <3> QED BY <3>3, <3>4, IsASeq, LenProperties
  <2> HIDE DEF moved
  <2>10. /\ s \in Seq(Slots) /\ Len(s) = n - 1
         /\ \A j \in 1 .. n - 1 : s[j].field = rest[j].field /\ s[j].value = rest[j].value
    BY <2>3, <2>8, <2>9
  <2>11. m \in 0 .. SizeT - 1
    <3>1. slot.fcap \in Nat /\ slot.vcap \in Nat /\ EntryOverhead(h.type) \in Nat
      BY <1>1, <2>1, Sizes
    <3>2. h.memory_usage \in Nat
      BY <1>1
    <3>3. h.memory_usage - (slot.fcap + slot.vcap + EntryOverhead(h.type)) \in Int
      BY <3>1, <3>2
    <3> QED BY <3>3, WrapType
  <2> HIDE DEF g, s, m
  <2>12. g = [type |-> h.type, slots |-> s, memory_usage |-> m]
    BY <1>1, <2>2, HashUpdate
  \* The slots of g are those of h, without the i-th.
  <2> DEFINE old(j) == IF j < i THEN j ELSE j + 1
  <2>13. \A j \in 1 .. n - 1 :
            /\ old(j) \in 1 .. n /\ old(j) # i
            /\ s[j].field = h.slots[old(j)].field /\ s[j].value = h.slots[old(j)].value
    <3>1. \A j \in 1 .. n - 1 : old(j) \in 1 .. n /\ old(j) # i
      BY <1>1, <2>1
    <3>2. \A j \in 1 .. n - 1 : rest[j] = h.slots[old(j)]
      BY <2>3
    <3> QED BY <2>10, <3>1, <3>2
  <2>14. \A k \in 1 .. n : k # i => \E j \in 1 .. n - 1 : old(j) = k
    <3> SUFFICES ASSUME NEW k \in 1 .. n, k # i PROVE \E j \in 1 .. n - 1 : old(j) = k
      OBVIOUS
    <3>1. CASE k < i
      <4>1. k \in 1 .. n - 1 /\ old(k) = k
        BY <1>1, <2>1, <3>1
      <4> QED BY <4>1
    <3>2. CASE k > i
      <4>1. k - 1 \in 1 .. n - 1 /\ ~(k - 1 < i) /\ k - 1 + 1 = k
        BY <1>1, <2>1, <3>2
      <4>2. old(k - 1) = k
        BY <4>1
      <4> QED BY <4>1, <4>2
    <3>3. k < i \/ k > i
      BY <1>1, <2>1
    <3> QED BY <3>1, <3>2, <3>3
  <2>15. \A j, k \in 1 .. n - 1 : old(j) = old(k) => j = k
    BY <1>1, <2>1
  <2> HIDE DEF old
  <2>16. \A j, k \in 1 .. Len(s) : s[j].field = s[k].field => j = k
    <3>1. ASSUME NEW j \in 1 .. n - 1, NEW k \in 1 .. n - 1, s[j].field = s[k].field
          PROVE  j = k
      <4>1. h.slots[old(j)].field = h.slots[old(k)].field
        BY <2>13, <3>1
      <4>2. old(j) = old(k)
        BY <1>1, <2>13, <4>1
      <4> QED BY <2>15, <4>2
    <3> QED BY <2>10, <3>1
  <2>17. h.type = "VECTOR" => Len(s) <= DRUTA_MAX_KEY
    BY <1>1, <2>10, Numbers DEF Sound
  <2>18. Sound(g) /\ g.type = h.type /\ g.slots = s /\ g.memory_usage = m
    <3>1. h.type \in {"VECTOR", "MAP"} /\ s \in Seq(Slots)
      BY <1>1, <2>10
    <3> QED BY <2>11, <2>12, <2>16, <2>17, <3>1, Built
  <2>19. ASSUME NEW x, NEW y PROVE Maps(g, x, y) <=> x # f /\ Maps(h, x, y)
    <3>1. Maps(g, x, y) <=> \E j \in 1 .. n - 1 : s[j].field = x /\ s[j].value = y
      BY <2>10, <2>18 DEF Maps
    <3>2. Maps(h, x, y) <=> \E j \in 1 .. n : h.slots[j].field = x /\ h.slots[j].value = y
      BY DEF Maps
    <3>3. ASSUME Maps(g, x, y) PROVE x # f /\ Maps(h, x, y)
      BY <1>2, <2>13, <3>1, <3>2, <3>3
    <3>4. ASSUME x # f, Maps(h, x, y) PROVE Maps(g, x, y)
      <4>1. PICK k \in 1 .. n : h.slots[k].field = x /\ h.slots[k].value = y
        BY <3>2, <3>4
      <4>2. k # i
        BY <2>1, <3>4, <4>1
      <4>3. PICK j \in 1 .. n - 1 : old(j) = k
        BY <2>14, <4>2
      <4> QED BY <2>13, <3>1, <4>1, <4>3
    <3> QED BY <3>3, <3>4
  <2>20. ASSUME Short(h) PROVE Short(g)
    <3>1. \A j \in 1 .. n : ShortSlot(h.slots[j])
      BY <1>1, <2>20 DEF Short
    <3>2. /\ \A j \in 1 .. n - 1 : fcaps[j] = SSO
          /\ \A j \in 1 .. n - 1 : vcaps[j] = SSO
      BY <2>5, <2>6, <3>1 DEF ShortSlot
    <3>3. ASSUME NEW j \in 1 .. n - 1 PROVE ShortSlot(s[j])
      <4>1. length[s[j].field] <= SSO
        BY <2>13, <3>1 DEF ShortSlot
      <4>2. CASE h.type = "MAP"
        <5>1. s[j] = rest[j]
          BY <4>2 DEF s
        <5>2. rest[j] = h.slots[old(j)]
          BY <2>3 DEF old
        <5> QED BY <2>13, <3>1, <5>1, <5>2
      <4>3. CASE h.type # "MAP"
        <5>1. s[j] = moved[j]
          BY <4>3 DEF s
        <5> QED BY <2>8, <3>2, <4>1, <5>1 DEF ShortSlot
      <4> QED BY <4>2, <4>3
    <3>4. m = (n - 1) * SlotSize(h.type)
      <4> DEFINE z == SlotSize(h.type)
                 k == n - 1
                 u == h.memory_usage
      <4>1. z \in Nat /\ k \in Nat /\ n = k + 1 /\ u \in 0 .. SizeT - 1
        BY <1>1, <2>1, Sizes, HashFields
      <4>2. slot.fcap + slot.vcap + EntryOverhead(h.type) = z
        BY <2>1, <3>1 DEF ShortSlot, SlotSize
      <4>3. u = n * z
        BY <2>20 DEF Short
      <4>4. m = Wrap(u - z)
        BY <4>2 DEF m
      <4> HIDE DEF z, k, u
      <4>5. (k + 1) * z = k * z + z /\ k * z \in Nat
        BY <4>1, Products
      <4>6. u = k * z + z
        BY <4>1, <4>3, <4>5
      <4>7. u - z = k * z /\ u - z \in 0 .. SizeT - 1
        BY <4>1, <4>5, <4>6, Numbers
      <4>8. m = k * z
        BY <4>4, <4>7, WrapSmall
      <4> QED BY <4>8 DEF k, z
    <3>5. DOMAIN s = 1 .. n - 1
      BY <2>10, LenProperties
    <3> QED BY <2>10, <2>18, <3>3, <3>4, <3>5 DEF Short
  <2> QED BY <1>4, <2>10, <2>18, <2>19, <2>20 DEF IsDeleted, g
<1> QED BY <1>3, <1>4


(***************************************************************************)
(* How many slots there are.                                               *)
(***************************************************************************)

\* A hash has as many slots as fields.
LEMMA SlotCount ==
  ASSUME NEW h, Sound(h), NEW D, \A x : x \in D <=> \E y : Maps(h, x, y)
  PROVE  Len(h.slots) = Cardinality(D) /\ D \in SUBSET Field
<1> DEFINE n == Len(h.slots)
           F == [i \in 1 .. n |-> h.slots[i].field]
<1>1. /\ n \in Nat
      /\ \A i, j \in 1 .. n : h.slots[i].field = h.slots[j].field => i = j
      /\ \A i \in 1 .. n : h.slots[i].field \in Field
  BY HashFields
<1>2. \A x : x \in D <=> \E i \in 1 .. n : h.slots[i].field = x
  BY DEF Maps
<1>3. F \in Bijection(1 .. n, D)
  BY <1>1, <1>2 DEF Bijection, Injection, Surjection, IsInjective
<1>4. ExistsBijection(1 .. n, D)
  <2> HIDE DEF F
  <2> QED BY <1>3 DEF ExistsBijection
<1>5. Cardinality(D) = n
  <2> HIDE DEF n
  <2> QED BY <1>1, <1>4, FS_CountingElements
<1>6. D \in SUBSET Field
  BY <1>1, <1>2
<1> QED BY <1>5, <1>6

\* Short strings in all the slots stay within size_t.
LEMMA Room ==
  ASSUME NEW h, Sound(h)
  PROVE  /\ Len(h.slots) * SlotSize("MAP") \in Nat
         /\ OtherKeys + NodeSize + Len(h.slots) * SlotSize("MAP") < SizeT
<1> DEFINE D == {x \in Field : \E y : Maps(h, x, y)}
           n == Len(h.slots)
           c == Cardinality(Field)
           z == SlotSize("MAP")
<1>1. ASSUME NEW x, NEW y, Maps(h, x, y) PROVE x \in Field
  <2>1. \A i \in 1 .. Len(h.slots) : h.slots[i].field \in Field
    BY HashFields
  <2> QED BY <1>1, <2>1 DEF Maps
<1>2. \A x : x \in D <=> \E y : Maps(h, x, y)
  BY <1>1
<1>3. n = Cardinality(D) /\ D \in SUBSET Field
  <2> HIDE DEF D
  <2> QED BY <1>2, SlotCount
<1>4. n \in Nat /\ c \in Nat /\ n <= c
  BY <1>3, HashAssumption, FS_Subset, FS_CardinalityType
<1>5. z \in Nat /\ OtherKeys + NodeSize + c * z < SizeT
  <2>1. z = 2 * SSO + HASH_ENTRY_OVERHEAD_MAP
    BY Numbers DEF SlotSize, EntryOverhead, HASH_ENTRY_OVERHEAD_MAP
  <2>2. OtherKeys + NodeSize + c * (2 * SSO + HASH_ENTRY_OVERHEAD_MAP) < SizeT
    BY MemoryAssumption
  <2> QED BY <2>1, <2>2, Sizes
<1> HIDE DEF n, c, z
<1>6. n * z \in Nat /\ c * z \in Nat /\ n * z <= c * z
  BY <1>4, <1>5, Products
<1>7. OtherKeys + NodeSize + n * z < SizeT
  BY <1>5, <1>6, Numbers
<1> QED BY <1>6, <1>7 DEF n, z

(***************************************************************************)
(* All the pairs of an HSET, all the fields of an HDEL.                    *)
(***************************************************************************)

\* g holds the hash after each of the first n pairs.
Setting(h, pairs, n, g) ==
  g = [i \in 0 .. n |-> IF i = 0 THEN h ELSE set_hash(g[i - 1], pairs[i][1], pairs[i][2])]

\* There is such a g: the recursive definition of EachSet has a solution.
LEMMA SettingExists == ASSUME NEW h, NEW pairs PROVE \A n \in Nat : \E g : Setting(h, pairs, n, g)
<1> DEFINE N == {n \in Nat : \E g : Setting(h, pairs, n, g)}
<1>1. 0 \in N
  <2> DEFINE g == [i \in 0 .. 0 |-> h]
  <2>1. Setting(h, pairs, 0, g)
    BY DEF Setting
  <2> HIDE DEF g
  <2> QED BY <2>1
<1>2. ASSUME NEW n \in Nat, n \in N PROVE n + 1 \in N
  <2>1. PICK g : Setting(h, pairs, n, g)
    BY <1>2
  <2> DEFINE u == [i \in 0 .. n + 1 |->
                     IF i <= n THEN g[i] ELSE set_hash(g[n], pairs[n + 1][1], pairs[n + 1][2])]
  <2>2. ASSUME NEW i \in 0 .. n + 1
        PROVE  u[i] = IF i = 0 THEN h ELSE set_hash(u[i - 1], pairs[i][1], pairs[i][2])
    <3>1. \A j \in 0 .. n : g[j] = IF j = 0 THEN h ELSE set_hash(g[j - 1], pairs[j][1], pairs[j][2])
      BY <2>1 DEF Setting
    <3>2. CASE i <= n
      BY <3>1, <3>2
    <3>3. CASE i = n + 1
      BY <3>3
    <3> QED BY <3>2, <3>3
  <2>3. Setting(h, pairs, n + 1, u)
    BY <2>2 DEF Setting
  <2> HIDE DEF u
  <2> QED BY <2>3
<1> HIDE DEF N
<1>3. \A n \in Nat : n \in N
  BY <1>1, <1>2, NatInd
<1> QED BY <1>3 DEF N

\* The hash after the first pairs, from one pair to the next.
LEMMA EachSetSteps ==
  ASSUME NEW h, NEW pairs, Len(pairs) \in Nat
  PROVE  /\ EachSet(h, pairs)[0] = h
         /\ \A i \in 1 .. Len(pairs) :
              EachSet(h, pairs)[i] = set_hash(EachSet(h, pairs)[i - 1], pairs[i][1], pairs[i][2])
<1> DEFINE n == Len(pairs)
           u == CHOOSE g : Setting(h, pairs, n, g)
<1>1. EachSet(h, pairs) = u
  BY DEF EachSet, Setting
<1>2. Setting(h, pairs, n, u)
  BY SettingExists
<1> HIDE DEF u
<1>3. \A i \in 0 .. n : u[i] = IF i = 0 THEN h ELSE set_hash(u[i - 1], pairs[i][1], pairs[i][2])
  BY <1>2 DEF Setting
<1> HIDE DEF n
<1>4. 0 \in 0 .. n /\ \A i \in 1 .. n : i \in 0 .. n /\ i # 0
  BY DEF n
<1> QED BY <1>1, <1>3, <1>4 DEF n

\* One number more in a subset of 1 .. n.
LEMMA CountNext ==
  ASSUME NEW i \in Nat, NEW S, NEW T, S = T \cap (1 .. i)
  PROVE  /\ IsFiniteSet(S) /\ Cardinality(S) \in Nat
         /\ Cardinality(T \cap (1 .. i + 1)) =
              IF i + 1 \in T THEN Cardinality(S) + 1 ELSE Cardinality(S)
<1>1. IsFiniteSet(S)
  <2>1. IsFiniteSet(1 .. i)
    BY FS_Interval
  <2> QED BY <2>1, FS_Subset
<1>2. CASE i + 1 \in T
  <2>1. T \cap (1 .. i + 1) = S \cup {i + 1} /\ i + 1 \notin S
    BY <1>2
  <2> QED BY <1>1, <1>2, <2>1, FS_AddElement, FS_CardinalityType
<1>3. CASE i + 1 \notin T
  <2>1. T \cap (1 .. i + 1) = S
    BY <1>3
  <2> QED BY <1>1, <1>3, <2>1, FS_CardinalityType
<1> QED BY <1>2, <1>3

\* The last of the first i pairs that names x gives it the value y.
Given(pairs, i, x, y) ==
  \E j \in 1 .. i : /\ pairs[j][1] = x /\ pairs[j][2] = y
                    /\ \A k \in j + 1 .. i : pairs[k][1] # x

\* No string of the pairs is long.
ShortPairs(pairs) ==
  \A i \in 1 .. Len(pairs) : length[pairs[i][1]] <= SSO /\ length[pairs[i][2]] <= SSO

\* The pairs that create a field.
Creating(h, pairs) ==
  {i \in 1 .. Len(pairs) : Position(EachSet(h, pairs)[i - 1], pairs[i][1]) = 0}

\* g is h after the first i pairs.
IsSetBy(h, pairs, i, g) ==
  /\ Sound(g)
  /\ \A x, y : Maps(g, x, y) <=>
       Given(pairs, i, x, y) \/ (Maps(h, x, y) /\ \A j \in 1 .. i : pairs[j][1] # x)
  /\ Len(g.slots) = Len(h.slots) + Cardinality(Creating(h, pairs) \cap (1 .. i))
  /\ Short(h) /\ ShortPairs(pairs) => Short(g)

\* What one more pair gives.
LEMMA GivenNext ==
  ASSUME NEW pairs, NEW i \in Nat, NEW x, NEW y
  PROVE  /\ Given(pairs, i + 1, x, y) <=> IF x = pairs[i + 1][1] THEN y = pairs[i + 1][2]
                                          ELSE Given(pairs, i, x, y)
         /\ (\A j \in 1 .. i + 1 : pairs[j][1] # x) <=>
              (x # pairs[i + 1][1] /\ \A j \in 1 .. i : pairs[j][1] # x)
<1>1. \A j \in 1 .. i + 1 : j \in 1 .. i \/ j = i + 1
  OBVIOUS
<1>2. i + 1 \in 1 .. i + 1 /\ \A j \in 1 .. i : j \in 1 .. i + 1 /\ i + 1 \in j + 1 .. i + 1
  OBVIOUS
<1>3. ASSUME NEW j \in 1 .. i, NEW k \in j + 1 .. i + 1 PROVE k \in j + 1 .. i \/ k = i + 1
  OBVIOUS
<1>4. ASSUME NEW j \in 1 .. i, NEW k \in j + 1 .. i PROVE k \in j + 1 .. i + 1
  OBVIOUS
<1>5. CASE x = pairs[i + 1][1]
  <2>1. ASSUME Given(pairs, i + 1, x, y) PROVE y = pairs[i + 1][2]
    <3>1. PICK j \in 1 .. i + 1 : /\ pairs[j][1] = x /\ pairs[j][2] = y
                                  /\ \A k \in j + 1 .. i + 1 : pairs[k][1] # x
      BY <2>1 DEF Given
    <3>2. j = i + 1
      BY <1>1, <1>2, <1>5, <3>1
    <3> QED BY <3>1, <3>2
  <2>2. ASSUME y = pairs[i + 1][2] PROVE Given(pairs, i + 1, x, y)
    <3>1. \A k \in i + 1 + 1 .. i + 1 : pairs[k][1] # x
      OBVIOUS
    <3> QED BY <1>2, <1>5, <2>2, <3>1 DEF Given
  <2> QED BY <1>2, <1>5, <2>1, <2>2
<1>6. CASE x # pairs[i + 1][1]
  <2>1. ASSUME Given(pairs, i + 1, x, y) PROVE Given(pairs, i, x, y)
    <3>1. PICK j \in 1 .. i + 1 : /\ pairs[j][1] = x /\ pairs[j][2] = y
                                  /\ \A k \in j + 1 .. i + 1 : pairs[k][1] # x
      BY <2>1 DEF Given
    <3>2. j \in 1 .. i
      BY <1>1, <1>6, <3>1
    <3>3. \A k \in j + 1 .. i : pairs[k][1] # x
      BY <1>4, <3>1, <3>2
    <3> QED BY <3>1, <3>2, <3>3 DEF Given
  <2>2. ASSUME Given(pairs, i, x, y) PROVE Given(pairs, i + 1, x, y)
    <3>1. PICK j \in 1 .. i : /\ pairs[j][1] = x /\ pairs[j][2] = y
                              /\ \A k \in j + 1 .. i : pairs[k][1] # x
      BY <2>2 DEF Given
    <3>2. \A k \in j + 1 .. i + 1 : pairs[k][1] # x
      BY <1>3, <1>6, <3>1
    <3> QED BY <1>2, <3>1, <3>2 DEF Given
  <2> QED BY <1>1, <1>2, <1>6, <2>1, <2>2
<1> QED BY <1>5, <1>6

\* The whole of an HSET: after every one of its pairs the hash is what the
\* pairs so far make it.
LEMMA SetBy ==
  ASSUME NEW h, Sound(h), NEW pairs \in Seq(Field \X Value)
  PROVE  \A i \in 0 .. Len(pairs) : IsSetBy(h, pairs, i, EachSet(h, pairs)[i])
<1> DEFINE u == EachSet(h, pairs)
           n == Len(pairs)
           C == Creating(h, pairs)
           N == {i \in Nat : i <= n => IsSetBy(h, pairs, i, u[i])}
<1>1. n \in Nat /\ \A i \in 1 .. n : pairs[i][1] \in Field /\ pairs[i][2] \in Value
  <2>1. \A i \in 1 .. n : pairs[i] \in Field \X Value
    BY ElementOfSeq
  <2> QED BY <2>1, LenProperties
<1>2. u[0] = h /\ \A i \in 1 .. n : u[i] = set_hash(u[i - 1], pairs[i][1], pairs[i][2])
  BY <1>1, EachSetSteps
<1>3. \A i \in 1 .. n : i \in C <=> Position(u[i - 1], pairs[i][1]) = 0
  BY DEF Creating
<1> HIDE DEF u, C
<1>4. 0 \in N
  <2>1. C \cap (1 .. 0) = {} /\ Cardinality({}) = 0 /\ Len(h.slots) \in Nat
    BY FS_EmptySet, HashFields
  <2>2. Len(h.slots) = Len(h.slots) + Cardinality(C \cap (1 .. 0))
    BY <2>1
  <2>3. \A x, y : Maps(h, x, y) <=>
           Given(pairs, 0, x, y) \/ (Maps(h, x, y) /\ \A j \in 1 .. 0 : pairs[j][1] # x)
    BY DEF Given
  <2> QED BY <1>2, <2>2, <2>3 DEF IsSetBy, C
<1>5. ASSUME NEW i \in Nat, i \in N PROVE i + 1 \in N
  <2> SUFFICES ASSUME i + 1 <= n PROVE IsSetBy(h, pairs, i + 1, u[i + 1])
    OBVIOUS
  <2> DEFINE a == u[i]
             b == u[i + 1]
             f == pairs[i + 1][1]
             v == pairs[i + 1][2]
  <2>1. i + 1 \in 1 .. n /\ i + 1 - 1 = i
    BY <1>1
  <2>2. b = set_hash(a, f, v) /\ f \in Field /\ v \in Value
    BY <1>1, <1>2, <2>1
  <2>3. i + 1 \in C <=> Position(a, f) = 0
    BY <1>3, <2>1
  <2>4. IsSetBy(h, pairs, i, a)
    BY <1>1, <1>5
  <2>5. \A x, y : /\ Given(pairs, i + 1, x, y) <=> IF x = f THEN y = v ELSE Given(pairs, i, x, y)
                  /\ (\A j \in 1 .. i + 1 : pairs[j][1] # x) <=>
                        (x # f /\ \A j \in 1 .. i : pairs[j][1] # x)
    BY GivenNext
  <2>6. ShortPairs(pairs) => length[f] <= SSO /\ length[v] <= SSO
    BY <2>1 DEF ShortPairs
  <2> HIDE DEF a, b, f, v
  <2>7. IsSet(a, f, v, b)
    BY <2>2, <2>4, SetHash DEF IsSetBy
  <2>8. \A x, y : Maps(b, x, y) <=> Given(pairs, i + 1, x, y)
                                     \/ (Maps(h, x, y) /\ \A j \in 1 .. i + 1 : pairs[j][1] # x)
    <3> SUFFICES ASSUME NEW x, NEW y
                 PROVE  Maps(b, x, y) <=> Given(pairs, i + 1, x, y)
                                     \/ (Maps(h, x, y) /\ \A j \in 1 .. i + 1 : pairs[j][1] # x)
      OBVIOUS
    <3>1. Maps(b, x, y) <=> IF x = f THEN y = v ELSE Maps(a, x, y)
      BY <2>7 DEF IsSet
    <3>2. Maps(a, x, y) <=> Given(pairs, i, x, y)
                               \/ (Maps(h, x, y) /\ \A j \in 1 .. i : pairs[j][1] # x)
      BY <2>4 DEF IsSetBy
    <3> QED BY <3>1, <3>2, <2>5
  <2>9. Len(b.slots) = Len(h.slots) + Cardinality(C \cap (1 .. i + 1))
    <3> DEFINE S == C \cap (1 .. i)
               p == Len(h.slots)
               q == Cardinality(S)
    <3>1. /\ q \in Nat
          /\ Cardinality(C \cap (1 .. i + 1)) = IF i + 1 \in C THEN q + 1 ELSE q
      BY CountNext
    <3>2. p \in Nat /\ Len(a.slots) = p + q
      BY <2>4, HashFields DEF IsSetBy, C
    <3>3. Len(b.slots) = IF Position(a, f) = 0 THEN Len(a.slots) + 1 ELSE Len(a.slots)
      BY <2>7 DEF IsSet
    <3> HIDE DEF p, q
    <3>4. Len(b.slots) = p + Cardinality(C \cap (1 .. i + 1))
      BY <2>3, <3>1, <3>2, <3>3
    <3> QED BY <3>4 DEF p
  <2>10. ASSUME Short(h), ShortPairs(pairs) PROVE Short(b)
    <3>1. Short(a)
      BY <2>4, <2>10 DEF IsSetBy
    <3>2. Len(b.slots) * SlotSize("MAP") < SizeT
      <4>1. Sound(b)
        BY <2>7 DEF IsSet
      <4> DEFINE k == Len(b.slots) * SlotSize("MAP")
      <4>2. k \in Nat /\ OtherKeys + NodeSize + k < SizeT
        BY <4>1, Room
      <4> HIDE DEF k
      <4>3. k < SizeT
        BY <4>2, Numbers
      <4> QED BY <4>3 DEF k
    <3> QED BY <2>6, <2>7, <2>10, <3>1, <3>2 DEF IsSet
  <2>11. Sound(b)
    BY <2>7 DEF IsSet
  <2> QED BY <2>8, <2>9, <2>10, <2>11 DEF IsSetBy, b, C
<1> HIDE DEF N
<1>6. \A i \in Nat : i \in N
  BY <1>4, <1>5, NatInd
<1>7. \A i \in 0 .. n : i \in Nat /\ i <= n
  BY <1>1
<1> QED BY <1>6, <1>7 DEF N, u, n

\* g holds the hash after each of the first n deletions.
Deleting(h, fields, n, g) ==
  g = [i \in 0 .. n |-> IF i = 0 THEN h ELSE del_hash(g[i - 1], fields[i])]

\* There is such a g: the recursive definition in AllDeleted has a solution.
LEMMA DeletingExists ==
  ASSUME NEW h, NEW fields PROVE \A n \in Nat : \E g : Deleting(h, fields, n, g)
<1> DEFINE N == {n \in Nat : \E g : Deleting(h, fields, n, g)}
<1>1. 0 \in N
  <2> DEFINE g == [i \in 0 .. 0 |-> h]
  <2>1. Deleting(h, fields, 0, g)
    BY DEF Deleting
  <2> HIDE DEF g
  <2> QED BY <2>1
<1>2. ASSUME NEW n \in Nat, n \in N PROVE n + 1 \in N
  <2>1. PICK g : Deleting(h, fields, n, g)
    BY <1>2
  <2> DEFINE u == [i \in 0 .. n + 1 |-> IF i <= n THEN g[i] ELSE del_hash(g[n], fields[n + 1])]
  <2>2. ASSUME NEW i \in 0 .. n + 1
        PROVE  u[i] = IF i = 0 THEN h ELSE del_hash(u[i - 1], fields[i])
    <3>1. \A j \in 0 .. n : g[j] = IF j = 0 THEN h ELSE del_hash(g[j - 1], fields[j])
      BY <2>1 DEF Deleting
    <3>2. CASE i <= n
      BY <3>1, <3>2
    <3>3. CASE i = n + 1
      BY <3>3
    <3> QED BY <3>2, <3>3
  <2>3. Deleting(h, fields, n + 1, u)
    BY <2>2 DEF Deleting
  <2> HIDE DEF u
  <2> QED BY <2>3
<1> HIDE DEF N
<1>3. \A n \in Nat : n \in N
  BY <1>1, <1>2, NatInd
<1> QED BY <1>3 DEF N

\* g is h after the first i deletions.
IsDeletedBy(h, fields, i, g) ==
  /\ Sound(g) /\ g.type = h.type
  /\ \A x, y : Maps(g, x, y) <=> Maps(h, x, y) /\ \A j \in 1 .. i : fields[j] # x
  /\ Len(g.slots) <= Len(h.slots)
  /\ Short(h) => Short(g)

\* The whole of an HDEL.
LEMMA DeletedBy ==
  ASSUME NEW h, Sound(h), NEW fields \in Seq(Field)
  PROVE  IsDeletedBy(h, fields, Len(fields), AllDeleted(h, fields))
<1> DEFINE n == Len(fields)
           u == CHOOSE g : Deleting(h, fields, n, g)
           N == {i \in Nat : i <= n => IsDeletedBy(h, fields, i, u[i])}
<1>1. n \in Nat /\ \A i \in 1 .. n : fields[i] \in Field
  BY ElementOfSeq, LenProperties
<1>2. AllDeleted(h, fields) = u[n]
  BY DEF AllDeleted, Deleting
<1>3. Deleting(h, fields, n, u)
  BY <1>1, DeletingExists
<1> HIDE DEF u
<1>4. \A i \in 0 .. n : u[i] = IF i = 0 THEN h ELSE del_hash(u[i - 1], fields[i])
  BY <1>3 DEF Deleting
<1>5. 0 \in N
  <2>1. u[0] = h /\ Len(h.slots) <= Len(h.slots)
    BY <1>1, <1>4, HashFields
  <2>2. \A x, y : Maps(h, x, y) <=> Maps(h, x, y) /\ \A j \in 1 .. 0 : fields[j] # x
    OBVIOUS
  <2> QED BY <2>1, <2>2 DEF IsDeletedBy
<1>6. ASSUME NEW i \in Nat, i \in N PROVE i + 1 \in N
  <2> SUFFICES ASSUME i + 1 <= n PROVE IsDeletedBy(h, fields, i + 1, u[i + 1])
    OBVIOUS
  <2> DEFINE a == u[i]
             b == u[i + 1]
             f == fields[i + 1]
  <2>1. i + 1 \in 1 .. n /\ i + 1 \in 0 .. n /\ i + 1 - 1 = i /\ i + 1 # 0
    BY <1>1
  <2>2. b = del_hash(a, f) /\ f \in Field
    BY <1>1, <1>4, <2>1
  <2>3. IsDeletedBy(h, fields, i, a)
    BY <1>1, <1>6
  <2>4. \A x : (\A j \in 1 .. i + 1 : fields[j] # x) <=> x # f /\ \A j \in 1 .. i : fields[j] # x
    <3>1. \A j \in 1 .. i + 1 : j \in 1 .. i \/ j = i + 1
      OBVIOUS
    <3>2. i + 1 \in 1 .. i + 1 /\ \A j \in 1 .. i : j \in 1 .. i + 1
      OBVIOUS
    <3> QED BY <3>1, <3>2
  <2> HIDE DEF a, b, f
  <2>5. IsDeleted(a, f, b)
    BY <2>2, <2>3, DelHash DEF IsDeletedBy
  <2>6. \A x, y : Maps(b, x, y) <=> Maps(h, x, y) /\ \A j \in 1 .. i + 1 : fields[j] # x
    <3> SUFFICES ASSUME NEW x, NEW y
                 PROVE  Maps(b, x, y) <=> Maps(h, x, y) /\ \A j \in 1 .. i + 1 : fields[j] # x
      OBVIOUS
    <3>1. Maps(b, x, y) <=> x # f /\ Maps(a, x, y)
      BY <2>5 DEF IsDeleted
    <3>2. Maps(a, x, y) <=> Maps(h, x, y) /\ \A j \in 1 .. i : fields[j] # x
      BY <2>3 DEF IsDeletedBy
    <3> QED BY <3>1, <3>2, <2>4
  <2>7. Len(b.slots) <= Len(h.slots)
    <3>1. Sound(a) /\ Len(a.slots) <= Len(h.slots)
      BY <2>3 DEF IsDeletedBy
    <3>2. Len(b.slots) = IF Position(a, f) = 0 THEN Len(a.slots) ELSE Len(a.slots) - 1
      BY <2>5 DEF IsDeleted
    <3>3. Len(a.slots) \in Nat /\ Len(h.slots) \in Nat
      BY <3>1, HashFields
    <3> QED BY <3>1, <3>2, <3>3
  <2> QED BY <2>3, <2>5, <2>6, <2>7 DEF IsDeleted, IsDeletedBy, b
<1> HIDE DEF N
<1>7. n \in N
  BY <1>1, <1>5, <1>6, NatInd
<1> QED BY <1>1, <1>2, <1>7 DEF N, n

(***************************************************************************)
(* The memory of the slots.                                                *)
(***************************************************************************)

\* A sum of equal terms.
LEMMA SumConstant ==
  ASSUME NEW c \in Nat, NEW n \in Nat, NEW f, \A i \in 1 .. n : f[i] = c
  PROVE  SumFunctionOnSet(f, 1 .. n) = n * c
<1> DEFINE Total(m) == SumFunctionOnSet(f, 1 .. m)
           N == {m \in Nat : m <= n => Total(m) = m * c}
<1>1. 0 \in N
  <2>1. IsFiniteSet({}) /\ 1 .. 0 = {} /\ 0 * c = 0
    BY FS_EmptySet
  <2>2. SumFunctionOnSet(f, {}) = 0
    BY <2>1, SumPick
  <2> QED BY <2>1, <2>2
<1>2. ASSUME NEW m \in Nat, m \in N PROVE m + 1 \in N
  <2> SUFFICES ASSUME m + 1 <= n PROVE Total(m + 1) = (m + 1) * c
    OBVIOUS
  <2> DEFINE S == 1 .. m + 1
             k == m + 1
  <2>1. IsFiniteSet(S) /\ k \in S /\ S \ {k} = 1 .. m /\ \A x \in S : f[x] \in Nat /\ f[x] = c
    <3>1. IsFiniteSet(S)
      BY FS_Interval
    <3>2. S \ {k} = 1 .. m /\ \A x \in S : x \in 1 .. n
      OBVIOUS
    <3> QED BY <3>1, <3>2
  <2> HIDE DEF S, k
  <2>2. SumFunctionOnSet(f, S) = f[k] + SumFunctionOnSet(f, S \ {k})
    BY <2>1, SumRemove
  <2>3. Total(m) = m * c
    BY <1>2
  <2>4. Total(m + 1) = c + m * c
    BY <2>1, <2>2, <2>3 DEF S
  <2> QED BY <2>4, Products
<1> HIDE DEF N
<1>3. n \in N
  BY <1>1, <1>2, NatInd
<1> QED BY <1>3 DEF N

\* The counter of a hash of short strings is what its slots occupy.
LEMMA ShortUsage ==
  ASSUME Sound(hash), Short(hash)
  PROVE  HeapUsage = hash.memory_usage
<1> DEFINE n == Len(hash.slots)
           z == SlotSize(hash.type)
           size == [i \in DOMAIN hash.slots |->
                      hash.slots[i].fcap + hash.slots[i].vcap + EntryOverhead(hash.type)]
<1>1. n \in Nat /\ DOMAIN hash.slots = 1 .. n /\ z \in Nat
  BY HashFields, Sizes
<1>2. \A i \in 1 .. n : size[i] = z
  BY <1>1 DEF Short, ShortSlot, SlotSize
<1>3. HeapUsage = SumFunctionOnSet(size, 1 .. n)
  BY <1>1 DEF HeapUsage
<1>4. hash.memory_usage = n * z
  BY DEF Short
<1> HIDE DEF n, z, size
<1> QED BY <1>1, <1>2, <1>3, <1>4, SumConstant

\* The counter of a hash of short strings leaves room for the rest.
LEMMA ShortRoom ==
  ASSUME NEW h, Sound(h), Short(h)
  PROVE  h.memory_usage \in Nat /\ OtherKeys + NodeSize + h.memory_usage < SizeT
<1> DEFINE n == Len(h.slots)
           z == SlotSize(h.type)
           y == SlotSize("MAP")
<1>1. n \in Nat /\ z \in Nat /\ y \in Nat /\ z <= y /\ h.memory_usage \in Nat
  <2>1. n \in Nat /\ h.memory_usage \in Nat /\ h.type \in {"VECTOR", "MAP"}
    BY HashFields
  <2> QED BY <2>1, Sizes, Numbers
<1>2. n * y \in Nat /\ OtherKeys + NodeSize + n * y < SizeT
  BY Room
<1>3. h.memory_usage = n * z
  BY DEF Short
<1> HIDE DEF n, z, y
<1>4. n * z <= n * y /\ n * z \in Nat
  BY <1>1, Products
<1> QED BY <1>1, <1>2, <1>3, <1>4, Numbers

\* The counter after notify_memory_change is a size_t.
LEMMA MemoryAfterType ==
  ASSUME NEW current \in 0 .. SizeT - 1, NEW a \in Nat, NEW b \in Nat
  PROVE  MemoryAfter(current, a, b) \in 0 .. SizeT - 1
<1>1. current + (b - a) \in Int
  BY Numbers
<1>2. Wrap(current + (b - a)) \in 0 .. SizeT - 1
  BY <1>1, WrapType
<1> QED BY <1>2, Numbers DEF MemoryAfter

\* As long as everything fits, notify_memory_change is exact.
LEMMA MemoryAfterExact ==
  ASSUME NEW r \in Nat \ {0}, NEW a \in Nat, NEW b \in Nat, r + b < SizeT
  PROVE  MemoryAfter(r + a, a, b) = r + b
<1>1. CASE b > a
  <2>1. r + a + (b - a) = r + b /\ r + b \in 0 .. SizeT - 1
    BY Numbers
  <2>2. Wrap(r + b) = r + b
    <3> DEFINE n == r + b
    <3> HIDE DEF n
    <3>1. n \in 0 .. SizeT - 1
      BY <2>1 DEF n
    <3>2. Wrap(n) = n
      BY <3>1, WrapSmall
    <3> QED BY <3>2 DEF n
  <2> QED BY <1>1, <2>1, <2>2 DEF MemoryAfter
<1>2. CASE ~(b > a)
  BY <1>2 DEF MemoryAfter
<1> QED BY <1>1, <1>2

(***************************************************************************)
(* The commands.                                                           *)
(***************************************************************************)

\* The pairs and the fields of a command are sequences.
LEMMA Arguments ==
  /\ \A pairs \in Pairs : /\ pairs \in Seq(Field \X Value) /\ Len(pairs) \in Nat
                          /\ DOMAIN pairs = 1 .. Len(pairs) /\ Field # {}
                          /\ Named(pairs) \in SUBSET Field
  /\ \A fields \in Fields : /\ fields \in Seq(Field) /\ Len(fields) \in Nat
                            /\ DOMAIN fields = 1 .. Len(fields)
<1>1. ASSUME NEW pairs \in Pairs
      PROVE  /\ pairs \in Seq(Field \X Value) /\ Len(pairs) \in Nat
             /\ DOMAIN pairs = 1 .. Len(pairs) /\ Field # {}
             /\ Named(pairs) \in SUBSET Field
  <2>1. PICK n \in 1 .. MaxPairs : pairs \in [1 .. n -> Field \X Value]
    BY DEF Pairs
  <2>2. n \in Nat /\ 1 \in 1 .. n
    BY Numbers
  <2>3. pairs \in Seq(Field \X Value) /\ Len(pairs) = n
    BY <2>1, <2>2, FunctionSeq
  <2>4. DOMAIN pairs = 1 .. n /\ \A i \in 1 .. n : pairs[i] \in Field \X Value
    BY <2>1
  <2>5. \A i \in 1 .. n : pairs[i][1] \in Field
    BY <2>4
  <2> QED BY <2>2, <2>3, <2>4, <2>5 DEF Named
<1>2. ASSUME NEW fields \in Fields
      PROVE  /\ fields \in Seq(Field) /\ Len(fields) \in Nat
             /\ DOMAIN fields = 1 .. Len(fields)
  <2>1. PICK n \in 1 .. MaxPairs : fields \in [1 .. n -> Field]
    BY DEF Fields
  <2>2. n \in Nat
    BY Numbers
  <2>3. fields \in Seq(Field) /\ Len(fields) = n
    BY <2>1, <2>2, FunctionSeq
  <2> QED BY <2>1, <2>2, <2>3
<1> QED BY <1>1, <1>2

\* LastValue is what the pairs give.
LEMMA LastGiven ==
  ASSUME NEW pairs, Len(pairs) \in Nat, DOMAIN pairs = 1 .. Len(pairs), NEW x, NEW y
  PROVE  /\ Given(pairs, Len(pairs), x, y) <=> x \in Named(pairs) /\ y = LastValue(pairs, x)
         /\ x \in Named(pairs) <=> ~ \A j \in 1 .. Len(pairs) : pairs[j][1] # x
<1> DEFINE n == Len(pairs)
           at == {i \in DOMAIN pairs : pairs[i][1] = x}
           m == CHOOSE i \in at : \A j \in at : j <= i
<1>1. x \in Named(pairs) <=> at # {}
  BY DEF Named
<1>2. at # {} <=> ~ \A j \in 1 .. n : pairs[j][1] # x
  OBVIOUS
<1>3. ASSUME at # {} PROVE Given(pairs, n, x, y) <=> y = LastValue(pairs, x)
  <2>1. at \in SUBSET (0 .. n)
    OBVIOUS
  <2>2. LastValue(pairs, x) = pairs[m][2]
    BY DEF LastValue
  <2>3. m \in at /\ \A j \in at : j <= m
    <3> HIDE DEF at
    <3>1. Max(at) \in at /\ \A j \in at : j <= Max(at)
      BY <1>3, <2>1, MaxProperties
    <3> QED BY <3>1
  <2> HIDE DEF m
  <2>4. m \in 1 .. n /\ pairs[m][1] = x /\ \A j \in 1 .. n : pairs[j][1] = x => j <= m
    BY <2>3
  <2>5. \A k \in m + 1 .. n : pairs[k][1] # x
    BY <2>4
  <2>6. ASSUME NEW j \in 1 .. n, pairs[j][1] = x, \A k \in j + 1 .. n : pairs[k][1] # x
        PROVE  j = m
    <3>1. j <= m /\ ~(m \in j + 1 .. n)
      BY <2>4, <2>6
    <3> QED BY <2>4, <3>1
  <2> QED BY <2>2, <2>4, <2>5, <2>6 DEF Given
<1>4. ASSUME at = {} PROVE ~Given(pairs, n, x, y)
  BY <1>4 DEF Given
<1> QED BY <1>1, <1>2, <1>3, <1>4

\* The inductive invariant: the hash is sound and holds the contents, the
\* replies are those owed, and as long as no string was long the counters are
\* what the slots occupy.
ContentsInv ==
  /\ Sound(hash)
  /\ \A x, y : Maps(hash, x, y) <=> x \in DOMAIN contents /\ y = contents[x]

ReplyInv == reply = expected /\ expected \in 0 .. Cardinality(Field)

MemoryInv ==
  /\ value_usage \in 0 .. SizeT - 1 /\ current_memory_usage \in 0 .. SizeT - 1
  /\ exists \/ (hash = EmptyHash /\ value_usage = 0)
  /\ overlong = FALSE =>
       /\ Short(hash) /\ value_usage = hash.memory_usage
       /\ current_memory_usage = OtherKeys + (IF exists THEN NodeSize + hash.memory_usage ELSE 0)

Inv ==
  /\ ContentsInv /\ ReplyInv /\ MemoryInv
  /\ exists \in BOOLEAN /\ overlong \in BOOLEAN /\ commands \in 0 .. MaxCommands
  /\ exists => Field # {}

\* The empty hash.
LEMMA EmptySound ==
  /\ Sound(EmptyHash) /\ Short(EmptyHash) /\ \A x, y : ~Maps(EmptyHash, x, y)
  /\ EmptyHash.memory_usage = 0 /\ EmptyHash.type = "VECTOR" /\ Len(EmptyHash.slots) = 0
<1> DEFINE e == <<>>
<1>1. e \in Seq(Slots) /\ Len(e) = 0 /\ DOMAIN e = {} /\ 1 .. 0 = {}
  BY EmptySeq, LenProperties
<1>2. EmptyHash = [type |-> "VECTOR", slots |-> e, memory_usage |-> 0]
  BY DEF EmptyHash
<1> HIDE DEF e
<1>3. 0 \in 0 .. SizeT - 1 /\ 0 <= DRUTA_MAX_KEY /\ SlotSize("VECTOR") \in Nat
  BY Numbers, Sizes
<1>4. /\ EmptyHash.memory_usage = 0 /\ EmptyHash.type = "VECTOR"
      /\ EmptyHash.slots = e
  BY <1>2
<1>5. Sound(EmptyHash)
  BY <1>1, <1>2, <1>3, <1>4 DEF Sound, Hashes
<1>6. Short(EmptyHash)
  BY <1>1, <1>3, <1>4 DEF Short
<1> QED BY <1>1, <1>4, <1>5, <1>6 DEF Maps

\* The invariant holds initially.
LEMMA InitInv == Init => Inv
<1> SUFFICES ASSUME Init PROVE Inv
  OBVIOUS
<1>1. ContentsInv
  <2>1. DOMAIN contents = {}
    BY DEF Init
  <2> QED BY <2>1, EmptySound DEF Init, ContentsInv
<1>2. ReplyInv /\ commands \in 0 .. MaxCommands
  <2>1. Cardinality(Field) \in Nat
    BY HashAssumption, FS_CardinalityType
  <2> QED BY <2>1, Numbers DEF Init, ReplyInv
<1>3. MemoryInv
  <2>1. OtherKeys + NodeSize + EmptyHash.memory_usage < SizeT
    BY EmptySound, ShortRoom
  <2>2. OtherKeys \in 0 .. SizeT - 1
    BY <2>1, EmptySound, Numbers
  <2> QED BY <2>2, EmptySound, Numbers DEF Init, MemoryInv
<1> QED BY <1>1, <1>2, <1>3 DEF Init, Inv

\* The fields that have a slot are the domain of the contents.
LEMMA Counted ==
  ASSUME NEW h, Sound(h), NEW c, \A x, y : Maps(h, x, y) <=> x \in DOMAIN c /\ y = c[x]
  PROVE  /\ Len(h.slots) = Cardinality(DOMAIN c) /\ DOMAIN c \in SUBSET Field
         /\ IsFiniteSet(DOMAIN c) /\ Cardinality(DOMAIN c) \in Nat
<1> DEFINE D == DOMAIN c
<1>1. \A x : x \in D <=> \E y : Maps(h, x, y)
  OBVIOUS
<1> HIDE DEF D
<1>2. Len(h.slots) = Cardinality(D) /\ D \in SUBSET Field
  BY <1>1, SlotCount
<1>3. IsFiniteSet(D) /\ Cardinality(D) \in Nat
  BY <1>2, HashAssumption, FS_Subset, FS_CardinalityType
<1> QED BY <1>2, <1>3 DEF D

\* HSET.
LEMMA HsetInv ==
  ASSUME Inv, NEW pairs \in Pairs, command_hset(pairs)
  PROVE  Inv'
<1> DEFINE n == Len(pairs)
           g == AllSet(hash, pairs)
           D == DOMAIN contents
           E == DOMAIN contents'
           M == Named(pairs)
<1>1. /\ pairs \in Seq(Field \X Value) /\ n \in Nat /\ DOMAIN pairs = 1 .. n /\ Field # {}
      /\ M \in SUBSET Field
  BY Arguments
<1>2. Sound(hash) /\ \A x, y : Maps(hash, x, y) <=> x \in D /\ y = contents[x]
  BY DEF Inv, ContentsInv
<1>3. IsSetBy(hash, pairs, n, g)
  <2>1. \A i \in 0 .. n : IsSetBy(hash, pairs, i, EachSet(hash, pairs)[i])
    BY <1>1, <1>2, SetBy
  <2>2. n \in 0 .. n
    BY <1>1
  <2> QED BY <2>1, <2>2 DEF AllSet
<1>4. hash' = g /\ exists' = TRUE
  BY DEF command_hset
<1>5. Sound(hash') /\ \A x, y : Maps(hash', x, y) <=> x \in E /\ y = contents'[x]
  <2>1. contents' = [f \in M \cup D |-> IF f \in M THEN LastValue(pairs, f) ELSE contents[f]]
    BY DEF command_hset
  <2>2. \A x, y : /\ Given(pairs, n, x, y) <=> x \in M /\ y = LastValue(pairs, x)
                  /\ x \in M <=> ~ \A j \in 1 .. n : pairs[j][1] # x
    BY <1>1, LastGiven
  <2> HIDE DEF g, M, D
  <2>3. ASSUME NEW x, NEW y
        PROVE  Maps(g, x, y) <=> x \in DOMAIN contents' /\ y = contents'[x]
    <3>1. Maps(g, x, y) <=>
            Given(pairs, n, x, y) \/ (Maps(hash, x, y) /\ \A j \in 1 .. n : pairs[j][1] # x)
      BY <1>3 DEF IsSetBy
    <3>2. Maps(hash, x, y) <=> x \in D /\ y = contents[x]
      BY <1>2
    <3>3. x \in DOMAIN contents' <=> x \in M \cup D
      BY <2>1
    <3>4. x \in M \cup D => contents'[x] = IF x \in M THEN LastValue(pairs, x) ELSE contents[x]
      BY <2>1
    <3> QED BY <2>2, <3>1, <3>2, <3>3, <3>4
  <2> QED BY <1>3, <1>4, <2>3 DEF IsSetBy
<1>6. ContentsInv'
  BY <1>5 DEF ContentsInv, Sound, Maps, Hashes
<1>7. ReplyInv'
  <2>1. reply' = Cardinality(Creating(hash, pairs))
    BY <1>1 DEF command_hset, Created, Creating
  <2>2. Creating(hash, pairs) \cap (1 .. n) = Creating(hash, pairs)
    BY DEF Creating
  <2>3. IsFiniteSet(Creating(hash, pairs)) /\ Cardinality(Creating(hash, pairs)) \in Nat
    BY <1>1, <2>2, CountNext
  <2>4. Len(g.slots) = Len(hash.slots) + Cardinality(Creating(hash, pairs))
    BY <1>3, <2>2 DEF IsSetBy
  <2>5. /\ Len(hash.slots) = Cardinality(D) /\ IsFiniteSet(D) /\ Cardinality(D) \in Nat
    BY <1>2, Counted
  <2> DEFINE k == hash'
             c == contents'
  <2>6. /\ Len(k.slots) = Cardinality(E) /\ IsFiniteSet(E) /\ Cardinality(E) \in Nat
        /\ E \in SUBSET Field
    <3>1. Sound(k) /\ \A x, y : Maps(k, x, y) <=> x \in DOMAIN c /\ y = c[x]
      BY <1>5
    <3> HIDE DEF k, c
    <3>2. /\ Len(k.slots) = Cardinality(DOMAIN c) /\ DOMAIN c \in SUBSET Field
          /\ IsFiniteSet(DOMAIN c) /\ Cardinality(DOMAIN c) \in Nat
      BY <3>1, Counted
    <3> QED BY <3>2 DEF c
  <2>7. E = M \cup D
    BY DEF command_hset
  <2>8. M \ D = E \ D /\ E \cap D = D
    BY <2>7
  <2> HIDE DEF E, D, M
  <2>9. Cardinality(E \ D) = Cardinality(E) - Cardinality(D)
    <3>1. IsFiniteSet(E)
      BY <2>6
    <3>2. Cardinality(E \ D) = Cardinality(E) - Cardinality(E \cap D)
      BY ONLY <3>1, FS_Difference
    <3> QED BY <2>8, <3>2
  <2>10. expected' = Cardinality(M \ D)
    BY DEF command_hset, M, D
  <2>11. Cardinality(E) <= Cardinality(Field) /\ Cardinality(Field) \in Nat
    BY <2>6, HashAssumption, FS_Subset, FS_CardinalityType
  <2>12. expected' = Cardinality(E) - Cardinality(D)
    BY <2>8, <2>9, <2>10
  <2>13. Cardinality(E) = Cardinality(D) + Cardinality(Creating(hash, pairs))
    BY <1>4, <2>4, <2>5, <2>6
  <2> QED BY <2>1, <2>3, <2>5, <2>6, <2>11, <2>12, <2>13 DEF ReplyInv
<1>8. MemoryInv'
  <2> DEFINE a == hash.memory_usage
             b == g.memory_usage
             rest == OtherKeys + NodeSize
             before == IF exists THEN current_memory_usage
                       ELSE Wrap(current_memory_usage + NodeSize)
  <2>1. /\ value_usage' = Wrap(value_usage + (b - a))
        /\ current_memory_usage' = MemoryAfter(before, a, b)
    BY DEF command_hset
  <2>2. a \in Nat /\ b \in Nat /\ a \in 0 .. SizeT - 1 /\ b \in 0 .. SizeT - 1
    BY <1>2, <1>4, <1>5, HashFields
  <2>3. value_usage \in 0 .. SizeT - 1 /\ current_memory_usage \in 0 .. SizeT - 1
    BY DEF Inv, MemoryInv
  <2>4. before \in 0 .. SizeT - 1
    <3>1. current_memory_usage + NodeSize \in Int
      BY <2>3, Numbers
    <3> QED BY <2>3, <3>1, WrapType
  <2>5. value_usage' \in 0 .. SizeT - 1 /\ current_memory_usage' \in 0 .. SizeT - 1
    <3> HIDE DEF before, a, b
    <3>1. value_usage + (b - a) \in Int
      BY <2>2, <2>3, Numbers
    <3> QED BY <2>1, <2>2, <2>4, <3>1, WrapType, MemoryAfterType
  <2>6. ASSUME overlong' = FALSE
        PROVE  /\ Short(g) /\ value_usage' = b
               /\ current_memory_usage' = OtherKeys + (NodeSize + b)
    <3>1. overlong = FALSE /\ ShortPairs(pairs)
      <4>1. overlong = FALSE /\ \A i \in 1 .. n : ~(length[pairs[i][1]] > SSO \/ length[pairs[i][2]] > SSO)
        BY <1>1, <2>6 DEF command_hset, Inv
      <4>2. \A i \in 1 .. n : pairs[i][1] \in Field /\ pairs[i][2] \in Value
        <5>1. \A i \in 1 .. n : pairs[i] \in Field \X Value
          BY <1>1, ElementOfSeq
        <5> QED BY <5>1
      <4>3. \A i \in 1 .. n : length[pairs[i][1]] \in Nat /\ length[pairs[i][2]] \in Nat
        BY <4>2, HashAssumption
      <4> QED BY <4>1, <4>3, Numbers DEF ShortPairs
    <3>2. /\ Short(hash) /\ value_usage = a
          /\ current_memory_usage = OtherKeys + (IF exists THEN NodeSize + a ELSE 0)
          /\ exists \/ hash = EmptyHash
      BY <3>1 DEF Inv, MemoryInv
    <3>3. Short(g)
      BY <1>3, <3>1, <3>2 DEF IsSetBy
    <3>4. rest \in Nat \ {0} /\ rest + a < SizeT /\ rest + b < SizeT
      BY <1>2, <1>4, <1>5, <3>2, <3>3, ShortRoom, Numbers
    <3>5. before = rest + a
      <4>1. CASE exists
        BY <3>2, <4>1, <2>2, Numbers
      <4>2. CASE ~exists
        <5>1. a = 0 /\ current_memory_usage = OtherKeys
          BY <3>2, <4>2, EmptySound, Numbers
        <5>2. rest \in 0 .. SizeT - 1
          BY <3>4, <5>1, Numbers
        <5>3. Wrap(rest) = rest
          <6> HIDE DEF rest
          <6> QED BY <5>2, WrapSmall
        <5> QED BY <4>2, <5>1, <5>3, <3>4, Numbers
      <4> QED BY <4>1, <4>2
    <3> HIDE DEF rest, before, a, b
    <3>6. MemoryAfter(rest + a, a, b) = rest + b
      BY <2>2, <3>4, MemoryAfterExact
    <3>7. value_usage + (b - a) = b
      BY <2>2, <3>2
    <3>8. value_usage' = b
      BY <2>1, <2>2, <3>7, WrapSmall
    <3>9. rest + b = OtherKeys + (NodeSize + b)
      BY <2>2, Numbers DEF rest
    <3> QED BY <2>1, <3>3, <3>5, <3>6, <3>8, <3>9
  <2>7. Short(g) <=> Short(hash')
    BY <1>4
  <2> HIDE DEF g
  <2> QED BY <1>4, <2>5, <2>6, <2>7 DEF MemoryInv, Short, ShortSlot
<1>9. overlong' \in BOOLEAN /\ commands' \in 0 .. MaxCommands
  BY Numbers DEF command_hset, Inv
<1> QED BY <1>1, <1>4, <1>6, <1>7, <1>8, <1>9 DEF Inv

\* HDEL.
LEMMA HdelInv ==
  ASSUME Inv, NEW fields \in Fields, command_hdel(fields)
  PROVE  Inv'
<1> DEFINE n == Len(fields)
           g == AllDeleted(hash, fields)
           D == DOMAIN contents
           E == DOMAIN contents'
           R == Range(fields)
<1>1. fields \in Seq(Field) /\ n \in Nat /\ DOMAIN fields = 1 .. n
  BY Arguments
<1>2. Sound(hash) /\ \A x, y : Maps(hash, x, y) <=> x \in D /\ y = contents[x]
  BY DEF Inv, ContentsInv
<1>3. IsDeletedBy(hash, fields, n, g)
  BY <1>1, <1>2, DeletedBy
<1>4. hash' = g /\ exists' = exists /\ overlong' = overlong
  BY DEF command_hdel
<1>5. Sound(hash') /\ \A x, y : Maps(hash', x, y) <=> x \in E /\ y = contents'[x]
  <2>1. contents' = [f \in D \ R |-> contents[f]]
    BY DEF command_hdel
  <2>2. \A x : x \in R <=> ~ \A j \in 1 .. n : fields[j] # x
    BY <1>1 DEF Range
  <2> HIDE DEF g, R, D
  <2>3. ASSUME NEW x, NEW y
        PROVE  Maps(g, x, y) <=> x \in DOMAIN contents' /\ y = contents'[x]
    <3>1. Maps(g, x, y) <=> Maps(hash, x, y) /\ \A j \in 1 .. n : fields[j] # x
      BY <1>3 DEF IsDeletedBy
    <3>2. Maps(hash, x, y) <=> x \in D /\ y = contents[x]
      BY <1>2
    <3>3. x \in DOMAIN contents' <=> x \in D \ R
      BY <2>1
    <3>4. x \in D \ R => contents'[x] = contents[x]
      BY <2>1
    <3> QED BY <2>2, <3>1, <3>2, <3>3, <3>4
  <2> QED BY <1>3, <1>4, <2>3 DEF IsDeletedBy
<1>6. ContentsInv'
  BY <1>5 DEF ContentsInv, Sound, Maps, Hashes
<1>7. ReplyInv'
  <2>1. reply' = Len(hash.slots) - Len(g.slots)
    BY <1>4 DEF command_hdel
  <2>2. /\ Len(hash.slots) = Cardinality(D) /\ IsFiniteSet(D) /\ Cardinality(D) \in Nat
        /\ D \in SUBSET Field
    BY <1>2, Counted
  <2> DEFINE k == hash'
             c == contents'
  <2>3. Len(k.slots) = Cardinality(E) /\ Cardinality(E) \in Nat
    <3>1. Sound(k) /\ \A x, y : Maps(k, x, y) <=> x \in DOMAIN c /\ y = c[x]
      BY <1>5
    <3> HIDE DEF k, c
    <3>2. Len(k.slots) = Cardinality(DOMAIN c) /\ Cardinality(DOMAIN c) \in Nat
      BY <3>1, Counted
    <3> QED BY <3>2 DEF c
  <2>4. E = D \ R
    BY DEF command_hdel
  <2>5. expected' = Cardinality(D \cap R)
    BY DEF command_hdel
  <2> HIDE DEF E, D, R
  <2>6. Cardinality(D \ R) = Cardinality(D) - Cardinality(D \cap R)
    <3>1. IsFiniteSet(D)
      BY <2>2
    <3> QED BY ONLY <3>1, FS_Difference
  <2>7. Cardinality(D \cap R) \in Nat /\ Cardinality(D \cap R) <= Cardinality(Field)
    <3>1. D \cap R \in SUBSET Field
      BY <2>2
    <3> QED BY <3>1, HashAssumption, FS_Subset, FS_CardinalityType
  <2>8. Cardinality(Field) \in Nat
    BY HashAssumption, FS_CardinalityType
  <2>9. Len(g.slots) = Cardinality(D) - Cardinality(D \cap R)
    BY <1>4, <2>3, <2>4, <2>6
  <2>10. reply' = Cardinality(D \cap R)
    BY <2>1, <2>2, <2>7, <2>9
  <2> QED BY <2>5, <2>7, <2>8, <2>10 DEF ReplyInv
<1>8. MemoryInv'
  <2> DEFINE a == hash.memory_usage
             b == g.memory_usage
             used == IF exists THEN NodeSize ELSE 0
  <2>1. IF a > b
        THEN /\ value_usage' = Wrap(value_usage - (a - b))
             /\ current_memory_usage' = MemoryAfter(current_memory_usage, a, b)
        ELSE value_usage' = value_usage /\ current_memory_usage' = current_memory_usage
    BY <1>4 DEF command_hdel
  <2>2. a \in Nat /\ b \in Nat /\ a \in 0 .. SizeT - 1 /\ b \in 0 .. SizeT - 1
    BY <1>2, <1>4, <1>5, HashFields
  <2>3. value_usage \in 0 .. SizeT - 1 /\ current_memory_usage \in 0 .. SizeT - 1
    BY DEF Inv, MemoryInv
  <2>4. value_usage' \in 0 .. SizeT - 1 /\ current_memory_usage' \in 0 .. SizeT - 1
    <3> HIDE DEF a, b
    <3>1. value_usage - (a - b) \in Int
      BY <2>2, <2>3, Numbers
    <3> QED BY <2>1, <2>2, <2>3, <3>1, WrapType, MemoryAfterType
  <2>5. ASSUME Short(hash) PROVE Short(g) /\ b <= a
    <3>1. Short(g) /\ g.type = hash.type /\ Len(g.slots) <= Len(hash.slots)
      BY <1>3, <2>5 DEF IsDeletedBy
    <3> DEFINE z == SlotSize(hash.type)
               p == Len(g.slots)
               q == Len(hash.slots)
    <3>2. a = q * z /\ b = p * z
      BY <2>5, <3>1 DEF Short
    <3>3. p \in Nat /\ q \in Nat
      BY <1>2, <1>4, <1>5, HashFields
    <3>4. z \in Nat
      <4>1. hash.type \in {"VECTOR", "MAP"}
        BY <1>2, HashFields
      <4> QED BY <4>1, Sizes
    <3>5. p <= q
      BY <3>1
    <3> HIDE DEF z, p, q, a, b
    <3>6. p * z <= q * z
      BY <3>3, <3>4, <3>5, Products
    <3> QED BY <3>1, <3>2, <3>6
  <2>6. ASSUME ~exists PROVE g = EmptyHash /\ value_usage' = 0
    <3>1. hash = EmptyHash /\ value_usage = 0
      BY <2>6 DEF Inv, MemoryInv
    <3>2. Short(g) /\ a = 0 /\ b = 0 /\ g.type = "VECTOR" /\ Len(g.slots) = 0
      <4>1. Short(g) /\ b <= a /\ a = 0
        BY <2>5, <3>1, EmptySound
      <4>2. g.type = "VECTOR" /\ Len(g.slots) <= 0
        BY <1>3, <3>1, EmptySound DEF IsDeletedBy
      <4>3. Len(g.slots) \in Nat
        BY <1>4, <1>5, HashFields
      <4> QED BY <2>2, <4>1, <4>2, <4>3
    <3>3. /\ g = [type |-> g.type, slots |-> g.slots, memory_usage |-> g.memory_usage]
          /\ g.slots \in Seq(Slots)
      BY <1>4, <1>5, HashFields
    <3>4. g.slots = <<>>
      BY <3>2, <3>3, EmptySeq
    <3>5. g = EmptyHash
      BY <3>2, <3>3, <3>4 DEF EmptyHash
    <3> QED BY <2>1, <3>1, <3>2, <3>5
  <2>7. ASSUME overlong = FALSE
        PROVE  /\ Short(g) /\ value_usage' = b
               /\ current_memory_usage' = OtherKeys + (IF exists THEN NodeSize + b ELSE 0)
    <3>1. /\ Short(hash) /\ value_usage = a
          /\ current_memory_usage = OtherKeys + (IF exists THEN NodeSize + a ELSE 0)
      BY <2>7 DEF Inv, MemoryInv
    <3>2. Short(g) /\ b <= a
      BY <2>5, <3>1
    <3>3. CASE a = b
      BY <2>1, <2>2, <3>1, <3>2, <3>3
    <3>4. CASE a > b /\ exists
      <4> DEFINE rest == OtherKeys + NodeSize
      <4>1. rest \in Nat \ {0} /\ rest + b < SizeT /\ current_memory_usage = rest + a
        <5>1. OtherKeys + NodeSize + b < SizeT
          BY <1>4, <1>5, <3>2, ShortRoom
        <5> QED BY <2>2, <3>1, <3>4, <5>1, Numbers
      <4>2. value_usage - (a - b) = b
        BY <2>2, <3>1
      <4> HIDE DEF rest, a, b
      <4>3. MemoryAfter(rest + a, a, b) = rest + b
        BY <2>2, <4>1, MemoryAfterExact
      <4>4. value_usage' = b
        BY <2>1, <2>2, <3>4, <4>2, WrapSmall
      <4>5. rest + b = OtherKeys + (NodeSize + b)
        BY <2>2, Numbers DEF rest
      <4> QED BY <2>1, <3>2, <3>4, <4>1, <4>3, <4>4, <4>5
    <3>5. CASE a > b /\ ~exists
      <4>1. a = 0
        BY <3>5, EmptySound DEF Inv, MemoryInv
      <4> QED BY <2>2, <3>5, <4>1
    <3> QED BY <2>2, <3>2, <3>3, <3>4, <3>5
  <2>8. Short(g) <=> Short(hash')
    BY <1>4
  <2> HIDE DEF g
  <2> QED BY <1>4, <2>4, <2>6, <2>7, <2>8 DEF MemoryInv, Short, ShortSlot, EmptyHash
<1>9. commands' \in 0 .. MaxCommands
  BY Numbers DEF command_hdel, Inv
<1> QED BY <1>4, <1>6, <1>7, <1>8, <1>9 DEF Inv

\* DEL.
LEMMA DelInv ==
  ASSUME Inv, command_del
  PROVE  Inv'
<1>1. hash' = EmptyHash /\ exists' = FALSE /\ value_usage' = 0 /\ contents' = <<>>
  BY DEF command_del
<1>2. ContentsInv'
  <2>1. Sound(hash') /\ \A x, y : Maps(hash', x, y) <=> x \in DOMAIN contents' /\ y = contents'[x]
    <3>1. DOMAIN contents' = {}
      BY <1>1
    <3> QED BY <1>1, <3>1, EmptySound
  <2> QED BY <2>1 DEF ContentsInv, Sound, Maps, Hashes
<1>3. ReplyInv'
  <2>1. Cardinality(Field) \in Nat /\ (Field # {} => Cardinality(Field) # 0)
    BY HashAssumption, FS_CardinalityType, FS_EmptySet
  <2>2. CASE exists
    BY <2>1, <2>2 DEF command_del, Inv, ReplyInv
  <2>3. CASE ~exists
    BY <2>1, <2>3 DEF command_del, Inv, ReplyInv
  <2> QED BY <2>2, <2>3
<1>4. current_memory_usage' \in 0 .. SizeT - 1
  <2>1. value_usage \in 0 .. SizeT - 1 /\ current_memory_usage \in 0 .. SizeT - 1
    BY DEF Inv, MemoryInv
  <2>2. current_memory_usage - (NodeSize + value_usage) \in Int
    BY <2>1, Numbers
  <2> QED BY <2>1, <2>2, WrapType DEF command_del
<1>5. ASSUME overlong' = FALSE PROVE current_memory_usage' = OtherKeys
  <2> DEFINE a == hash.memory_usage
  <2>1. overlong = FALSE
    BY <1>5 DEF command_del
  <2>2. /\ Short(hash) /\ value_usage = a
        /\ current_memory_usage = OtherKeys + (IF exists THEN NodeSize + a ELSE 0)
    BY <2>1 DEF Inv, MemoryInv
  <2>3. a \in Nat /\ OtherKeys + NodeSize + a < SizeT
    BY <2>2, ShortRoom DEF Inv, ContentsInv
  <2>4. CASE exists
    <3>1. current_memory_usage' = Wrap(current_memory_usage - (NodeSize + value_usage))
      BY <2>4 DEF command_del
    <3>2. current_memory_usage - (NodeSize + value_usage) = OtherKeys
      BY <2>2, <2>3, <2>4, Numbers
    <3>3. OtherKeys \in 0 .. SizeT - 1
      BY <2>3, Numbers
    <3> QED BY <3>1, <3>2, <3>3, WrapSmall
  <2>5. CASE ~exists
    BY <2>2, <2>5, Numbers DEF command_del
  <2> QED BY <2>4, <2>5
<1>6. MemoryInv'
  <2>1. Short(hash') /\ hash'.memory_usage = 0
    BY <1>1, EmptySound
  <2>2. 0 \in 0 .. SizeT - 1 /\ OtherKeys + 0 = OtherKeys
    BY Numbers
  <2> QED BY <1>1, <1>4, <1>5, <2>1, <2>2 DEF MemoryInv, Short, ShortSlot, EmptyHash
<1>7. overlong' \in BOOLEAN /\ commands' \in 0 .. MaxCommands
  BY Numbers DEF command_del, Inv
<1> QED BY <1>1, <1>2, <1>3, <1>6, <1>7 DEF Inv

\* The invariant holds in every reachable state.
THEOREM HashInvariance == Spec => []Inv
<1>1. ASSUME Inv, UNCHANGED vars PROVE Inv'
  BY <1>1 DEF vars, Inv, ContentsInv, ReplyInv, MemoryInv, Sound, Maps, Short, ShortSlot, Hashes
<1>2. ASSUME Inv, [Next]_vars PROVE Inv'
  BY <1>1, <1>2, HsetInv, HdelInv, DelInv DEF Next
<1> QED BY <1>2, InitInv, PTL DEF Spec

\* Every variable has its type, and a vector never outgrows DRUTA_MAX_KEY
\* (drutahash.cpp converts it to a map in the set_hash that would).
THEOREM HashTypeCorrect == Spec => []TypeOK
<1>1. ASSUME Inv PROVE TypeOK
  <2>1. Sound(hash)
    BY <1>1 DEF Inv, ContentsInv
  <2>2. /\ hash.type \in {"VECTOR", "MAP"} /\ hash.memory_usage \in 0 .. SizeT - 1
        /\ DOMAIN hash.slots = 1 .. Len(hash.slots)
        /\ \A i \in 1 .. Len(hash.slots) :
             hash.slots[i].field \in Field /\ hash.slots[i].value \in Value
    BY <2>1, HashFields
  <2>3. \A s \in Range(hash.slots) : s.field \in Field /\ s.value \in Value
    BY <2>2 DEF Range
  <2>4. hash.type = "VECTOR" => Len(hash.slots) <= DRUTA_MAX_KEY
    BY <2>1 DEF Sound
  <2>5. reply \in 0 .. Cardinality(Field)
    BY <1>1 DEF Inv, ReplyInv
  <2> QED BY <1>1, <2>2, <2>3, <2>4, <2>5 DEF TypeOK, Inv, MemoryInv
<1> QED BY <1>1, HashInvariance, PTL

\* Through any HSET, HDEL and DEL, whichever fields they name and however often
\* the hash turned from a vector into a map, its slots are the fields set and
\* not deleted since, each once and with its last value.
THEOREM ContentsHeld == Spec => []HoldsContents
<1>1. ASSUME Inv PROVE HoldsContents
  <2>1. Sound(hash) /\ \A x, y : Maps(hash, x, y) <=> x \in DOMAIN contents /\ y = contents[x]
    BY <1>1 DEF Inv, ContentsInv
  <2>2. Len(hash.slots) = Cardinality(DOMAIN contents)
    BY <2>1, Counted
  <2>3. DOMAIN hash.slots = 1 .. Len(hash.slots)
    BY <2>1, HashFields
  <2>4. ASSUME NEW x, NEW y
        PROVE  Maps(hash, x, y) <=>
                 \E s \in Range(hash.slots) : s.field = x /\ s.value = y
    BY <2>3 DEF Maps, Range
  <2>5. {<<s.field, s.value>> : s \in Range(hash.slots)}
          \subseteq {<<f, contents[f]>> : f \in DOMAIN contents}
    <3> SUFFICES ASSUME NEW s \in Range(hash.slots)
                 PROVE  s.field \in DOMAIN contents /\ s.value = contents[s.field]
      OBVIOUS
    <3>1. Maps(hash, s.field, s.value)
      BY <2>4
    <3> QED BY <2>1, <3>1
  <2>6. {<<f, contents[f]>> : f \in DOMAIN contents}
          \subseteq {<<s.field, s.value>> : s \in Range(hash.slots)}
    <3> SUFFICES ASSUME NEW f \in DOMAIN contents
                 PROVE  \E s \in Range(hash.slots) : s.field = f /\ s.value = contents[f]
      OBVIOUS
    <3>1. Maps(hash, f, contents[f])
      BY <2>1
    <3> QED BY <2>4, <3>1
  <2> QED BY <2>2, <2>5, <2>6 DEF HoldsContents
<1> QED BY <1>1, HashInvariance, PTL

\* HSET counts the pairs whose field set_hash does not find, HDEL the slots that
\* go: that is the number of fields created or deleted, though a command may
\* name a field twice.
THEOREM RepliesCorrect == Spec => []RepliesExact
<1>1. Inv => RepliesExact
  BY DEF Inv, ReplyInv, RepliesExact
<1> QED BY <1>1, HashInvariance, PTL

\* As long as no string is longer than SSO, the counters of the hash, of its
\* node and of the store are what the slots occupy, without a wrap of size_t
\* and through conversion, deletion and recreation.
THEOREM ShortStringsCounted == Spec => []ShortStringsExact
<1>1. ASSUME Inv PROVE ShortStringsExact
  <2> SUFFICES ASSUME overlong = FALSE PROVE PhysicalAccounting
    BY <1>1 DEF ShortStringsExact, Inv
  <2>1. /\ Short(hash) /\ value_usage = hash.memory_usage
        /\ current_memory_usage = OtherKeys + (IF exists THEN NodeSize + hash.memory_usage ELSE 0)
    BY <1>1 DEF Inv, MemoryInv
  <2>2. HeapUsage = hash.memory_usage
    BY <1>1, <2>1, ShortUsage DEF Inv, ContentsInv
  <2> QED BY <2>1, <2>2 DEF PhysicalAccounting
<1> QED BY <1>1, HashInvariance, PTL
=============================================================================
