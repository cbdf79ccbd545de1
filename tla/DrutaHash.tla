----------------------------- MODULE DrutaHash -----------------------------
(***************************************************************************)
(* The hash value of src/src/drutahash.cpp, a vector of pairs that becomes *)
(* a map when it outgrows DRUTA_MAX_KEY, with the memory accounting that   *)
(* HSET, HDEL and DEL (src/src/commands.cpp) derive from it.               *)
(*                                                                         *)
(* A slot keeps, beside its field and value, the capacity of the two       *)
(* std::strings that hold them, because capacities are what the code adds  *)
(* and subtracts.  One hash is modelled; the sizes are such that the       *)
(* eviction loop of notify_memory_change (module Lru) has nothing to do.   *)
(***************************************************************************)
EXTENDS Integers, SequencesExt

CONSTANTS
  Field, Value,
  length,          \* the length of every field name and value
  SSO,             \* the capacity of a std::string that needs no heap buffer
  DRUTA_MAX_KEY,
  STRING_OBJ_OVERHEAD, MAP_NODE_OVERHEAD,
  NodeSize,        \* sizeof(DrutaNode) and the capacity of the key
  OtherKeys,       \* the memory of the other keys of the store
  SizeT,           \* size_t counts modulo SizeT
  MaxPairs,        \* bound: pairs or fields named by one command
  MaxCommands      \* bound: commands executed

ASSUME HashAssumption ==
  /\ IsFiniteSet(Field) /\ length \in [Field \cup Value -> Nat]
  /\ {SSO, DRUTA_MAX_KEY, STRING_OBJ_OVERHEAD, MAP_NODE_OVERHEAD, NodeSize, OtherKeys,
      SizeT, MaxPairs, MaxCommands} \subseteq Nat \ {0}

HASH_ENTRY_OVERHEAD_VECTOR == 2 * STRING_OBJ_OVERHEAD
HASH_ENTRY_OVERHEAD_MAP == 2 * STRING_OBJ_OVERHEAD + MAP_NODE_OVERHEAD

\* Short strings in all the fields, and the other keys, stay within size_t.
ASSUME MemoryAssumption ==
  OtherKeys + NodeSize + Cardinality(Field) * (2 * SSO + HASH_ENTRY_OVERHEAD_MAP) < SizeT

VARIABLES
  exists,                \* the key is in the store
  hash,                  \* its DrutaHash
  value_usage,           \* memory_usage of the node's DrutaValue
  current_memory_usage,
  reply,                 \* the last integer sent to a client
  commands,              \* commands executed so far
  contents,              \* history: what the hash must hold
  expected,              \* history: the reply the client is owed
  overlong               \* history: a string longer than SSO was ever stored

vars == <<exists, hash, value_usage, current_memory_usage, reply, commands,
          contents, expected, overlong>>

Wrap(n) == n % SizeT

-----------------------------------------------------------------------------
(* std::string, as libstdc++ implements it.                                *)

\* The capacity of a copy of s.
Fresh(s) == IF length[s] <= SSO THEN SSO ELSE length[s]

\* The capacity of a string of capacity cap once s is assigned to it: the buffer
\* is kept if it is large enough, and at least doubled otherwise.
Assigned(cap, s) ==
  IF length[s] <= cap THEN cap ELSE IF length[s] < 2 * cap THEN 2 * cap ELSE length[s]

\* The capacities of a column of strings after vector::erase at i moves the
\* later strings down: a heap buffer moves with its string, a short string is
\* copied, so that the first short one takes over the buffer of the erased one.
AfterErase(caps, i) ==
  LET short == {j \in i + 1 .. Len(caps) : caps[j] = SSO}
      first == CHOOSE j \in short : \A h \in short : j <= h
  IN RemoveAt(IF short = {} THEN caps ELSE [caps EXCEPT ![first] = caps[i]], i)

-----------------------------------------------------------------------------
(* DrutaHash.                                                              *)

EntryOverhead(type) ==
  IF type = "MAP" THEN HASH_ENTRY_OVERHEAD_MAP ELSE HASH_ENTRY_OVERHEAD_VECTOR

EmptyHash == [type |-> "VECTOR", slots |-> <<>>, memory_usage |-> 0]

\* The position of field f in the slots of h, 0 if it has none.
Position(h, f) == SelectInSeq(h.slots, LAMBDA s : s.field = f)

convert_to_map(h) ==
  [type |-> "MAP",
   slots |-> [i \in DOMAIN h.slots |->
                [h.slots[i] EXCEPT !.fcap = Fresh(h.slots[i].field)]],
   memory_usage |-> Wrap(h.memory_usage + Len(h.slots) * MAP_NODE_OVERHEAD)]

\* set_hash on a field that is there: its value is assigned.
Overwrite(h, i, v) ==
  LET old == h.slots[i]
      cap == Assigned(old.vcap, v)
  IN [h EXCEPT !.slots[i] = [old EXCEPT !.value = v, !.vcap = cap],
               !.memory_usage = Wrap(@ - old.vcap + cap)]

\* Mutant: the vector keeps one field too many.
InsertLate(h, f, v) ==
  LET slot == [field |-> f, fcap |-> Fresh(f), value |-> v, vcap |-> Fresh(v)]
  IN [h EXCEPT !.slots = Append(@, slot),
               !.memory_usage = Wrap(@ + Fresh(f) + Fresh(v) + EntryOverhead(h.type))]

\* set_hash on a new field: copied into the vector, or into a map node whose
\* value is default-constructed and then assigned.
Insert(h, f, v) ==
  LET slot == [field |-> f, fcap |-> Fresh(f), value |-> v,
               vcap |-> IF h.type = "MAP" THEN Assigned(SSO, v) ELSE Fresh(v)]
      larger == [h EXCEPT !.slots = Append(@, slot),
                          !.memory_usage =
                             Wrap(@ + Fresh(f) + Fresh(v) + EntryOverhead(h.type))]
  IN IF h.type = "VECTOR" /\ Len(larger.slots) > DRUTA_MAX_KEY
     THEN convert_to_map(larger)
     ELSE larger

set_hash(h, f, v) ==
  LET i == Position(h, f) IN IF i > 0 THEN Overwrite(h, i, v) ELSE Insert(h, f, v)

\* Mutant: the slots after the deleted one are cut off.
DelTruncates(h, f) ==
  LET i == Position(h, f)
  IN IF i = 0 THEN h ELSE [h EXCEPT !.slots = SubSeq(@, 1, i - 1)]

del_hash(h, f) ==
  LET i == Position(h, f)
      slot == h.slots[i]
      fcaps == AfterErase([j \in DOMAIN h.slots |-> h.slots[j].fcap], i)
      vcaps == AfterErase([j \in DOMAIN h.slots |-> h.slots[j].vcap], i)
      moved == [j \in 1 .. Len(h.slots) - 1 |->
                  [RemoveAt(h.slots, i)[j] EXCEPT !.fcap = fcaps[j], !.vcap = vcaps[j]]]
  IN IF i = 0 THEN h
     ELSE [h EXCEPT !.slots = IF h.type = "MAP" THEN RemoveAt(@, i) ELSE moved,
                    !.memory_usage =
                       Wrap(@ - (slot.fcap + slot.vcap + EntryOverhead(h.type)))]

-----------------------------------------------------------------------------
(* The commands.                                                           *)

\* notify_memory_change: the counter after old_size bytes became new_size.
MemoryAfter(current, old_size, new_size) ==
  IF new_size > old_size THEN Wrap(current + (new_size - old_size))
  ELSE IF current > old_size - new_size THEN current - (old_size - new_size) ELSE 0

Init ==
  /\ exists = FALSE /\ hash = EmptyHash /\ value_usage = 0
  /\ current_memory_usage = OtherKeys
  /\ reply = 0 /\ commands = 0
  /\ contents = <<>> /\ expected = 0 /\ overlong = FALSE

Pairs == UNION {[1 .. n -> Field \X Value] : n \in 1 .. MaxPairs}
Fields == UNION {[1 .. n -> Field] : n \in 1 .. MaxPairs}

\* The hash after each of the pairs of a command, and after all of them.
EachSet(h, pairs) ==
  LET after[i \in 0 .. Len(pairs)] ==
        IF i = 0 THEN h ELSE set_hash(after[i - 1], pairs[i][1], pairs[i][2])
  IN after
AllSet(h, pairs) == EachSet(h, pairs)[Len(pairs)]

\* The hash without all the fields of a command.
AllDeleted(h, fields) ==
  LET after[i \in 0 .. Len(fields)] ==
        IF i = 0 THEN h ELSE del_hash(after[i - 1], fields[i])
  IN after[Len(fields)]

\* The names in a sequence of pairs, and the last value given to each.
Named(pairs) == {pairs[i][1] : i \in DOMAIN pairs}
LastValue(pairs, f) ==
  LET at == {i \in DOMAIN pairs : pairs[i][1] = f}
  IN pairs[CHOOSE i \in at : \A j \in at : j <= i][2]

\* Mutant: fields are counted whether or not they are new.
CountAll(pairs) == Len(pairs)

\* How many of the pairs set_hash reports as created: it does not find their field.
Created(pairs) ==
  Cardinality({i \in DOMAIN pairs : Position(EachSet(hash, pairs)[i - 1], pairs[i][1]) = 0})

\* HSET: on a key that does not exist add_lru counts the empty node first.
command_hset(pairs) ==
  /\ commands < MaxCommands
  /\ LET before == IF exists THEN current_memory_usage
                             ELSE Wrap(current_memory_usage + NodeSize)
         new == AllSet(hash, pairs)
         old_mem == hash.memory_usage
         new_mem == new.memory_usage
     IN /\ hash' = new
        /\ value_usage' = Wrap(value_usage + (new_mem - old_mem))
        /\ current_memory_usage' = MemoryAfter(before, old_mem, new_mem)
  /\ exists' = TRUE
  /\ reply' = Created(pairs)
  /\ commands' = commands + 1
  /\ contents' = [f \in Named(pairs) \cup DOMAIN contents |->
                    IF f \in Named(pairs) THEN LastValue(pairs, f) ELSE contents[f]]
  /\ expected' = Cardinality(Named(pairs) \ DOMAIN contents)
  /\ overlong' = (overlong \/ \E i \in DOMAIN pairs :
                                length[pairs[i][1]] > SSO \/ length[pairs[i][2]] > SSO)

\* Mutant: HDEL gives no memory back.
HdelKeepsMemory(fields) ==
  /\ commands < MaxCommands
  /\ hash' = AllDeleted(hash, fields)
  /\ reply' = Len(hash.slots) - Len(hash'.slots)
  /\ commands' = commands + 1
  /\ contents' = [f \in DOMAIN contents \ Range(fields) |-> contents[f]]
  /\ expected' = Cardinality(DOMAIN contents \cap Range(fields))
  /\ UNCHANGED <<exists, value_usage, current_memory_usage, overlong>>

\* HDEL: the counters follow only if the hash's own counter went down; without
\* the key there is nothing to delete.
command_hdel(fields) ==
  /\ commands < MaxCommands
  /\ hash' = AllDeleted(hash, fields)
  /\ LET old_mem == hash.memory_usage
         new_mem == hash'.memory_usage
     IN IF old_mem > new_mem
        THEN /\ value_usage' = Wrap(value_usage - (old_mem - new_mem))
             /\ current_memory_usage' = MemoryAfter(current_memory_usage, old_mem, new_mem)
        ELSE UNCHANGED <<value_usage, current_memory_usage>>
  /\ reply' = Len(hash.slots) - Len(hash'.slots)
  /\ commands' = commands + 1
  /\ contents' = [f \in DOMAIN contents \ Range(fields) |-> contents[f]]
  /\ expected' = Cardinality(DOMAIN contents \cap Range(fields))
  /\ UNCHANGED <<exists, overlong>>

\* DEL: remove_from_lru subtracts get_memory_usage() and the node is freed.
command_del ==
  /\ commands < MaxCommands
  /\ exists' = FALSE /\ hash' = EmptyHash /\ value_usage' = 0
  /\ IF exists
     THEN /\ current_memory_usage' = Wrap(current_memory_usage - (NodeSize + value_usage))
          /\ reply' = 1 /\ expected' = 1
     ELSE reply' = 0 /\ expected' = 0 /\ UNCHANGED current_memory_usage
  /\ commands' = commands + 1 /\ contents' = <<>>
  /\ UNCHANGED overlong

Next ==
  \/ \E pairs \in Pairs : command_hset(pairs)
  \/ \E fields \in Fields : command_hdel(fields)
  \/ command_del

Spec == Init /\ [][Next]_vars
-----------------------------------------------------------------------------
(* Properties.                                                             *)

\* Every variable has its type, and a vector never holds more than
\* DRUTA_MAX_KEY fields.
TypeOK ==
  /\ exists \in BOOLEAN /\ overlong \in BOOLEAN
  /\ hash.type \in {"VECTOR", "MAP"} /\ hash.memory_usage \in 0 .. SizeT - 1
  /\ \A s \in Range(hash.slots) : s.field \in Field /\ s.value \in Value
  /\ hash.type = "VECTOR" => Len(hash.slots) <= DRUTA_MAX_KEY
  /\ value_usage \in 0 .. SizeT - 1 /\ current_memory_usage \in 0 .. SizeT - 1
  /\ reply \in 0 .. Cardinality(Field) /\ commands \in 0 .. MaxCommands

\* Through overwriting, deleting in the middle and the conversion to a map, the
\* hash holds exactly the fields set and not deleted since, each one once and
\* with the last value it was given (HGET, HGETALL, HLEN read these slots).
HoldsContents ==
  /\ Len(hash.slots) = Cardinality(DOMAIN contents)
  /\ {<<s.field, s.value>> : s \in Range(hash.slots)} = {<<f, contents[f]>> : f \in DOMAIN contents}

\* HSET replies the number of fields it created and HDEL the number it deleted,
\* also when a command names a field twice (commands.cpp:366 and 473).
RepliesExact == reply = expected

\* The memory the slots of the hash really occupy.
HeapUsage ==
  LET size == [i \in DOMAIN hash.slots |->
                 hash.slots[i].fcap + hash.slots[i].vcap + EntryOverhead(hash.type)]
  IN SumFunctionOnSet(size, DOMAIN hash.slots)

\* README.md:87: the database "calculates actual heap consumption", accounting
\* "for std::string capacity": the three counters agree with the slots.
PhysicalAccounting ==
  /\ hash.memory_usage = HeapUsage
  /\ value_usage = HeapUsage
  /\ current_memory_usage = OtherKeys + (IF exists THEN NodeSize + HeapUsage ELSE 0)

\* The accounting is exact as long as no string needs a heap buffer, whatever
\* commands run and however often the hash is converted and recreated.
ShortStringsExact == ~overlong => PhysicalAccounting
=============================================================================
