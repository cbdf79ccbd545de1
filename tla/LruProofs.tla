----------------------------- MODULE LruProofs -----------------------------
(***************************************************************************)
(* Proofs about module Lru, for every set of keys, every set of sizes and  *)
(* every memory limit.                                                     *)
(***************************************************************************)
EXTENDS Lru, Induction

\* nw is a strict total order on S, recorded as the set of larger elements.
Ordered(S, nw) ==
  /\ \A k \in Key : nw[k] \subseteq S \ {k}
  /\ \A k \in Key \ S : nw[k] = {}
  /\ \A a, b \in S : a \in nw[b] => b \notin nw[a]
  /\ \A a, b \in S : a # b => a \in nw[b] \/ b \in nw[a]

\* What the invariants say of a list l of the nodes S used in the order nw.
Sorted(l, S, nw) == Linked(l, S) /\ InOrderOfUse(l, S, nw) /\ Ordered(S, nw)

(***************************************************************************)
(* The list operations.                                                    *)
(***************************************************************************)

\* detach keeps the type of the list (lru.cpp:10).
LEMMA DetachType ==
  ASSUME NEW l \in List, NEW n \in Key
  PROVE  detach(l, n) \in List
BY DEF detach, List, Pointer

\* attach_head keeps the type of the list (lru.cpp:31).
LEMMA AttachType ==
  ASSUME NEW l \in List, NEW n \in Key
  PROVE  attach_head(l, n) \in List
<1>1. CASE l.HEAD = NULL
  BY <1>1 DEF attach_head, List, Pointer
<1>2. CASE l.HEAD # NULL
  BY <1>2 DEF attach_head, List, Pointer
<1> QED BY <1>1, <1>2

\* Detaching a node of a sorted list leaves the other nodes sorted.
LEMMA DetachSorted ==
  ASSUME NEW S \in SUBSET Key, NEW l \in List, NEW n \in S,
         NEW nw \in [Key -> SUBSET Key], Sorted(l, S, nw)
  PROVE  Sorted(detach(l, n), S \ {n},
                [x \in Key |-> IF x = n THEN {} ELSE nw[x] \ {n}])
<1> DEFINE d == detach(l, n)
           p == l.prev[n]
           x == l.next[n]
           nd == [k \in Key |-> IF k = n THEN {} ELSE nw[k] \ {n}]
<1>1. /\ d.HEAD = IF x = NULL THEN p ELSE l.HEAD
      /\ d.TAIL = IF p = NULL THEN x ELSE l.TAIL
      /\ \A k \in Key : d.next[k] = IF k = n THEN NULL
                                    ELSE IF k = p THEN x ELSE l.next[k]
      /\ \A k \in Key : d.prev[k] = IF k = n THEN NULL
                                    ELSE IF k = x THEN p ELSE l.prev[k]
  BY DEF detach
<1>2. \A k \in S : l.next[k] # NULL => l.next[k] # k /\ l.next[k] \in nw[k]
  BY DEF Sorted, InOrderOfUse, Ordered
<1>3. p \in S \cup {NULL} /\ x \in S \cup {NULL} /\ p # n /\ x # n
  BY <1>2, NullAssumption DEF Sorted, Linked
<1>4. \A k \in Key : nd[k] = IF k = n THEN {} ELSE nw[k] \ {n}
  OBVIOUS
<1>5. Linked(d, S \ {n})
  <2> HIDE DEF d
  <2> SUFFICES Linked(d, S \ {n}) OBVIOUS
  <2>1. /\ d.HEAD \in (S \ {n}) \cup {NULL} /\ d.TAIL \in (S \ {n}) \cup {NULL}
        /\ S \ {n} = {} <=> d.HEAD = NULL
        /\ S \ {n} = {} <=> d.TAIL = NULL
    <3>1. x # NULL => l.HEAD \in S \ {n}
      BY NullAssumption DEF Sorted, Linked
    <3>2. p # NULL => l.TAIL \in S \ {n}
      BY NullAssumption DEF Sorted, Linked
    <3>3. x = NULL /\ p = NULL => S \ {n} = {}
      BY NullAssumption DEF Sorted, Linked, InOrderOfUse
    <3> QED BY <3>1, <3>2, <3>3, <1>1, <1>3, NullAssumption
  <2>2. ASSUME NEW k \in S \ {n}
        PROVE  /\ d.next[k] \in (S \ {n}) \cup {NULL}
               /\ d.prev[k] \in (S \ {n}) \cup {NULL}
               /\ d.next[k] = NULL <=> k = d.HEAD
               /\ d.prev[k] = NULL <=> k = d.TAIL
               /\ d.next[k] # NULL => d.prev[d.next[k]] = k
               /\ d.prev[k] # NULL => d.next[d.prev[k]] = k
    BY <1>1, <1>2, <1>3, NullAssumption DEF Sorted, Linked
  <2>3. \A k \in Key \ (S \ {n}) : d.next[k] = NULL /\ d.prev[k] = NULL
    BY <1>1, <1>2, <1>3, NullAssumption DEF Sorted, Linked
  <2> QED BY <2>1, <2>2, <2>3 DEF Linked
<1>6. InOrderOfUse(d, S \ {n}, nd)
  <2> HIDE DEF d, nd
  <2>1. ASSUME NEW k \in S \ {n}, d.next[k] = NULL
        PROVE  nd[k] = {}
    BY <2>1, <1>1, <1>2, <1>3, <1>4, NullAssumption DEF Sorted, Linked, InOrderOfUse
  <2>2. ASSUME NEW k \in S \ {n}, d.next[k] # NULL
        PROVE  nd[k] = nd[d.next[k]] \cup {d.next[k]}
    <3>1. CASE k = p
      <4>1. d.next[k] = x /\ x \in S /\ l.next[k] = n
        BY <3>1, <2>2, <1>1, <1>3, NullAssumption DEF Sorted, Linked
      <4>2. nw[k] = nw[n] \cup {n} /\ nw[n] = nw[x] \cup {x} /\ n \notin nw[n]
        BY <4>1, NullAssumption DEF Sorted, InOrderOfUse, Ordered
      <4>3. n \notin nw[x]
        BY <4>1, <4>2 DEF Sorted, Ordered
      <4>4. k \in Key /\ x \in Key /\ k # n /\ x # n
        BY <4>1, <1>3
      <4>5. nd[k] = nw[k] \ {n} /\ nd[x] = nw[x] \ {n}
        BY <4>4, <1>4
      <4> HIDE DEF x
      <4>6. nd[k] = nd[x] \cup {x}
        BY <4>2, <4>3, <4>4, <4>5
      <4> QED BY <4>1, <4>6
    <3>2. CASE k # p
      <4>1. d.next[k] = l.next[k] /\ l.next[k] \in S
        BY <3>2, <2>2, <1>1 DEF Sorted, Linked
      <4>2. l.next[k] # n
        BY <3>2, <4>1, NullAssumption DEF Sorted, Linked
      <4>3. nw[k] = nw[l.next[k]] \cup {l.next[k]}
        BY <4>1, NullAssumption DEF Sorted, InOrderOfUse
      <4> QED BY <4>1, <4>2, <4>3, <1>4
    <3> QED BY <3>1, <3>2
  <2>3. ASSUME d.TAIL # NULL
        PROVE  nd[d.TAIL] = (S \ {n}) \ {d.TAIL}
    <3>1. CASE p = NULL
      <4>1. n = l.TAIL /\ d.TAIL = x /\ x \in S
        BY <3>1, <2>3, <1>1, <1>3 DEF Sorted, Linked
      <4>2. nw[n] = S \ {n} /\ nw[n] = nw[x] \cup {x} /\ x \notin nw[x]
        BY <4>1, NullAssumption DEF Sorted, InOrderOfUse, Ordered
      <4>3. x \in Key /\ x # n /\ nd[x] = nw[x] \ {n}
        BY <4>1, <1>3, <1>4
      <4> HIDE DEF x
      <4>4. nd[x] = (S \ {n}) \ {x}
        BY <4>2, <4>3
      <4> QED BY <4>1, <4>4
    <3>2. CASE p # NULL
      <4>1. d.TAIL = l.TAIL /\ l.TAIL \in S /\ l.TAIL # n
        BY <3>2, <2>3, <1>1, <1>3 DEF Sorted, Linked
      <4> QED BY <4>1, <1>4, NullAssumption DEF Sorted, InOrderOfUse
    <3> QED BY <3>1, <3>2
  <2> QED BY <2>1, <2>2, <2>3 DEF InOrderOfUse
<1>7. Ordered(S \ {n}, nd)
  BY <1>4 DEF Sorted, Ordered
<1> QED BY <1>5, <1>6, <1>7 DEF Sorted

\* Attaching a new node at the head of a sorted list makes it the newest one.
LEMMA AttachSorted ==
  ASSUME NEW S \in SUBSET Key, NEW l \in List, NEW n \in Key \ S,
         NEW nw \in [Key -> SUBSET Key], Sorted(l, S, nw)
  PROVE  Sorted(attach_head(l, n), S \cup {n},
                [x \in Key |-> IF x \in S THEN nw[x] \cup {n} ELSE {}])
<1> DEFINE a == attach_head(l, n)
           na == [x \in Key |-> IF x \in S THEN nw[x] \cup {n} ELSE {}]
<1>1. CASE l.HEAD = NULL
  <2>1. S = {} /\ a.HEAD = n /\ a.TAIL = n /\ a.next = l.next /\ a.prev = l.prev
    BY <1>1 DEF attach_head, List, Sorted, Linked
  <2>2. \A x \in Key : na[x] = {}
    BY <2>1
  <2> QED BY <2>1, <2>2, NullAssumption DEF Sorted, Linked, InOrderOfUse, Ordered
<1>2. CASE l.HEAD # NULL
  <2>1. /\ a.HEAD = n /\ a.TAIL = l.TAIL
        /\ \A k \in Key : a.next[k] = IF k = l.HEAD THEN n ELSE l.next[k]
        /\ \A k \in Key : a.prev[k] = IF k = n THEN l.HEAD ELSE l.prev[k]
    BY <1>2, NullAssumption DEF attach_head, List, Pointer
  <2>2. l.HEAD \in S /\ l.TAIL \in S /\ l.HEAD # n /\ n # NULL /\ n \notin S
    BY <1>2, NullAssumption DEF Sorted, Linked
  <2>3. \A x \in Key : na[x] = IF x \in S THEN nw[x] \cup {n} ELSE {}
    OBVIOUS
  <2> HIDE DEF a, na
  <2>4. Linked(a, S \cup {n})
    BY <1>2, <2>1, <2>2, NullAssumption DEF Sorted, Linked
  <2>5. InOrderOfUse(a, S \cup {n}, na)
    <3>1. ASSUME NEW k \in S \cup {n}, a.next[k] = NULL
          PROVE  na[k] = {}
      BY <3>1, <2>1, <2>2, <2>3 DEF Sorted, Linked
    <3>2. ASSUME NEW k \in S \cup {n}, a.next[k] # NULL
          PROVE  na[k] = na[a.next[k]] \cup {a.next[k]}
      <4>1. CASE k = l.HEAD
        BY <4>1, <2>1, <2>2, <2>3 DEF Sorted, Linked, InOrderOfUse
      <4>2. CASE k # l.HEAD
        <5>1. k \in S /\ a.next[k] = l.next[k] /\ l.next[k] \in S
          BY <4>2, <3>2, <2>1, <2>2 DEF Sorted, Linked
        <5>2. nw[k] = nw[l.next[k]] \cup {l.next[k]}
          BY <5>1, NullAssumption DEF Sorted, InOrderOfUse
        <5> QED BY <5>1, <5>2, <2>3
      <4> QED BY <4>1, <4>2
    <3>3. na[a.TAIL] = (S \cup {n}) \ {a.TAIL}
      <4>1. a.TAIL = l.TAIL /\ l.TAIL \in S /\ l.TAIL # n
        BY <2>1, <2>2
      <4>2. nw[l.TAIL] = S \ {l.TAIL}
        BY <4>1, NullAssumption DEF Sorted, InOrderOfUse
      <4>3. na[l.TAIL] = nw[l.TAIL] \cup {n}
        BY <4>1, <2>3
      <4> QED BY <4>1, <4>2, <4>3
    <3> QED BY <3>1, <3>2, <3>3 DEF InOrderOfUse
  <2>6. Ordered(S \cup {n}, na)
    <3>0. /\ \A k \in S : nw[k] \subseteq S /\ k \notin nw[k] /\ n \notin nw[k]
          /\ \A b, c \in S : b \in nw[c] => c \notin nw[b]
          /\ \A b, c \in S : b # c => b \in nw[c] \/ c \in nw[b]
      BY <2>2 DEF Sorted, Ordered
    <3>1. ASSUME NEW k \in Key
          PROVE  na[k] \subseteq (S \cup {n}) \ {k}
      <4>1. CASE k \in S
        <5>1. na[k] = nw[k] \cup {n} /\ k # n
          BY <4>1, <2>2, <2>3
        <5> QED BY <5>1, <4>1, <3>0
      <4>2. CASE k \notin S
        BY <4>2, <2>3
      <4> QED BY <4>1, <4>2
    <3>2. \A k \in Key \ (S \cup {n}) : na[k] = {}
      BY <2>3
    <3>3. na[n] = {} /\ \A k \in S : na[k] = nw[k] \cup {n}
      BY <2>2, <2>3
    <3>4. ASSUME NEW b \in S \cup {n}, NEW c \in S \cup {n}
          PROVE  /\ b \in na[c] => c \notin na[b]
                 /\ b # c => b \in na[c] \/ c \in na[b]
      BY <3>0, <3>3, <2>2
    <3> QED BY <3>1, <3>2, <3>4 DEF Ordered
  <2> QED BY <2>4, <2>5, <2>6 DEF Sorted, a, na
<1> QED BY <1>1, <1>2

\* touch_lru makes a node of a sorted list the newest one.
LEMMA TouchSorted ==
  ASSUME NEW S \in SUBSET Key, NEW l \in List, NEW n \in S,
         NEW nw \in [Key -> SUBSET Key], Sorted(l, S, nw)
  PROVE  Sorted(touch_lru(l, n), S,
                [x \in Key |-> IF x \in S \ {n} THEN nw[x] \cup {n} ELSE {}])
<1> DEFINE nt == [x \in Key |-> IF x \in S \ {n} THEN nw[x] \cup {n} ELSE {}]
<1>1. CASE n = l.HEAD
  <2>1. nw[n] = {}
    BY <1>1 DEF Sorted, Linked, InOrderOfUse
  <2>2. \A x \in Key : nw[x] = IF x \in S \ {n} THEN nw[x] \cup {n} ELSE {}
    BY <2>1 DEF Sorted, Ordered
  <2>3. nt = nw
    BY <2>2
  <2> QED BY <1>1, <2>3 DEF touch_lru
<1>2. CASE n # l.HEAD
  <2> DEFINE d == detach(l, n)
             nd == [x \in Key |-> IF x = n THEN {} ELSE nw[x] \ {n}]
             na == [x \in Key |-> IF x \in S \ {n} THEN nd[x] \cup {n} ELSE {}]
  <2>1. d \in List /\ nd \in [Key -> SUBSET Key]
    BY DetachType
  <2>2. Sorted(d, S \ {n}, nd)
    BY DetachSorted
  <2>3. na = nt
    OBVIOUS
  <2>4. (S \ {n}) \cup {n} = S /\ S \ {n} \in SUBSET Key /\ n \in Key \ (S \ {n})
    OBVIOUS
  <2> HIDE DEF d, nd
  <2>5. Sorted(attach_head(d, n), (S \ {n}) \cup {n}, na)
    BY <2>1, <2>2, <2>4, AttachSorted
  <2>6. touch_lru(l, n) = attach_head(d, n)
    BY <1>2 DEF touch_lru, d
  <2> HIDE DEF na, nt
  <2>7. Sorted(touch_lru(l, n), S, nt)
    BY <2>3, <2>4, <2>5, <2>6
  <2> QED BY <2>7 DEF nt
<1> QED BY <1>1, <1>2

\* touch_lru keeps the type of the list.
LEMMA TouchType ==
  ASSUME NEW l \in List, NEW n \in Key
  PROVE  touch_lru(l, n) \in List
BY DetachType, AttachType DEF touch_lru

(***************************************************************************)
(* The inductive invariant.                                                *)
(***************************************************************************)

\* A handler that goes on after the eviction loop holds a pointer.
HoldsNode == then # "return" \/ pc \in {"fill", "touch"} => node \in Key

IInv ==
  /\ TypeOK
  /\ Running => Sorted(list, kv_store, newer)
  /\ lru_size = Cardinality(kv_store)
  /\ HoldsNode

\* The memory counter stays a size_t across notify_memory_change.
LEMMA MemoryAfterType ==
  ASSUME NEW a \in Nat, NEW b \in Nat, current_memory_usage \in 0 .. SizeT - 1
  PROVE  MemoryAfter(a, b) \in 0 .. SizeT - 1
BY UsageAssumption DEF MemoryAfter, Wrap

\* Arithmetic on size_t stays in range.
LEMMA WrapType == ASSUME NEW n \in Int PROVE Wrap(n) \in 0 .. SizeT - 1
BY UsageAssumption DEF Wrap

\* The size of a node and the counter of a hash are numbers.
LEMMA UsageType ==
  ASSUME TypeOK, NEW k \in Key
  PROVE  usage[k] \in Nat /\ hash_usage[k] \in Nat
BY UsageAssumption DEF TypeOK

\* The sizes and amounts of the handlers are numbers that fit beside the limit.
LEMMA AmountType ==
  ASSUME NEW d \in Usages \cup {0}
  PROVE  d \in Nat /\ LRU_MAX_MEMORY + d < SizeT /\ d < SizeT
<1>1. d \in Nat /\ LRU_MAX_MEMORY \in Nat /\ SizeT \in Nat
  BY UsageAssumption
<1>2. LRU_MAX_MEMORY + d < SizeT
  BY MemoryAssumption
<1> QED BY <1>1, <1>2

\* SetFields keeps the types of the counters (HSET).
LEMMA SetFieldsType ==
  ASSUME TypeOK, NEW k \in Key, NEW d \in Usages \cup {0}, SetFields(k, d)
  PROVE  /\ usage' \in [Key -> 0 .. SizeT - 1]
         /\ hash_usage' \in [Key -> 0 .. SizeT - 1]
         /\ current_memory_usage' \in 0 .. SizeT - 1
<1> DEFINE old == hash_usage[k]
           new == Wrap(old + d)
<1>1. old \in Nat /\ usage[k] \in Nat /\ d \in Nat
  BY UsageType, AmountType
<1>2. new \in 0 .. SizeT - 1 /\ new \in Nat
  BY <1>1, WrapType, UsageAssumption
<1>3. /\ hash_usage' = [hash_usage EXCEPT ![k] = new]
      /\ usage' = [usage EXCEPT ![k] = Wrap(usage[k] + (new - old))]
      /\ current_memory_usage' = MemoryAfter(old, new)
  BY DEF SetFields
<1> HIDE DEF old, new
<1>4. Wrap(usage[k] + (new - old)) \in 0 .. SizeT - 1
  BY <1>1, <1>2, WrapType
<1>5. MemoryAfter(old, new) \in 0 .. SizeT - 1
  BY <1>1, <1>2, MemoryAfterType DEF TypeOK
<1> QED BY <1>2, <1>3, <1>4, <1>5 DEF TypeOK

\* DeleteReported and DeleteSilent keep the types of the counters (HDEL).
LEMMA DeleteType ==
  ASSUME TypeOK, NEW k \in Key, NEW d \in Usages,
         DeleteReported(k, d) \/ DeleteSilent(k, d)
  PROVE  /\ usage' \in [Key -> 0 .. SizeT - 1]
         /\ hash_usage' \in [Key -> 0 .. SizeT - 1]
         /\ current_memory_usage' \in 0 .. SizeT - 1
         /\ hash_writes' \in 0 .. MaxHashWrites /\ wrapped' \in BOOLEAN
<1> DEFINE old == hash_usage[k]
           new == Wrap(old - d)
<1>1. old \in Nat /\ usage[k] \in Nat /\ d \in Nat
  BY UsageType, AmountType
<1>2. new \in 0 .. SizeT - 1 /\ new \in Nat
  BY <1>1, WrapType, UsageAssumption
<1>3. hash_usage' = [hash_usage EXCEPT ![k] = new] /\ hash_usage'[k] = new
  BY DEF DeleteReported, DeleteSilent, DeleteFields, TypeOK
<1>4. hash_writes' \in 0 .. MaxHashWrites /\ wrapped' \in BOOLEAN
  <2>1. hash_writes < MaxHashWrites /\ hash_writes' = hash_writes + 1
    BY DEF DeleteReported, DeleteSilent, DeleteFields
  <2>2. wrapped' = (wrapped \/ d > hash_usage[k])
    BY DEF DeleteReported, DeleteSilent, DeleteFields
  <2> QED BY <2>1, <2>2, UsageAssumption DEF TypeOK
<1> HIDE DEF old, new
<1>5. CASE DeleteReported(k, d)
  <2>1. /\ usage' = [usage EXCEPT ![k] = Wrap(usage[k] - (old - new))]
        /\ current_memory_usage' = MemoryAfter(old, new)
    BY <1>3, <1>5 DEF DeleteReported, old
  <2>2. Wrap(usage[k] - (old - new)) \in 0 .. SizeT - 1
    BY <1>1, <1>2, WrapType
  <2>3. MemoryAfter(old, new) \in 0 .. SizeT - 1
    BY <1>1, <1>2, MemoryAfterType DEF TypeOK
  <2> QED BY <1>2, <1>3, <1>4, <2>1, <2>2, <2>3 DEF TypeOK
<1>6. CASE DeleteSilent(k, d)
  <2>1. usage' = usage /\ current_memory_usage' = current_memory_usage
    BY <1>6 DEF DeleteSilent
  <2> QED BY <1>2, <1>3, <1>4, <2>1 DEF TypeOK
<1> QED BY <1>5, <1>6

\* The number of keys in the store when one enters or leaves it.
LEMMA StoreSize ==
  ASSUME NEW S \in SUBSET Key, NEW k \in Key
  PROVE  /\ Cardinality(S) \in 0 .. Cardinality(Key)
         /\ k \notin S => Cardinality(S \cup {k}) = Cardinality(S) + 1
         /\ k \in S => Cardinality(S \ {k}) = Cardinality(S) - 1
<1>1. IsFiniteSet(S) /\ Cardinality(S) <= Cardinality(Key)
  BY KeyAssumption, FS_Subset
<1>2. Cardinality(S) \in Nat /\ Cardinality(Key) \in Nat
  BY <1>1, KeyAssumption, FS_CardinalityType
<1>3. k \notin S => Cardinality(S \cup {k}) = Cardinality(S) + 1
  BY <1>1, FS_AddElement
<1>4. k \in S => Cardinality(S \ {k}) = Cardinality(S) - 1
  BY <1>1, FS_RemoveElement
<1> QED BY <1>1, <1>2, <1>3, <1>4

\* Linking the node of a new key preserves the invariant (add_lru).
LEMMA AddPreserves ==
  ASSUME IInv, Running, NEW k \in Key, NEW u \in Usages,
         k \notin kv_store, add_lru(k, u),
         then' \in {"return", "fill"}, node' \in Pointer,
         then' # "return" => node' \in Key,
         hashes' \subseteq kv_store', UNCHANGED <<hash_usage, hash_writes, wrapped>>
  PROVE  IInv'
<1> USE DEF IInv, TypeOK
<1>1. Sorted(list', kv_store', newer')
  <2>1. kv_store \ {k} = kv_store
    OBVIOUS
  <2>2. newer' = [x \in Key |-> IF x \in kv_store THEN newer[x] \cup {k} ELSE {}]
    BY <2>1 DEF add_lru, MadeNewest
  <2> QED BY <2>2, AttachSorted DEF add_lru
<1>2. list' \in List
  BY AttachType DEF add_lru
<1>3. lru_size' = Cardinality(kv_store') /\ kv_store' \subseteq Key
  BY StoreSize DEF add_lru
<1>4. lru_size' \in 0 .. Cardinality(Key)
  BY <1>3, StoreSize
<1>5. current_memory_usage' \in 0 .. SizeT - 1
  BY WrapType, UsageAssumption DEF add_lru
<1>6. usage' \in [Key -> 0 .. SizeT - 1] /\ newer' \in [Key -> SUBSET Key]
  <2>1. u \in 0 .. SizeT - 1
    BY AmountType, UsageAssumption
  <2> QED BY <2>1 DEF add_lru, MadeNewest
<1>7. pc' = "evict"
  BY DEF add_lru
<1> QED BY <1>1, <1>2, <1>3, <1>4, <1>5, <1>6, <1>7 DEF HoldsNode, Running

\* Unlinking and freeing a node preserves the invariant (remove_from_lru,
\* evict_lru).
LEMMA UnlinkPreserves ==
  ASSUME IInv, Running, NEW k \in kv_store, Unlink(k), UNCHANGED <<pc, then, node>>
  PROVE  IInv'
<1> USE DEF IInv, TypeOK
<1>1. Sorted(list', kv_store', newer')
  BY DetachSorted DEF Unlink, Without
<1>2. list' \in List
  BY DetachType DEF Unlink
<1>3. lru_size' = Cardinality(kv_store') /\ kv_store' \subseteq Key
  BY StoreSize DEF Unlink
<1>4. lru_size' \in 0 .. Cardinality(Key)
  BY <1>3, StoreSize
<1>5. usage[k] \in Nat
  BY UsageType
<1>6. current_memory_usage' \in 0 .. SizeT - 1
  BY <1>5, WrapType, UsageAssumption DEF Unlink
<1>7. /\ usage' \in [Key -> 0 .. SizeT - 1] /\ newer' \in [Key -> SUBSET Key]
      /\ hash_usage' \in [Key -> 0 .. SizeT - 1] /\ hashes' \subseteq kv_store'
      /\ UNCHANGED <<hash_writes, wrapped>>
  BY UsageAssumption DEF Unlink, Without
<1> QED BY <1>1, <1>2, <1>3, <1>4, <1>6, <1>7 DEF HoldsNode, Running

\* Making a node the newest one preserves the list's part of the invariant.
LEMMA TouchPreserves ==
  ASSUME IInv, Running, NEW k \in kv_store,
         list' = touch_lru(list, k), newer' = MadeNewest(k), kv_store' = kv_store
  PROVE  /\ Sorted(list', kv_store', newer')
         /\ list' \in List /\ newer' \in [Key -> SUBSET Key]
<1> USE DEF IInv, TypeOK
<1>1. Sorted(list', kv_store', newer')
  BY TouchSorted DEF MadeNewest
<1>2. list' \in List
  BY TouchType
<1>3. newer' \in [Key -> SUBSET Key]
  BY DEF MadeNewest
<1> QED BY <1>1, <1>2, <1>3

\* The initial state satisfies the invariant: the list is empty.
LEMMA InitIInv == Init => IInv
<1> SUFFICES ASSUME Init PROVE IInv
  OBVIOUS
<1>1. Cardinality({}) = 0
  BY FS_EmptySet
<1>2. Cardinality(Key) \in Nat
  BY KeyAssumption, FS_CardinalityType
<1>3. TypeOK
  <2>1. /\ 0 \in 0 .. SizeT - 1 /\ 0 \in 0 .. MaxHashWrites /\ 0 \in 0 .. Cardinality(Key)
    BY <1>2, UsageAssumption
  <2>2. list \in List /\ newer \in [Key -> SUBSET Key] /\ node \in Pointer
    BY DEF Init, List, Pointer
  <2>3. usage \in [Key -> 0 .. SizeT - 1] /\ hash_usage \in [Key -> 0 .. SizeT - 1]
    BY <2>1 DEF Init
  <2> QED BY <2>1, <2>2, <2>3 DEF Init, TypeOK
<1>4. Sorted(list, kv_store, newer)
  BY DEF Init, Sorted, Linked, InOrderOfUse, Ordered
<1> QED BY <1>1, <1>3, <1>4 DEF Init, IInv, HoldsNode

\* Every step of the server preserves the invariant.
LEMMA NextIInv == IInv /\ [Next]_vars => IInv'
<1> SUFFICES ASSUME IInv, [Next]_vars PROVE IInv'
  OBVIOUS
<1>1. ASSUME NEW k \in Key, NEW u \in Usages, CreateNode(k, u) PROVE IInv'
  <2>1. hashes' \subseteq kv_store' /\ UNCHANGED hashVars /\ add_lru(k, u)
    BY <1>1 DEF CreateNode, add_lru, hashVars, IInv, TypeOK
  <2> QED BY <1>1, <2>1, AddPreserves DEF CreateNode, hashVars, Running, Pointer
<1>2. ASSUME NEW k \in Key, NEW u \in Usages, CreateHash(k, u) PROVE IInv'
  <2>1. hashes' \subseteq kv_store' /\ add_lru(k, u)
    BY <1>2 DEF CreateHash, add_lru, IInv, TypeOK
  <2> QED BY <1>2, <2>1, AddPreserves DEF CreateHash, Running, Pointer
<1>3. ASSUME NEW k \in Key, NEW u \in Usages, Resize(k, u) PROVE IInv'
  <2>1. usage[k] \in Nat /\ u \in Nat
    BY UsageType, UsageAssumption DEF IInv
  <2>2. current_memory_usage' \in 0 .. SizeT - 1
    BY <1>3, <2>1, MemoryAfterType DEF Resize, IInv, TypeOK
  <2>3. u \in 0 .. SizeT - 1 /\ 0 \in 0 .. SizeT - 1
    BY AmountType, UsageAssumption
  <2>4. usage' \in [Key -> 0 .. SizeT - 1] /\ hash_usage' \in [Key -> 0 .. SizeT - 1]
    BY <1>3, <2>3 DEF Resize, IInv, TypeOK
  <2> QED BY <1>3, <2>2, <2>4 DEF Resize, IInv, TypeOK, HoldsNode, Running, Pointer
<1>4. ASSUME NEW k \in Key, NEW u \in Usages, Pop(k, u) PROVE IInv'
  <2>1. usage[k] \in Nat /\ u \in Nat
    BY UsageType, UsageAssumption DEF IInv
  <2>2. current_memory_usage' \in 0 .. SizeT - 1
    BY <1>4, <2>1, MemoryAfterType DEF Pop, IInv, TypeOK
  <2>3. /\ Sorted(list', kv_store', newer')
        /\ list' \in List /\ newer' \in [Key -> SUBSET Key]
    BY <1>4, TouchPreserves DEF Pop, Running
  <2>4. u \in 0 .. SizeT - 1
    BY AmountType, UsageAssumption
  <2>5. usage' \in [Key -> 0 .. SizeT - 1]
    BY <1>4, <2>4 DEF Pop, IInv, TypeOK
  <2> QED
    BY <1>4, <2>2, <2>3, <2>5 DEF Pop, hashVars, IInv, TypeOK, HoldsNode, Running, Pointer
<1>5. ASSUME NEW k \in Key, Touch(k) PROVE IInv'
  <2>1. /\ Sorted(list', kv_store', newer')
        /\ list' \in List /\ newer' \in [Key -> SUBSET Key]
    BY <1>5, TouchPreserves DEF Touch, Running
  <2> QED BY <1>5, <2>1 DEF Touch, hashVars, IInv, TypeOK, HoldsNode, Running
<1>6. ASSUME NEW k \in Key, Remove(k) PROVE IInv'
  BY <1>6, UnlinkPreserves DEF Remove, Running
<1>7. CASE Clear
  <2>1. Cardinality({}) = 0 /\ Cardinality(Key) \in Nat
    BY KeyAssumption, FS_EmptySet, FS_CardinalityType
  <2>2. TypeOK'
    <3>1. /\ 0 \in 0 .. SizeT - 1 /\ 0 \in 0 .. MaxHashWrites
          /\ 0 \in 0 .. Cardinality(Key)
      BY <2>1, UsageAssumption
    <3>2. list' \in List /\ newer' \in [Key -> SUBSET Key]
      BY <1>7 DEF Clear, List, Pointer
    <3>3. /\ usage' \in [Key -> 0 .. SizeT - 1]
          /\ hash_usage' \in [Key -> 0 .. SizeT - 1]
      BY <1>7, <3>1 DEF Clear
    <3> QED BY <1>7, <3>1, <3>2, <3>3 DEF Clear, IInv, TypeOK
  <2>3. Sorted(list, kv_store, newer)'
    BY <1>7 DEF Clear, Sorted, Linked, InOrderOfUse, Ordered
  <2> QED BY <1>7, <2>1, <2>2, <2>3 DEF Clear, IInv, HoldsNode
<1>8. CASE EvictOne
  <2>1. list.TAIL \in kv_store
    BY <1>8 DEF EvictOne, MustEvict, IInv, Running, Sorted, Linked
  <2> QED BY <1>8, <2>1, UnlinkPreserves DEF EvictOne, Running
<1>9. CASE LeaveLoop
  BY <1>9 DEF LeaveLoop, storeVars, hashVars, IInv, TypeOK, HoldsNode, Running
<1>10. ASSUME NEW d \in Usages, Fill(d) PROVE IInv'
  <2>1. node \in Key
    BY <1>10 DEF IInv, TypeOK, Fill
  <2>2. /\ usage' \in [Key -> 0 .. SizeT - 1]
        /\ hash_usage' \in [Key -> 0 .. SizeT - 1]
        /\ current_memory_usage' \in 0 .. SizeT - 1
    BY <1>10, <2>1, SetFieldsType DEF Fill, IInv
  <2> QED BY <1>10, <2>1, <2>2 DEF Fill, IInv, TypeOK, HoldsNode, Running, Pointer
<1>11. CASE TouchHeld
  <2>1. /\ Sorted(list', kv_store', newer')
        /\ list' \in List /\ newer' \in [Key -> SUBSET Key]
    BY <1>11, TouchPreserves DEF TouchHeld, Running
  <2> QED
    BY <1>11, <2>1 DEF TouchHeld, hashVars, IInv, TypeOK, HoldsNode, Running, Pointer
<1>12. CASE UseFreed
  <2>1. touch_lru(list, node) \in List
    BY <1>12, TouchType DEF UseFreed, IInv, TypeOK, HoldsNode
  <2> QED BY <1>12, <2>1 DEF UseFreed, hashVars, IInv, TypeOK, HoldsNode, Running
<1>13. ASSUME NEW k \in Key, NEW d \in Usages \cup {0}, SetHash(k, d) PROVE IInv'
  <2>1. /\ usage' \in [Key -> 0 .. SizeT - 1]
        /\ hash_usage' \in [Key -> 0 .. SizeT - 1]
        /\ current_memory_usage' \in 0 .. SizeT - 1
    BY <1>13, SetFieldsType DEF SetHash, IInv
  <2>2. hash_writes' \in 0 .. MaxHashWrites
    BY <1>13, UsageAssumption DEF SetHash, IInv, TypeOK
  <2> QED BY <1>13, <2>1, <2>2 DEF SetHash, IInv, TypeOK, HoldsNode, Running, Pointer
<1>14. ASSUME NEW k \in Key, NEW d \in Usages, DeleteReported(k, d) PROVE IInv'
  <2>1. /\ usage' \in [Key -> 0 .. SizeT - 1]
        /\ hash_usage' \in [Key -> 0 .. SizeT - 1]
        /\ current_memory_usage' \in 0 .. SizeT - 1
        /\ hash_writes' \in 0 .. MaxHashWrites /\ wrapped' \in BOOLEAN
    BY <1>14, DeleteType DEF IInv
  <2> QED
    BY <1>14, <2>1
    DEF DeleteReported, DeleteFields, IInv, TypeOK, HoldsNode, Running, Pointer
<1>15. ASSUME NEW k \in Key, NEW d \in Usages, DeleteSilent(k, d) PROVE IInv'
  <2>1. /\ usage' \in [Key -> 0 .. SizeT - 1]
        /\ hash_usage' \in [Key -> 0 .. SizeT - 1]
        /\ current_memory_usage' \in 0 .. SizeT - 1
        /\ hash_writes' \in 0 .. MaxHashWrites /\ wrapped' \in BOOLEAN
    BY <1>15, DeleteType DEF IInv
  <2>2. k \in kv_store
    BY <1>15 DEF DeleteSilent, DeleteFields, IInv, TypeOK
  <2>3. /\ Sorted(list', kv_store', newer')
        /\ list' \in List /\ newer' \in [Key -> SUBSET Key]
    BY <1>15, <2>2, TouchPreserves DEF DeleteSilent, DeleteFields, Running
  <2> QED
    BY <1>15, <2>1, <2>3 DEF DeleteSilent, DeleteFields, IInv, TypeOK, HoldsNode, Running
<1>16. CASE UNCHANGED vars
  BY <1>16 DEF vars, storeVars, hashVars, IInv, TypeOK, HoldsNode, Running
<1> QED
  BY <1>1, <1>2, <1>3, <1>4, <1>5, <1>6, <1>7, <1>8, <1>9, <1>10, <1>11, <1>12,
     <1>13, <1>14, <1>15, <1>16 DEF Next, Handler, Finish

\* In every reachable state every variable has its type: in particular lru_size
\* never runs past the number of keys and never below zero.
THEOREM TypeCorrect == Spec => []TypeOK
<1>1. IInv => TypeOK
  BY DEF IInv
<1> QED BY <1>1, InitIInv, NextIInv, PTL DEF Spec

\* However many commands ran, and in whatever order their handlers linked,
\* touched, popped, removed and evicted nodes, the list of lru.cpp is well linked
\* and sorted by recency of use until a handler uses a node it has freed.
THEOREM ListCorrect == Spec => []ListOK
<1>1. IInv => ListOK
  BY DEF IInv, ListOK, Sorted
<1> QED BY <1>1, InitIInv, NextIInv, PTL DEF Spec

\* Every step of lru.cpp is a step of the abstract order of use, or changes
\* nothing of it: an iteration of the eviction loop evicts the least recently
\* used key because the list is sorted.
LEMMA StepRefines == IInv /\ [Next]_vars => [Abstract!RecencyNext]_Abstract!recencyVars
<1> SUFFICES ASSUME IInv, [Next]_vars
             PROVE  [Abstract!RecencyNext]_Abstract!recencyVars
  OBVIOUS
<1> USE DEF Abstract!RecencyNext
<1>1. ASSUME NEW k \in Key, NEW u \in Usages, CreateNode(k, u) \/ CreateHash(k, u)
      PROVE  Abstract!RecencyNext
  <2>1. Abstract!Insert(k)
    BY <1>1 DEF CreateNode, CreateHash, add_lru, MadeNewest,
                Abstract!Insert, Abstract!MadeNewest
  <2> QED BY <2>1
<1>2. ASSUME NEW k \in Key, NEW u \in Usages, Resize(k, u)
      PROVE  Abstract!RecencyNext
  BY <1>2 DEF Resize, Abstract!Resized
<1>3. ASSUME NEW k \in Key, NEW u \in Usages, Pop(k, u)
      PROVE  Abstract!RecencyNext
  <2>1. Abstract!Use(k)
    BY <1>3 DEF Pop, MadeNewest, Abstract!Use, Abstract!MadeNewest
  <2> QED BY <2>1
<1>4. ASSUME NEW k \in Key, Touch(k)
      PROVE  Abstract!RecencyNext
  <2>1. Abstract!Use(k)
    BY <1>4 DEF Touch, MadeNewest, Abstract!Use, Abstract!MadeNewest
  <2> QED BY <2>1
<1>5. ASSUME NEW k \in Key, Remove(k)
      PROVE  Abstract!RecencyNext
  <2>1. Abstract!Remove(k)
    BY <1>5 DEF Remove, Unlink, Without, Abstract!Remove, Abstract!Without
  <2> QED BY <2>1
<1>6. CASE Clear
  BY <1>6 DEF Clear, Abstract!Clear
<1>7. CASE EvictOne
  <2>1. list.TAIL \in kv_store /\ newer[list.TAIL] = kv_store \ {list.TAIL}
    BY <1>7 DEF EvictOne, MustEvict, IInv, Running, Sorted, Linked, InOrderOfUse
  <2>2. Abstract!Evict(list.TAIL)
    BY <1>7, <2>1 DEF EvictOne, Unlink, Without, Abstract!Evict, Abstract!Without
  <2> QED BY <2>1, <2>2 DEF IInv, TypeOK
<1>8. CASE LeaveLoop
  <2>1. pc' # "evict"
    BY <1>8 DEF LeaveLoop, IInv, TypeOK
  <2> QED BY <1>8, <2>1 DEF LeaveLoop, storeVars, Abstract!EvictionEnds
<1>9. ASSUME NEW d \in Usages, Fill(d)
      PROVE  Abstract!RecencyNext
  BY <1>9 DEF Fill, Abstract!Resized
<1>10. CASE TouchHeld
  <2>1. Abstract!Use(node) /\ node \in Key
    BY <1>10 DEF TouchHeld, MadeNewest, Abstract!Use, Abstract!MadeNewest, IInv, TypeOK
  <2> QED BY <2>1
<1>11. CASE UseFreed
  BY <1>11 DEF UseFreed, Abstract!recencyVars
<1>12. ASSUME NEW k \in Key, NEW d \in Usages \cup {0}, SetHash(k, d)
       PROVE  Abstract!RecencyNext
  BY <1>12 DEF SetHash, Abstract!Resized
<1>13. ASSUME NEW k \in Key, NEW d \in Usages, DeleteReported(k, d)
       PROVE  Abstract!RecencyNext
  BY <1>13 DEF DeleteReported, DeleteFields, Abstract!Resized
<1>14. ASSUME NEW k \in Key, NEW d \in Usages, DeleteSilent(k, d)
       PROVE  Abstract!RecencyNext
  <2>1. k \in kv_store
    BY <1>14 DEF DeleteSilent, DeleteFields, IInv, TypeOK
  <2>2. Abstract!Use(k)
    BY <1>14, <2>1
    DEF DeleteSilent, DeleteFields, MadeNewest, Abstract!Use, Abstract!MadeNewest
  <2> QED BY <2>2
<1>15. CASE UNCHANGED vars
  BY <1>15 DEF vars, storeVars, Abstract!recencyVars
<1> QED
  BY <1>1, <1>2, <1>3, <1>4, <1>5, <1>6, <1>7, <1>8, <1>9, <1>10, <1>11, <1>12,
     <1>13, <1>14, <1>15 DEF Next, Handler, Finish

\* The linked list implements the order of use of module Recency: whatever the
\* handlers do, only the least recently used key leaves the store under memory
\* pressure (evict_lru, lru.cpp:98).
THEOREM Refinement == Spec => EvictsLeastRecent
<1>1. Init => Abstract!RecencyInit
  BY DEF Init, Abstract!RecencyInit
<1> QED
  BY <1>1, InitIInv, NextIInv, StepRefines, PTL
  DEF Spec, EvictsLeastRecent, Abstract!RecencySpec
(***************************************************************************)
(* The memory counter.                                                     *)
(***************************************************************************)

\* A key without a hash has no hash counter, and a handler about to fill a hash
\* holds one, unless it was evicted.
HashState ==
  /\ \A k \in Key \ hashes : hash_usage[k] = 0
  /\ pc = "fill" => then = "fill"
  /\ then = "fill" /\ node \in kv_store => node \in hashes

\* No hash is there at the start.
LEMMA InitHashState == Init => HashState
BY DEF Init, HashState

\* Every step leaves the keys without a hash without a counter.
LEMMA NextHashState == IInv /\ HashState /\ [Next]_vars => HashState'
<1> SUFFICES ASSUME IInv, HashState, [Next]_vars PROVE HashState'
  OBVIOUS
<1> USE DEF HashState, IInv, TypeOK
<1>1. ASSUME NEW k \in Key, NEW u \in Usages, CreateNode(k, u) PROVE HashState'
  BY <1>1 DEF CreateNode, add_lru, hashVars
<1>2. ASSUME NEW k \in Key, NEW u \in Usages, CreateHash(k, u) PROVE HashState'
  BY <1>2 DEF CreateHash, add_lru
<1>3. ASSUME NEW k \in Key, NEW u \in Usages, Resize(k, u) PROVE HashState'
  BY <1>3 DEF Resize
<1>4. ASSUME NEW k \in Key, NEW u \in Usages, Pop(k, u) PROVE HashState'
  BY <1>4 DEF Pop, hashVars
<1>5. ASSUME NEW k \in Key, Touch(k) PROVE HashState'
  BY <1>5 DEF Touch, hashVars
<1>6. ASSUME NEW k \in Key, Unlink(k), UNCHANGED <<pc, then, node>> PROVE HashState'
  BY <1>6 DEF Unlink
<1>7. CASE Clear
  BY <1>7 DEF Clear
<1>8. CASE EvictOne
  <2>1. list.TAIL \in Key
    BY <1>8 DEF EvictOne, MustEvict, List, Pointer
  <2> QED BY <1>6, <1>8, <2>1 DEF EvictOne
<1>9. CASE LeaveLoop
  BY <1>9 DEF LeaveLoop, storeVars, hashVars
<1>10. ASSUME NEW d \in Usages, Fill(d) PROVE HashState'
  <2>1. hash_usage' = [hash_usage EXCEPT ![node] = Wrap(hash_usage[node] + d)]
    BY <1>10 DEF Fill, SetFields
  <2> QED BY <1>10, <2>1 DEF Fill
<1>11. CASE TouchHeld
  BY <1>11 DEF TouchHeld, hashVars
<1>12. CASE UseFreed
  BY <1>12 DEF UseFreed, hashVars
<1>13. ASSUME NEW k \in Key, NEW d \in Usages \cup {0}, SetHash(k, d) PROVE HashState'
  <2>1. hash_usage' = [hash_usage EXCEPT ![k] = Wrap(hash_usage[k] + d)]
    BY <1>13 DEF SetHash, SetFields
  <2> QED BY <1>13, <2>1 DEF SetHash
<1>14. ASSUME NEW k \in Key, NEW d \in Usages, DeleteReported(k, d) \/ DeleteSilent(k, d)
       PROVE  HashState'
  <2>1. /\ k \in hashes /\ UNCHANGED <<kv_store, hashes>> /\ pc = "idle"
        /\ hash_usage' = [hash_usage EXCEPT ![k] = Wrap(hash_usage[k] - d)]
    BY <1>14 DEF DeleteReported, DeleteSilent, DeleteFields
  <2>2. (pc' = "evict" /\ then' = "touch") \/ UNCHANGED <<pc, then, node>>
    BY <1>14 DEF DeleteReported, DeleteSilent
  <2> QED BY <2>1, <2>2
<1>15. CASE UNCHANGED vars
  BY <1>15 DEF vars, storeVars, hashVars
<1> QED
  BY <1>1, <1>2, <1>3, <1>4, <1>5, <1>6, <1>7, <1>8, <1>9, <1>10, <1>11, <1>12,
     <1>13, <1>14, <1>15 DEF Next, Handler, Finish, Remove

\* The counter is the sum of the sizes of the nodes.
Exact == current_memory_usage = SumFunctionOnSet(usage, kv_store)

\* No hash counts more than its node: what HDEL takes off can be taken off both.
HashesCounted == \A k \in hashes : hash_usage[k] <= usage[k]

\* The counter is exact, and outside the eviction loop it is within the limit:
\* this is why one more value cannot make it wrap.
Counted ==
  /\ Exact
  /\ pc # "evict" => current_memory_usage <= LRU_MAX_MEMORY
  /\ HashesCounted

\* The memory part of the invariant: it holds until an HDEL wraps a hash's counter.
Accounted == ~wrapped => Counted

\* The memory of a store, when the size of a node changes, and of the store
\* without it.
LEMMA StoreMemory ==
  ASSUME TypeOK, NEW k \in kv_store
  PROVE  /\ SumFunctionOnSet(usage, kv_store) \in Nat
         /\ usage[k] \in Nat
         /\ SumFunctionOnSet(usage, kv_store)
              = usage[k] + SumFunctionOnSet(usage, kv_store \ {k})
         /\ SumFunctionOnSet(usage, kv_store \ {k}) \in Nat
<1>1. IsFiniteSet(kv_store) /\ IsFiniteSet(kv_store \ {k})
  BY KeyAssumption, FS_Subset DEF TypeOK
<1>2. \A x \in kv_store : usage[x] \in Nat
  BY UsageType DEF TypeOK
<1> QED BY <1>1, <1>2, SumRemove

\* notify_memory_change keeps the counter exact (lru.cpp:66) when the difference
\* reported is the one by which the node changed, the old size reported is not
\* over the node's, and the limit and the growth fit a size_t.
LEMMA ReportExact ==
  ASSUME IInv, Counted, pc # "evict", NEW k \in kv_store,
         NEW u \in Nat, NEW old \in Nat, NEW new \in Nat,
         u = usage[k] + (new - old), old <= usage[k],
         LRU_MAX_MEMORY + (new - old) < SizeT,
         usage' = [usage EXCEPT ![k] = u], kv_store' = kv_store,
         current_memory_usage' = MemoryAfter(old, new)
  PROVE  Exact'
<1> DEFINE sum == SumFunctionOnSet(usage, kv_store)
<1>1. IsFiniteSet(kv_store) /\ k \in Key
  BY KeyAssumption, FS_Subset DEF IInv, TypeOK
<1>2. sum \in Nat /\ usage[k] \in Nat /\ usage[k] <= sum
  <2> DEFINE rest == SumFunctionOnSet(usage, kv_store \ {k})
  <2>1. sum \in Nat /\ usage[k] \in Nat /\ rest \in Nat /\ sum = usage[k] + rest
    BY StoreMemory DEF IInv
  <2> HIDE DEF sum, rest
  <2> QED BY <2>1
<1>3. LRU_MAX_MEMORY \in Nat /\ SizeT \in Nat
  BY UsageAssumption
<1>4. usage'[k] = u /\ \A x \in kv_store \ {k} : usage'[x] = usage[x]
  BY <1>1 DEF IInv, TypeOK
<1>5. \A x \in kv_store : usage[x] \in Nat /\ usage'[x] \in Nat
  BY <1>4, UsageType DEF IInv, TypeOK
<1>6. SumFunctionOnSet(usage', kv_store) = sum - usage[k] + u
  <2> DEFINE rest == SumFunctionOnSet(usage, kv_store \ {k})
  <2>1. sum = usage[k] + rest /\ rest \in Nat
    BY StoreMemory DEF IInv
  <2>2. IsFiniteSet(kv_store \ {k})
    BY <1>1, FS_RemoveElement
  <2>3. SumFunctionOnSet(usage', kv_store \ {k}) = rest
    BY <1>4, <2>2, SumCongruent
  <2>4. SumFunctionOnSet(usage', kv_store)
          = usage'[k] + SumFunctionOnSet(usage', kv_store \ {k})
    <3>1. k \in kv_store /\ \A x \in kv_store : usage'[x] \in Nat
      BY <1>5
    <3> QED BY ONLY <1>1, <3>1, SumRemove
  <2> HIDE DEF sum, rest
  <2> QED BY <2>1, <2>3, <2>4, <1>2, <1>4
<1>7. current_memory_usage = sum /\ sum <= LRU_MAX_MEMORY
  BY DEF Counted, Exact
<1> HIDE DEF sum
<1>8. MemoryAfter(old, new) = sum + (new - old)
  <2>1. CASE new > old
    <3>1. sum + (new - old) \in 0 .. SizeT - 1
      BY <2>1, <1>2, <1>3, <1>7
    <3>2. Wrap(sum + (new - old)) = sum + (new - old)
      BY <3>1, <1>3 DEF Wrap
    <3> QED BY <2>1, <3>2, <1>7 DEF MemoryAfter
  <2>2. CASE new <= old
    BY <2>2, <1>2, <1>7 DEF MemoryAfter
  <2> QED BY <2>1, <2>2
<1>9. sum - usage[k] + u = sum + (new - old)
  BY <1>2
<1> QED BY <1>6, <1>8, <1>9 DEF Exact

\* A node that gets the size u reports the difference of its own sizes.
LEMMA ResizeExact ==
  ASSUME IInv, Counted, pc # "evict", NEW k \in kv_store, NEW u \in Usages,
         usage' = [usage EXCEPT ![k] = u], kv_store' = kv_store,
         current_memory_usage' = MemoryAfter(usage[k], u)
  PROVE  Exact'
<1>1. usage[k] \in Nat /\ u \in Nat /\ LRU_MAX_MEMORY + u < SizeT
  BY UsageType, AmountType DEF IInv, TypeOK
<1>2. LRU_MAX_MEMORY \in Nat /\ SizeT \in Nat
  BY UsageAssumption
<1>3. /\ LRU_MAX_MEMORY + (u - usage[k]) < SizeT /\ u = usage[k] + (u - usage[k])
      /\ usage[k] <= usage[k]
  BY <1>1, <1>2
<1>4. PICK old \in Nat : old = usage[k]
  BY <1>1
<1>5. /\ LRU_MAX_MEMORY + (u - old) < SizeT /\ u = usage[k] + (u - old) /\ old <= usage[k]
      /\ current_memory_usage' = MemoryAfter(old, u)
  BY <1>3, <1>4
<1> QED BY <1>1, <1>5, ReportExact

\* While the counter is exact, no node is over the limit between two commands.
LEMMA NodeWithinLimit ==
  ASSUME IInv, Counted, pc # "evict", NEW k \in kv_store
  PROVE  usage[k] \in Nat /\ usage[k] <= LRU_MAX_MEMORY
<1> DEFINE sum == SumFunctionOnSet(usage, kv_store)
           rest == SumFunctionOnSet(usage, kv_store \ {k})
<1>1. usage[k] \in Nat /\ rest \in Nat /\ sum = usage[k] + rest
  BY StoreMemory DEF IInv
<1>2. sum <= LRU_MAX_MEMORY /\ LRU_MAX_MEMORY \in Nat
  BY UsageAssumption DEF Counted, Exact
<1> HIDE DEF sum, rest
<1> QED BY <1>1, <1>2

\* HSET reports the change of the hash's own counter, which is the change of the
\* node's size as long as no hash counts more than its node.
LEMMA SetFieldsExact ==
  ASSUME IInv, Counted, pc # "evict", NEW k \in hashes, NEW d \in Usages \cup {0},
         SetFields(k, d), kv_store' = kv_store, hashes' = hashes
  PROVE  Exact' /\ HashesCounted'
<1> DEFINE old == hash_usage[k]
           new == Wrap(old + d)
<1>1. k \in kv_store /\ k \in Key
  BY DEF IInv, TypeOK
<1>2. old \in Nat /\ usage[k] \in Nat /\ old <= usage[k] /\ usage[k] <= LRU_MAX_MEMORY
  BY <1>1, UsageType, NodeWithinLimit DEF IInv, Counted, HashesCounted
<1>3. d \in Nat /\ LRU_MAX_MEMORY + d < SizeT /\ LRU_MAX_MEMORY \in Nat /\ SizeT \in Nat
  BY AmountType, UsageAssumption
<1>4. /\ hash_usage' = [hash_usage EXCEPT ![k] = new]
      /\ usage' = [usage EXCEPT ![k] = Wrap(usage[k] + (new - old))]
      /\ current_memory_usage' = MemoryAfter(old, new)
  BY DEF SetFields
<1>5. new = old + d
  <2> HIDE DEF old
  <2>1. old + d \in 0 .. SizeT - 1
    BY <1>2, <1>3
  <2> QED BY <2>1, <1>3 DEF Wrap
<1> HIDE DEF old, new
<1>6. usage[k] + (new - old) = usage[k] + d /\ usage[k] + d \in 0 .. SizeT - 1
  BY <1>2, <1>3, <1>5
<1>7. Wrap(usage[k] + (new - old)) = usage[k] + (new - old)
  BY <1>3, <1>6 DEF Wrap
<1>8. Exact'
  <2>1. LRU_MAX_MEMORY + (new - old) < SizeT /\ new \in Nat
    BY <1>2, <1>3, <1>5
  <2>2. usage[k] + (new - old) \in Nat
    BY <1>6
  <2> QED BY <1>1, <1>2, <1>4, <1>7, <2>1, <2>2, ReportExact
<1>9. HashesCounted'
  <2> SUFFICES ASSUME NEW x \in hashes PROVE hash_usage'[x] <= usage'[x]
    BY DEF HashesCounted
  <2>1. x \in Key
    BY DEF IInv, TypeOK
  <2>2. CASE x = k
    <3>1. hash_usage'[x] = old + d /\ usage'[x] = usage[k] + d
      BY <2>1, <2>2, <1>4, <1>5, <1>6, <1>7 DEF IInv, TypeOK
    <3> QED BY <3>1, <1>2, <1>3
  <2>3. CASE x # k
    BY <2>1, <2>3, <1>4 DEF IInv, TypeOK, Counted, HashesCounted
  <2> QED BY <2>2, <2>3
<1> QED BY <1>8, <1>9

\* An HDEL that takes no more off the hash than its counter holds reports what it
\* takes off.
LEMMA DeleteExact ==
  ASSUME IInv, Counted, NEW k \in Key, NEW d \in Usages,
         DeleteReported(k, d) \/ DeleteSilent(k, d), d <= hash_usage[k]
  PROVE  Exact' /\ HashesCounted'
<1> DEFINE old == hash_usage[k]
           new == Wrap(old - d)
<1>1. k \in hashes /\ k \in kv_store /\ pc # "evict"
  BY DEF DeleteReported, DeleteSilent, DeleteFields, IInv, TypeOK
<1>2. old \in Nat /\ usage[k] \in Nat /\ old <= usage[k] /\ usage[k] <= LRU_MAX_MEMORY
  BY <1>1, UsageType, NodeWithinLimit DEF IInv, Counted, HashesCounted
<1>3. /\ d \in Nat \ {0} /\ LRU_MAX_MEMORY \in Nat /\ SizeT \in Nat
      /\ LRU_MAX_MEMORY < SizeT
  <2>1. LRU_MAX_MEMORY + 0 < SizeT
    BY MemoryAssumption
  <2>2. d \in Nat \ {0}
    BY UsageAssumption
  <2> QED BY <2>1, <2>2, UsageAssumption
<1>4. hash_usage' = [hash_usage EXCEPT ![k] = new] /\ hash_usage'[k] = new
  BY DEF DeleteReported, DeleteSilent, DeleteFields, IInv, TypeOK
<1>5. hashes' = hashes /\ kv_store' = kv_store
  BY DEF DeleteReported, DeleteSilent, DeleteFields
<1>6. d <= old
  OBVIOUS
<1>7. new = old - d
  <2> HIDE DEF old
  <2>1. old - d \in 0 .. SizeT - 1
    BY <1>2, <1>3, <1>6
  <2> QED BY <2>1, <1>3 DEF Wrap
<1>8. ~DeleteSilent(k, d)
  <2>1. old > new
    <3> HIDE DEF old, new
    <3> QED BY <1>2, <1>3, <1>7
  <2>2. DeleteSilent(k, d) => new >= old
    BY <1>4 DEF DeleteSilent
  <2> HIDE DEF old, new
  <2> QED BY <2>1, <2>2, <1>2, <1>3, <1>7
<1>9. /\ usage' = [usage EXCEPT ![k] = Wrap(usage[k] - (old - new))]
      /\ current_memory_usage' = MemoryAfter(old, new)
  BY <1>4, <1>8 DEF DeleteReported
<1> HIDE DEF old, new
<1>10. /\ usage[k] - (old - new) = usage[k] - d
       /\ usage[k] - d \in 0 .. SizeT - 1
       /\ usage[k] - d = usage[k] + (new - old)
  BY <1>2, <1>3, <1>6, <1>7
<1>11. Wrap(usage[k] - (old - new)) = usage[k] - d
  BY <1>3, <1>10 DEF Wrap
<1>12. Exact'
  <2>1. LRU_MAX_MEMORY + (new - old) < SizeT /\ new \in Nat
    BY <1>2, <1>3, <1>6, <1>7
  <2>2. usage[k] - d \in Nat
    BY <1>10
  <2> QED BY <1>1, <1>2, <1>5, <1>9, <1>10, <1>11, <2>1, <2>2, ReportExact
<1>13. HashesCounted'
  <2> SUFFICES ASSUME NEW x \in hashes PROVE hash_usage'[x] <= usage'[x]
    BY <1>5 DEF HashesCounted
  <2>1. x \in Key
    BY DEF IInv, TypeOK
  <2>2. CASE x = k
    <3>1. hash_usage'[x] = old - d /\ usage'[x] = usage[k] - d
      BY <2>1, <2>2, <1>4, <1>7, <1>9, <1>11 DEF IInv, TypeOK
    <3> QED BY <3>1, <1>2, <1>3
  <2>3. CASE x # k
    BY <2>1, <2>3, <1>4, <1>9 DEF IInv, TypeOK, Counted, HashesCounted
  <2> QED BY <2>2, <2>3
<1> QED BY <1>12, <1>13

\* add_lru counts the node it links, once.
LEMMA AddExact ==
  ASSUME IInv, Counted, pc # "evict", NEW k \in Key, k \notin kv_store, NEW u \in Usages,
         add_lru(k, u)
  PROVE  Exact'
<1> DEFINE sum == SumFunctionOnSet(usage, kv_store)
<1>1. IsFiniteSet(kv_store) /\ IsFiniteSet(kv_store') /\ kv_store' = kv_store \cup {k}
  <2>1. kv_store \in SUBSET Key /\ kv_store \cup {k} \in SUBSET Key
    BY DEF IInv, TypeOK
  <2> QED BY <2>1, KeyAssumption, FS_Subset DEF add_lru
<1>2. u \in Nat /\ LRU_MAX_MEMORY \in Nat /\ SizeT \in Nat /\ LRU_MAX_MEMORY + u < SizeT
  BY UsageAssumption, AmountType
<1>3. usage'[k] = u /\ \A x \in kv_store : usage'[x] = usage[x]
  BY DEF add_lru, IInv, TypeOK
<1>4. \A x \in kv_store' : usage'[x] \in Nat
  BY <1>1, <1>2, <1>3, UsageType DEF IInv, TypeOK
<1>5. SumFunctionOnSet(usage', kv_store) = sum
  BY <1>1, <1>3, SumCongruent
<1>6. kv_store' \ {k} = kv_store /\ k \in kv_store'
  BY <1>1
<1>7. SumFunctionOnSet(usage', kv_store') = u + sum
  BY <1>1, <1>3, <1>4, <1>5, <1>6, SumRemove
<1>8. current_memory_usage = sum /\ sum <= LRU_MAX_MEMORY /\ sum \in Nat
  BY DEF Counted, Exact, IInv, TypeOK
<1> HIDE DEF sum
<1>9. Wrap(sum + u) = u + sum
  BY <1>2, <1>8 DEF Wrap
<1> QED BY <1>7, <1>8, <1>9 DEF Exact, add_lru

\* A node that leaves gives back what it was counted for: the subtraction never
\* wraps (remove_from_lru, evict_lru).
LEMMA UnlinkExact ==
  ASSUME IInv, Counted, NEW k \in kv_store, Unlink(k)
  PROVE  Exact' /\ HashesCounted' /\ current_memory_usage' <= current_memory_usage
<1> DEFINE rest == SumFunctionOnSet(usage, kv_store \ {k})
<1>1. /\ current_memory_usage = usage[k] + rest
      /\ usage[k] \in Nat /\ rest \in Nat
  BY StoreMemory DEF IInv, Counted, Exact
<1>2. \A x \in kv_store \ {k} : usage[x] = usage'[x]
  BY DEF Unlink, IInv, TypeOK
<1>3. IsFiniteSet(kv_store \ {k})
  BY KeyAssumption, FS_Subset DEF IInv, TypeOK
<1>4. SumFunctionOnSet(usage', kv_store \ {k}) = rest
  BY <1>2, <1>3, SumCongruent
<1>5. SizeT \in Nat \ {0} /\ current_memory_usage \in 0 .. SizeT - 1
  BY UsageAssumption DEF IInv, TypeOK
<1> HIDE DEF rest
<1>6. current_memory_usage - usage[k] = rest /\ rest \in 0 .. SizeT - 1
  BY <1>1, <1>5
<1>7. Wrap(rest) = rest
  BY <1>5, <1>6 DEF Wrap
<1>8. HashesCounted'
  <2> SUFFICES ASSUME NEW x \in hashes' PROVE hash_usage'[x] <= usage'[x]
    BY DEF HashesCounted
  <2>1. x \in hashes /\ x # k /\ x \in Key
    BY DEF Unlink, IInv, TypeOK
  <2> QED BY <2>1 DEF Unlink, IInv, TypeOK, Counted, HashesCounted
<1>9. Exact'
  BY <1>4, <1>6, <1>7 DEF Exact, Unlink
<1>10. current_memory_usage' <= current_memory_usage
  BY <1>1, <1>6, <1>7 DEF Unlink
<1> QED BY <1>8, <1>9, <1>10

\* The counter starts exact.
LEMMA InitAccounted == Init => Accounted
<1>1. SumFunctionOnSet([k \in Key |-> 0], {}) = 0
  BY SumPick, FS_EmptySet
<1> QED BY <1>1, UsageAssumption DEF Init, Accounted, Counted, Exact, HashesCounted

\* Every step keeps the counter exact until an HDEL wraps a hash's counter; the
\* eviction loop ends within the limit, because an empty store counts nothing.
\* FLUSHDB makes the counter exact whatever went before.
LEMMA NextAccounted == IInv /\ HashState /\ Accounted /\ [Next]_vars => Accounted'
<1> SUFFICES ASSUME IInv, HashState, Accounted, [Next]_vars, ~wrapped' PROVE Counted'
  BY DEF Accounted
<1> USE DEF Accounted
<1>1. ASSUME NEW k \in Key, NEW u \in Usages, CreateNode(k, u) \/ CreateHash(k, u)
      PROVE  Counted'
  <2>1. /\ pc # "evict" /\ k \notin kv_store /\ add_lru(k, u)
        /\ ~wrapped /\ hash_usage' = hash_usage /\ hashes' \subseteq hashes \cup {k}
    BY <1>1 DEF CreateNode, CreateHash, hashVars
  <2>2. Exact' /\ pc' = "evict"
    BY <2>1, AddExact DEF add_lru
  <2>3. ASSUME NEW x \in hashes' PROVE hash_usage'[x] <= usage'[x]
    <3>1. CASE x = k
      <4>1. k \notin hashes /\ usage'[k] = u /\ u \in Nat
        BY <2>1, AmountType DEF add_lru, IInv, TypeOK
      <4>2. hash_usage[k] = 0
        BY <4>1 DEF HashState
      <4> QED BY <3>1, <4>1, <4>2, <2>1
    <3>2. CASE x # k
      <4>1. x \in hashes /\ x \in Key
        BY <2>1, <3>2 DEF IInv, TypeOK
      <4> QED BY <3>2, <4>1, <2>1 DEF add_lru, IInv, TypeOK, Counted, HashesCounted
    <3> QED BY <3>1, <3>2
  <2> QED BY <2>2, <2>3 DEF Counted, HashesCounted
<1>2. ASSUME NEW k \in Key, NEW u \in Usages, Resize(k, u) PROVE Counted'
  <2>1. Exact' /\ pc' = "evict"
    BY <1>2, ResizeExact DEF Resize
  <2>2. ASSUME NEW x \in hashes' PROVE hash_usage'[x] <= usage'[x]
    <3>1. x \in hashes /\ x # k /\ x \in Key /\ ~wrapped
      BY <1>2 DEF Resize, IInv, TypeOK
    <3> QED BY <1>2, <3>1 DEF Resize, IInv, TypeOK, Counted, HashesCounted
  <2> QED BY <2>1, <2>2 DEF Counted, HashesCounted
<1>3. ASSUME NEW k \in Key, NEW u \in Usages, Pop(k, u) PROVE Counted'
  <2>1. Exact' /\ pc' = "evict"
    BY <1>3, ResizeExact DEF Pop, hashVars
  <2>2. ASSUME NEW x \in hashes' PROVE hash_usage'[x] <= usage'[x]
    <3>1. x \in hashes /\ x # k /\ x \in Key /\ ~wrapped
      BY <1>3 DEF Pop, hashVars, IInv, TypeOK
    <3> QED BY <1>3, <3>1 DEF Pop, hashVars, IInv, TypeOK, Counted, HashesCounted
  <2> QED BY <2>1, <2>2 DEF Counted, HashesCounted
<1>4. ASSUME NEW k \in Key, Touch(k) PROVE Counted'
  BY <1>4 DEF Touch, hashVars, Counted, Exact, HashesCounted
<1>5. ASSUME NEW k \in Key, Remove(k) PROVE Counted'
  <2>1. Unlink(k) /\ k \in kv_store /\ ~wrapped /\ pc' = pc /\ pc # "evict"
    BY <1>5 DEF Remove, Unlink
  <2>2. /\ current_memory_usage <= LRU_MAX_MEMORY
        /\ {current_memory_usage, current_memory_usage', LRU_MAX_MEMORY} \subseteq Int
    BY <2>1, NextIInv, UsageAssumption DEF Counted, IInv, TypeOK
  <2> QED BY <2>1, <2>2, UnlinkExact DEF Counted
<1>6. CASE Clear
  <2>1. SumFunctionOnSet(usage', {}) = 0
    BY SumPick, FS_EmptySet
  <2> QED BY <1>6, <2>1, UsageAssumption DEF Clear, Counted, Exact, HashesCounted
<1>7. CASE EvictOne
  <2>1. list.TAIL \in kv_store
    BY <1>7 DEF EvictOne, MustEvict, IInv, Running, Sorted, Linked
  <2>2. Unlink(list.TAIL) /\ ~wrapped /\ pc' = "evict"
    BY <1>7 DEF EvictOne, Unlink
  <2> QED BY <2>1, <2>2, UnlinkExact DEF Counted
<1>8. CASE LeaveLoop
  <2>1. Exact' /\ HashesCounted' /\ Counted
    BY <1>8 DEF LeaveLoop, storeVars, hashVars, Counted, Exact, HashesCounted
  <2>2. CASE list.TAIL = NULL
    <3>1. kv_store = {}
      BY <1>8, <2>2 DEF LeaveLoop, IInv, Running, Sorted, Linked
    <3>2. current_memory_usage = 0
      BY <2>1, <3>1, SumPick, FS_EmptySet DEF Counted, Exact
    <3> QED BY <1>8, <2>1, <3>2, UsageAssumption DEF LeaveLoop, storeVars, Counted
  <2>3. CASE list.TAIL # NULL
    <3>1. current_memory_usage <= LRU_MAX_MEMORY
      BY <1>8, <2>3, UsageAssumption DEF LeaveLoop, MustEvict, IInv, TypeOK
    <3> QED BY <1>8, <2>1, <3>1 DEF LeaveLoop, storeVars, Counted
  <2> QED BY <2>2, <2>3
<1>9. ASSUME NEW d \in Usages, Fill(d) PROVE Counted'
  <2>1. node \in hashes
    BY <1>9 DEF Fill, HashState
  <2>2. ~wrapped /\ pc # "evict" /\ pc' = "evict"
    BY <1>9 DEF Fill
  <2> QED BY <1>9, <2>1, <2>2, SetFieldsExact DEF Fill, Counted
<1>10. CASE TouchHeld
  BY <1>10 DEF TouchHeld, hashVars, Counted, Exact, HashesCounted
<1>11. CASE UseFreed
  BY <1>11 DEF UseFreed, hashVars, Counted, Exact, HashesCounted
<1>12. ASSUME NEW k \in Key, NEW d \in Usages \cup {0}, SetHash(k, d) PROVE Counted'
  <2>1. k \in hashes /\ ~wrapped /\ pc # "evict" /\ pc' = "evict"
    BY <1>12 DEF SetHash
  <2> QED BY <1>12, <2>1, SetFieldsExact DEF SetHash, Counted
<1>13. ASSUME NEW k \in Key, NEW d \in Usages, DeleteReported(k, d) \/ DeleteSilent(k, d)
       PROVE  Counted'
  <2>1. pc # "evict" /\ wrapped' = (wrapped \/ d > hash_usage[k])
    BY <1>13 DEF DeleteReported, DeleteSilent, DeleteFields
  <2>2. ~wrapped /\ ~(d > hash_usage[k])
    BY <2>1
  <2>3. d <= hash_usage[k]
    BY <2>2, AmountType, UsageType DEF IInv
  <2>4. Exact' /\ HashesCounted'
    BY <1>13, <2>2, <2>3, DeleteExact
  <2>5. pc' = "evict" \/ current_memory_usage' = current_memory_usage
    BY <1>13 DEF DeleteReported, DeleteSilent
  <2> QED BY <2>1, <2>2, <2>4, <2>5 DEF Counted
<1>14. CASE UNCHANGED vars
  BY <1>14 DEF vars, storeVars, hashVars, Counted, Exact, HashesCounted
<1> QED
  BY <1>1, <1>2, <1>3, <1>4, <1>5, <1>6, <1>7, <1>8, <1>9, <1>10, <1>11, <1>12,
     <1>13, <1>14
  DEF Next, Handler, Finish

\* In every reachable state, unless an HDEL has wrapped a hash's counter since the
\* last FLUSHDB, the counter of lru.cpp is the sum of the sizes of the nodes in the
\* store: no handler counts a byte twice, loses one or wraps the counter.
THEOREM MemoryCorrect == Spec => []MemoryExact
<1>1. Accounted => MemoryExact
  BY DEF Accounted, Counted, Exact, MemoryExact
<1> QED
  BY <1>1, InitIInv, NextIInv, InitHashState, NextHashState, InitAccounted,
         NextAccounted, PTL DEF Spec

\* Between two commands the memory in use is within the limit, whatever the sizes
\* of the values, also when a single value exceeds it, unless an HDEL has wrapped
\* a hash's counter since the last FLUSHDB.
THEOREM LimitHolds == Spec => []WithinLimit
<1>1. Accounted => WithinLimit
  BY DEF Accounted, Counted, WithinLimit, AlwaysWithinLimit
<1> QED
  BY <1>1, InitIInv, NextIInv, InitHashState, NextHashState, InitAccounted,
         NextAccounted, PTL DEF Spec

\* An iteration of the eviction loop that frees the most recently used node frees
\* the last node there is, and that one alone is over the limit, unless an HDEL
\* has wrapped a hash's counter.
THEOREM NewestKept == Spec => NewestSurvives
<1> DEFINE A == \A k \in kv_store :
                  (~wrapped /\ pc = "evict" /\ newer[k] = {} /\ k \notin kv_store')
                    => usage[k] > LRU_MAX_MEMORY
<1>1. IInv /\ Accounted /\ [Next]_vars => A \/ UNCHANGED vars
  <2> SUFFICES ASSUME IInv, Counted, Next, NEW k \in kv_store,
                      pc = "evict", newer[k] = {}, k \notin kv_store'
               PROVE  usage[k] > LRU_MAX_MEMORY
    BY DEF Accounted
  <2>1. EvictOne
    BY DEF Next, Handler, Finish, CreateNode, CreateHash, Resize, Pop, Touch, Remove, Clear,
           SetHash, DeleteReported, DeleteSilent, DeleteFields,
           LeaveLoop, Fill, TouchHeld, UseFreed, storeVars
  <2>2. list.TAIL = k /\ Sorted(list, kv_store, newer) /\ list.TAIL # NULL
    BY <2>1 DEF EvictOne, MustEvict, Unlink, IInv, Running
  <2>3. kv_store \ {k} = {}
    BY <2>2 DEF Sorted, InOrderOfUse
  <2>4. SumFunctionOnSet(usage, kv_store \ {k}) = 0
    BY <2>3, SumPick, FS_EmptySet
  <2>5. current_memory_usage = usage[k]
    BY <2>4, StoreMemory DEF IInv, Counted, Exact
  <2> QED BY <2>1, <2>5 DEF EvictOne, MustEvict
<1>2. NewestSurvives <=> [][A]_vars
  BY DEF NewestSurvives
<1> HIDE DEF A
<1> QED
  BY <1>1, <1>2, InitIInv, NextIInv, InitHashState, NextHashState, InitAccounted,
         NextAccounted, PTL DEF Spec

=============================================================================
