-------------------------------- MODULE Lru --------------------------------
(***************************************************************************)
(* The LRU list and the memory accounting of DrutaDB: src/src/lru.cpp and  *)
(* the way the command handlers of src/src/commands.cpp drive it.          *)
(*                                                                         *)
(* kv_store owns one DrutaNode per key; the list links the same nodes      *)
(* through raw pointers, from TAIL (least recently used) to HEAD.  A node  *)
(* is named by its key.                                                    *)
(*                                                                         *)
(* Handlers report to the memory counter what they changed: the difference *)
(* of two sizes of the node, except for HSET and HDEL, which report the    *)
(* difference of DrutaHash::memory_usage.  HDEL may take more off that     *)
(* counter than HSET added to it (module DrutaHash says when).             *)
(*                                                                         *)
(* A handler that changes the size of a value runs   *)
(* the eviction loop while it still holds a pointer to its node, so each   *)
(* iteration of the loop is a step, and pc is where the (single) server    *)
(* thread stands:                                                          *)
(*                                                                         *)
(*   idle    between two commands                                          *)
(*   evict   in the while loop of add_lru or notify_memory_change          *)
(*   fill    command_hset, back from add_lru, about to write the fields    *)
(*   touch   about to call touch_lru on the pointer it holds               *)
(*   crashed, corrupt   after touching a freed node (undefined behaviour)  *)
(***************************************************************************)
EXTENDS Integers, FiniteSets, Functions

CONSTANTS
  Key,
  NULL,            \* the null pointer
  Usages,          \* the sizes handlers give a node, and the amounts by which
                   \* the fields of a hash change its size
  LRU_MAX_MEMORY,
  HashKey,         \* bound: the keys under which clients create hashes
  SizeT,           \* size_t counts modulo SizeT (2^64 in the build)
  MaxHashWrites    \* bound: HSET and HDEL on existing hashes between two FLUSHDB

ASSUME NullAssumption == NULL \notin Key
ASSUME KeyAssumption == IsFiniteSet(Key)
ASSUME UsageAssumption ==
  /\ Usages \subseteq Nat \ {0}
  /\ LRU_MAX_MEMORY \in Nat
  /\ {SizeT, MaxHashWrites} \subseteq Nat \ {0}

\* The limit and one value more fit a size_t.
ASSUME MemoryAssumption == \A u \in Usages \cup {0} : LRU_MAX_MEMORY + u < SizeT

VARIABLES
  kv_store,              \* the keys whose node is allocated
  list,                  \* HEAD, TAIL and the next and prev field of every node
  lru_size,
  usage,                 \* get_memory_usage() of every node, 0 when there is none
  current_memory_usage,
  hashes,                \* the keys that hold a hash
  hash_usage,            \* DrutaHash::memory_usage of every hash, 0 elsewhere
  pc,
  then,                  \* what the handler does after the eviction loop
  node,                  \* the DrutaNode* the handler holds across the loop
  newer,                 \* history: newer[k], the keys used more recently than k
  hash_writes,           \* HSET and HDEL so far, for the bound
  wrapped                \* history: an HDEL took more off a hash than its
                         \* counter held, since the last FLUSHDB

hashVars == <<hashes, hash_usage, hash_writes, wrapped>>
storeVars == <<kv_store, list, lru_size, usage, current_memory_usage, newer, hashVars>>
vars == <<storeVars, pc, then, node>>

Pointer == Key \cup {NULL}
List == [HEAD : Pointer, TAIL : Pointer,
         next : [Key -> Pointer], prev : [Key -> Pointer]]

-----------------------------------------------------------------------------
(* The list operations, as functions from list to list.                    *)

detach(l, n) ==
  LET p == l.prev[n]
      x == l.next[n]
  IN [HEAD |-> IF x = NULL THEN p ELSE l.HEAD,
      TAIL |-> IF p = NULL THEN x ELSE l.TAIL,
      next |-> [k \in Key |-> IF k = n THEN NULL
                              ELSE IF k = p THEN x ELSE l.next[k]],
      prev |-> [k \in Key |-> IF k = n THEN NULL
                              ELSE IF k = x THEN p ELSE l.prev[k]]]

\* Mutant: the first node of the list becomes HEAD but not TAIL.
AttachWithoutTail(l, n) ==
  IF l.HEAD = NULL
  THEN [l EXCEPT !.HEAD = n]
  ELSE [l EXCEPT !.HEAD = n, !.prev[n] = l.HEAD, !.next[l.HEAD] = n]

attach_head(l, n) ==
  IF l.HEAD = NULL
  THEN [l EXCEPT !.HEAD = n, !.TAIL = n]
  ELSE [l EXCEPT !.HEAD = n, !.prev[n] = l.HEAD, !.next[l.HEAD] = n]

\* Mutant: touching the least recently used node leaves it where it is.
TouchExceptTail(l, n) ==
  IF n \in {l.HEAD, l.TAIL} THEN l ELSE attach_head(detach(l, n), n)

touch_lru(l, n) == IF n = l.HEAD THEN l ELSE attach_head(detach(l, n), n)

Wrap(n) == n % SizeT

\* Mutant: memory that a value gives back is not subtracted.
MemoryOnlyGrows(old_size, new_size) ==
  IF new_size > old_size
  THEN Wrap(current_memory_usage + (new_size - old_size))
  ELSE current_memory_usage

\* notify_memory_change before its loop: the new current_memory_usage when
\* old_size bytes became new_size.
MemoryAfter(old_size, new_size) ==
  IF new_size > old_size
  THEN Wrap(current_memory_usage + (new_size - old_size))
  ELSE IF current_memory_usage > old_size - new_size
       THEN current_memory_usage - (old_size - new_size)
       ELSE 0

\* The history variable, when k becomes the newest key and when k leaves.
MadeNewest(k) ==
  [x \in Key |-> IF x \in kv_store \ {k} THEN newer[x] \cup {k} ELSE {}]
Without(k) == [x \in Key |-> IF x = k THEN {} ELSE newer[x] \ {k}]

-----------------------------------------------------------------------------
Init ==
  /\ kv_store = {}
  /\ list = [HEAD |-> NULL, TAIL |-> NULL,
             next |-> [k \in Key |-> NULL], prev |-> [k \in Key |-> NULL]]
  /\ lru_size = 0
  /\ usage = [k \in Key |-> 0]
  /\ current_memory_usage = 0
  /\ hashes = {} /\ hash_usage = [k \in Key |-> 0]
  /\ hash_writes = 0 /\ wrapped = FALSE
  /\ pc = "idle" /\ then = "return" /\ node = NULL
  /\ newer = [k \in Key |-> {}]

\* add_lru on the node just stored under k, up to its eviction loop.
add_lru(k, u) ==
  /\ kv_store' = kv_store \cup {k}
  /\ usage' = [usage EXCEPT ![k] = u]
  /\ current_memory_usage' = Wrap(current_memory_usage + u)
  /\ list' = attach_head(list, k)
  /\ lru_size' = lru_size + 1
  /\ newer' = MadeNewest(k)
  /\ pc' = "evict"

\* SET, LPUSH, RPUSH and SADD on a key that does not exist: the handler does
\* not use its node after add_lru.
CreateNode(k, u) ==
  /\ pc = "idle" /\ k \notin kv_store
  /\ add_lru(k, u)
  /\ then' = "return" /\ node' = NULL
  /\ UNCHANGED hashVars

\* HSET on a key that does not exist: an empty hash is linked first, and its
\* fields are written through the node's pointer after add_lru.
CreateHash(k, u) ==
  /\ pc = "idle" /\ k \in HashKey \ kv_store
  /\ add_lru(k, u)
  /\ hashes' = hashes \cup {k}
  /\ then' = "fill" /\ node' = k
  /\ UNCHANGED <<hash_usage, hash_writes, wrapped>>

\* update_lru (SET, also over a hash), and LPUSH, RPUSH, SADD and SDEL on an
\* existing key: the node changes size, notify_memory_change runs its loop, and
\* only then is the node touched.
Resize(k, u) ==
  /\ pc = "idle" /\ k \in kv_store
  /\ usage' = [usage EXCEPT ![k] = u]
  /\ current_memory_usage' = MemoryAfter(usage[k], u)
  /\ hashes' = hashes \ {k}
  /\ hash_usage' = [hash_usage EXCEPT ![k] = 0]
  /\ pc' = "evict" /\ then' = "touch" /\ node' = k
  /\ UNCHANGED <<kv_store, list, lru_size, newer, hash_writes, wrapped>>

\* Mutant: command_hset reports the fields the hash had before as new ones.
ReportAllFields(k, d) ==
  LET old_mem == hash_usage[k]
      new_mem == Wrap(old_mem + d)
  IN /\ hash_usage' = [hash_usage EXCEPT ![k] = new_mem]
     /\ usage' = [usage EXCEPT ![k] = Wrap(@ + (new_mem - old_mem))]
     /\ current_memory_usage' = MemoryAfter(0, new_mem)

\* set_hash for all the fields of an HSET, which adds d bytes to the hash's
\* counter, and notify_memory_change with that counter.
SetFields(k, d) ==
  LET old_mem == hash_usage[k]
      new_mem == Wrap(old_mem + d)
  IN /\ hash_usage' = [hash_usage EXCEPT ![k] = new_mem]
     /\ usage' = [usage EXCEPT ![k] = Wrap(@ + (new_mem - old_mem))]
     /\ current_memory_usage' = MemoryAfter(old_mem, new_mem)

\* HSET on an existing hash.
SetHash(k, d) ==
  /\ pc = "idle" /\ k \in hashes /\ hash_writes < MaxHashWrites
  /\ SetFields(k, d)
  /\ hash_writes' = hash_writes + 1
  /\ pc' = "evict" /\ then' = "touch" /\ node' = k
  /\ UNCHANGED <<kv_store, list, lru_size, newer, hashes, wrapped>>

\* HDEL of fields for which del_hash takes d bytes off the hash's counter.
DeleteFields(k, d) ==
  /\ pc = "idle" /\ k \in hashes /\ hash_writes < MaxHashWrites
  /\ hash_usage' = [hash_usage EXCEPT ![k] = Wrap(@ - d)]
  /\ hash_writes' = hash_writes + 1
  /\ wrapped' = (wrapped \/ d > hash_usage[k])
  /\ UNCHANGED <<kv_store, lru_size, hashes>>

\* The hash's counter went down: node and memory counter follow it.
DeleteReported(k, d) ==
  /\ DeleteFields(k, d)
  /\ LET old_mem == hash_usage[k]
         new_mem == hash_usage'[k]
     IN /\ old_mem > new_mem
        /\ usage' = [usage EXCEPT ![k] = Wrap(@ - (old_mem - new_mem))]
        /\ current_memory_usage' = MemoryAfter(old_mem, new_mem)
  /\ pc' = "evict" /\ then' = "touch" /\ node' = k
  /\ UNCHANGED <<list, newer>>

\* The hash's counter wrapped and looks larger: HDEL reports nothing.
DeleteSilent(k, d) ==
  /\ DeleteFields(k, d)
  /\ hash_usage'[k] >= hash_usage[k]
  /\ list' = touch_lru(list, k)
  /\ newer' = MadeNewest(k)
  /\ UNCHANGED <<usage, current_memory_usage, pc, then, node>>

\* LPOP and RPOP touch the node before its memory is given back.
Pop(k, u) ==
  /\ pc = "idle" /\ k \in kv_store \ hashes /\ u <= usage[k]
  /\ list' = touch_lru(list, k)
  /\ newer' = MadeNewest(k)
  /\ usage' = [usage EXCEPT ![k] = u]
  /\ current_memory_usage' = MemoryAfter(usage[k], u)
  /\ pc' = "evict" /\ then' = "return" /\ node' = NULL
  /\ UNCHANGED <<kv_store, lru_size, hashVars>>

\* GET, LRANGE, LLEN, HGET, HGETALL, and an HDEL that deletes nothing.
Touch(k) ==
  /\ pc = "idle" /\ k \in kv_store
  /\ list' = touch_lru(list, k)
  /\ newer' = MadeNewest(k)
  /\ UNCHANGED <<kv_store, lru_size, usage, current_memory_usage, pc, then, node,
                 hashVars>>

\* Mutant: the number of nodes is not decremented.
UnlinkKeepsSize(k) ==
  /\ current_memory_usage' = Wrap(current_memory_usage - usage[k])
  /\ list' = detach(list, k)
  /\ kv_store' = kv_store \ {k}
  /\ usage' = [usage EXCEPT ![k] = 0]
  /\ hashes' = hashes \ {k}
  /\ hash_usage' = [hash_usage EXCEPT ![k] = 0]
  /\ newer' = Without(k)
  /\ UNCHANGED <<lru_size, hash_writes, wrapped>>

\* The node of k leaves the list and kv_store.erase frees it.
Unlink(k) ==
  /\ current_memory_usage' = Wrap(current_memory_usage - usage[k])
  /\ list' = detach(list, k)
  /\ lru_size' = lru_size - 1
  /\ kv_store' = kv_store \ {k}
  /\ usage' = [usage EXCEPT ![k] = 0]
  /\ hashes' = hashes \ {k}
  /\ hash_usage' = [hash_usage EXCEPT ![k] = 0]
  /\ newer' = Without(k)
  /\ UNCHANGED <<hash_writes, wrapped>>

\* remove_from_lru and erase: DEL, and GET on an expired key.
Remove(k) ==
  /\ pc = "idle" /\ k \in kv_store
  /\ Unlink(k)
  /\ UNCHANGED <<pc, then, node>>

\* clear_lru and kv_store.clear(): FLUSHDB, after which no hash is left to have
\* a wrong counter.
Clear ==
  /\ pc = "idle"
  /\ kv_store' = {} /\ lru_size' = 0 /\ current_memory_usage' = 0
  /\ list' = [HEAD |-> NULL, TAIL |-> NULL,
              next |-> [k \in Key |-> NULL], prev |-> [k \in Key |-> NULL]]
  /\ usage' = [k \in Key |-> 0]
  /\ hashes' = {} /\ hash_usage' = [k \in Key |-> 0]
  /\ hash_writes' = 0 /\ wrapped' = FALSE
  /\ newer' = [k \in Key |-> {}]
  /\ UNCHANGED <<pc, then, node>>

\* Mutant: the loop stops when one node is left.
MustEvictSpareLast ==
  current_memory_usage > LRU_MAX_MEMORY /\ list.TAIL # list.HEAD

MustEvict == current_memory_usage > LRU_MAX_MEMORY /\ list.TAIL # NULL

\* Mutant: the eviction loop removes the most recently used node.
EvictNewest ==
  /\ pc = "evict" /\ MustEvict
  /\ Unlink(list.HEAD)
  /\ UNCHANGED <<pc, then, node>>

\* Mutant: evict_lru refuses to free the last node, and the loop spins.
EvictSpin ==
  /\ pc = "evict" /\ MustEvict
  /\ IF list.TAIL = list.HEAD
     THEN UNCHANGED storeVars
     ELSE Unlink(list.TAIL)
  /\ UNCHANGED <<pc, then, node>>

\* One iteration of the loop of add_lru or notify_memory_change.
EvictOne ==
  /\ pc = "evict" /\ MustEvict
  /\ Unlink(list.TAIL)
  /\ UNCHANGED <<pc, then, node>>

LeaveLoop ==
  /\ pc = "evict" /\ ~MustEvict
  /\ pc' = IF then = "return" THEN "idle" ELSE then
  /\ UNCHANGED <<storeVars, then, node>>

\* command_hset writes the fields of the hash it created.
Fill(d) ==
  /\ pc = "fill" /\ node \in kv_store
  /\ SetFields(node, d)
  /\ pc' = "evict" /\ then' = "touch"
  /\ UNCHANGED <<kv_store, list, lru_size, newer, node, hashes, hash_writes, wrapped>>

TouchHeld ==
  /\ pc = "touch" /\ node \in kv_store
  /\ list' = touch_lru(list, node)
  /\ newer' = MadeNewest(node)
  /\ pc' = "idle" /\ then' = "return" /\ node' = NULL
  /\ UNCHANGED <<kv_store, lru_size, usage, current_memory_usage, hashVars>>

\* The pointer the handler holds is to a node the loop has freed.  Either the
\* access kills the process, or it finds the null links detach left there, and
\* detach and attach_head then make the freed node the whole list.
UseFreed ==
  /\ pc \in {"fill", "touch"} /\ node \notin kv_store
  /\ \/ pc' = "crashed" /\ UNCHANGED list
     \/ pc' = "corrupt" /\ list' = touch_lru(list, node)
  /\ UNCHANGED <<kv_store, lru_size, usage, current_memory_usage, newer, then, node,
                 hashVars>>

Handler ==
  \/ \E k \in Key, u \in Usages :
       \/ CreateNode(k, u) \/ CreateHash(k, u) \/ Resize(k, u) \/ Pop(k, u)
       \/ DeleteReported(k, u) \/ DeleteSilent(k, u)
  \/ \E k \in Key, d \in Usages \cup {0} : SetHash(k, d)
  \/ \E k \in Key : Touch(k) \/ Remove(k)
  \/ Clear

\* The steps that finish a handler already started.
Finish ==
  \/ EvictOne \/ LeaveLoop \/ TouchHeld \/ UseFreed
  \/ \E d \in Usages : Fill(d)

Next == Handler \/ Finish

\* The server thread finishes what it started; clients need not send anything.
Spec == Init /\ [][Next]_vars /\ WF_vars(Finish)
-----------------------------------------------------------------------------
(* Properties.                                                             *)

\* The server has not executed undefined behaviour.
Running == pc \notin {"crashed", "corrupt"}

\* Every variable has its type; lru_size never counts more nodes than there
\* are keys and the memory counter stays a size_t.
TypeOK ==
  /\ kv_store \subseteq Key
  /\ list \in List
  /\ lru_size \in 0 .. Cardinality(Key)
  /\ usage \in [Key -> 0 .. SizeT - 1]
  /\ current_memory_usage \in 0 .. SizeT - 1
  /\ hashes \subseteq kv_store
  /\ hash_usage \in [Key -> 0 .. SizeT - 1]
  /\ hash_writes \in 0 .. MaxHashWrites /\ wrapped \in BOOLEAN
  /\ pc \in {"idle", "evict", "fill", "touch", "crashed", "corrupt"}
  /\ then \in {"return", "fill", "touch"}
  /\ node \in Pointer
  /\ newer \in [Key -> SUBSET Key]

\* The nodes of S, and no others, form one list l: next and prev are inverse to
\* each other, only TAIL has no predecessor, only HEAD has no successor, and a
\* node that is not in S is linked to nothing.
Linked(l, S) ==
  /\ l.HEAD \in S \cup {NULL} /\ l.TAIL \in S \cup {NULL}
  /\ S = {} <=> l.HEAD = NULL
  /\ S = {} <=> l.TAIL = NULL
  /\ \A k \in S :
       /\ l.next[k] \in S \cup {NULL} /\ l.prev[k] \in S \cup {NULL}
       /\ l.next[k] = NULL <=> k = l.HEAD
       /\ l.prev[k] = NULL <=> k = l.TAIL
       /\ l.next[k] # NULL => l.prev[l.next[k]] = k
       /\ l.prev[k] # NULL => l.next[l.prev[k]] = k
  /\ \A k \in Key \ S : l.next[k] = NULL /\ l.prev[k] = NULL

\* Following next from a node of l visits exactly the keys used after it (nw),
\* in the order of their use, so TAIL is the least recently used of S.
InOrderOfUse(l, S, nw) ==
  /\ \A k \in S :
       /\ l.next[k] = NULL => nw[k] = {}
       /\ l.next[k] # NULL => nw[k] = nw[l.next[k]] \cup {l.next[k]}
  /\ l.TAIL # NULL => nw[l.TAIL] = S \ {l.TAIL}

\* Until the server runs into undefined behaviour, the list is well linked and
\* sorted by recency of use (lru.cpp relies on both to evict from TAIL).
ListOK ==
  Running => Linked(list, kv_store) /\ InOrderOfUse(list, kv_store, newer)

\* As long as no HDEL has taken more off a hash than the hash's counter held,
\* current_memory_usage is the sum of get_memory_usage() over the nodes of the
\* store after every step of every handler: HSET and HDEL may report the change
\* of another counter than the node's (commands.cpp:378, 479) and nothing is
\* counted twice, lost, or wrapped below zero.
MemoryExact == ~wrapped => current_memory_usage = SumFunctionOnSet(usage, kv_store)

\* Between two commands the memory in use is within the limit ("strict 64MB
\* ceiling", README.md:90).  So stated it fails: after an HDEL that wraps a hash's
\* counter, the next HSET sets current_memory_usage to 0 (lru.cpp:74) and a DEL
\* subtracts from that (MCLruWrapped.cfg).
AlwaysWithinLimit == pc = "idle" => current_memory_usage <= LRU_MAX_MEMORY

\* The limit holds between two commands until an HDEL wraps a hash's counter, and
\* again from the next FLUSHDB on, even when one value alone is larger than the
\* limit ("evict-until-safe", README.md:90).
WithinLimit == ~wrapped => AlwaysWithinLimit

\* Until an HDEL wraps a hash's counter, the most recently used key is evicted
\* only when it alone exceeds the limit (test/eviction_test.sh: the last key
\* written "should definitely be there").
NewestSurvives ==
  [][\A k \in kv_store :
       (~wrapped /\ pc = "evict" /\ newer[k] = {} /\ k \notin kv_store')
         => usage[k] > LRU_MAX_MEMORY]_vars

\* Every handler ends: the eviction loop never spins without freeing a node.
HandlerEnds == pc # "idle" ~> (pc = "idle" \/ ~Running)

\* The handler's pointer is still to an allocated node when it is used after
\* the eviction loop.
NoUseAfterFree == pc \in {"fill", "touch"} => node \in kv_store

Abstract == INSTANCE Recency WITH evicting <- (pc = "evict")

\* lru.cpp implements the order of use of module Recency: under memory pressure
\* only the least recently used key leaves the store.
EvictsLeastRecent == Abstract!RecencySpec
=============================================================================
