------------------------------ MODULE Recency ------------------------------
(***************************************************************************)
(* What the LRU list of DrutaDB promises, without pointers: every key of   *)
(* the store has a place in the order of use, and when the store is under  *)
(* memory pressure the only key that may leave it is the one used least    *)
(* recently.  Module Lru, the doubly linked list of src/src/lru.cpp,       *)
(* implements this specification.                                          *)
(***************************************************************************)
CONSTANT Key

VARIABLES
  kv_store,  \* the keys that are in the store
  newer,     \* newer[k]: the keys of the store used more recently than k
  evicting   \* whether the server is inside an eviction loop

recencyVars == <<kv_store, newer, evicting>>

RecencyInit ==
  /\ kv_store = {}
  /\ newer = [k \in Key |-> {}]
  /\ evicting = FALSE

\* The order of use once k, in the store or entering it, is the newest key.
MadeNewest(k) ==
  [x \in Key |-> IF x \in kv_store \ {k} THEN newer[x] \cup {k} ELSE {}]

\* The order of use once k has left the store.
Without(k) == [x \in Key |-> IF x = k THEN {} ELSE newer[x] \ {k}]

Insert(k) ==
  /\ ~evicting /\ k \notin kv_store
  /\ kv_store' = kv_store \cup {k}
  /\ newer' = MadeNewest(k)
  /\ evicting' = TRUE

\* A read, or the end of a write: k becomes the newest key.
Use(k) ==
  /\ ~evicting /\ k \in kv_store
  /\ newer' = MadeNewest(k)
  /\ evicting' \in BOOLEAN
  /\ UNCHANGED kv_store

\* A write changed the memory in use.
Resized ==
  /\ ~evicting /\ evicting' = TRUE
  /\ UNCHANGED <<kv_store, newer>>

Remove(k) ==
  /\ ~evicting /\ k \in kv_store
  /\ kv_store' = kv_store \ {k}
  /\ newer' = Without(k)
  /\ UNCHANGED evicting

Clear ==
  /\ ~evicting
  /\ kv_store' = {}
  /\ newer' = [k \in Key |-> {}]
  /\ UNCHANGED evicting

\* Only the least recently used key: every other key is newer.
Evict(k) ==
  /\ evicting /\ k \in kv_store
  /\ newer[k] = kv_store \ {k}
  /\ kv_store' = kv_store \ {k}
  /\ newer' = Without(k)
  /\ UNCHANGED evicting

EvictionEnds ==
  /\ evicting /\ evicting' = FALSE
  /\ UNCHANGED <<kv_store, newer>>

RecencyNext ==
  \/ \E k \in Key : Insert(k) \/ Use(k) \/ Remove(k) \/ Evict(k)
  \/ Resized \/ Clear \/ EvictionEnds

RecencySpec == RecencyInit /\ [][RecencyNext]_recencyVars
=============================================================================
