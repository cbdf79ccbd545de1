------------------------------ MODULE Keyspace ------------------------------
(***************************************************************************)
(* The commands of src/src/commands.cpp that change the store, as          *)
(* functions of the store.  Module Queries adds the ones that only read.   *)
(*                                                                         *)
(* A store is the sequence of its nodes in the order of the LRU list, from *)
(* TAIL to HEAD; kv_store finds a node by its key.  A command is a record  *)
(* of its name, its key, its other arguments and, for SET, LPOP and RPOP,  *)
(* its option and number.  It ends in an outcome:                          *)
(*                                                                         *)
(*   db      the store after the command                                   *)
(*   ok      what the handler returns to handle_command                    *)
(*   reply   what it sends to the client, a tuple of a kind and a value    *)
(*   dead    the handler ran into undefined behaviour                      *)
(*   silent  why executing the commands of the log again will not repeat   *)
(*           what this one did (history, for the properties of module Aof) *)
(*                                                                         *)
(* The option of a command whose number is not one is "invalid", and that  *)
(* of a command with too many arguments "extra".  The reply to a command   *)
(* that reads a set or a hash is a set: its order is left out.  A node     *)
(* weighs NodeWeight and one for every element.                            *)
(***************************************************************************)
EXTENDS Integers, SequencesExt

CONSTANTS
  Keys, Values,        \* the keys and the other arguments of commands
  NodeWeight,
  LRU_MAX_MEMORY

ASSUME WeightAssumption == NodeWeight \in Nat \ {0} /\ LRU_MAX_MEMORY \in Nat

Node(key, type, data, expiry) ==
  [key |-> key, type |-> type, data |-> data, expiry |-> expiry]

Command(op, key, args, opt, num) ==
  [op |-> op, key |-> key, args |-> args, opt |-> opt, num |-> num]

\* The names handle_command knows, but for FLUSHDB (module Aof) and the ones for channels
\* (module PubSub), and one for any other.
Ops ==
  {"SET", "GET", "LPUSH", "RPUSH", "LRANGE", "LPOP", "RPOP", "DEL", "LLEN", "HSET", "HGET",
   "HGETALL", "HDEL", "HLEN", "SADD", "SCARD", "SISMEMBER", "SMEMBERS", "SMISMEMBER", "SINTER",
   "SUNION", "SDIFF", "SDEL", "MEMSTATS", "PING", "ECHO", "COMMAND", "unknown"}

\* EX, PX and PXAT are options of SET.
Options == {"none", "EX", "PX", "PXAT", "invalid", "extra"}

\* Commands.  Of the numbers of arguments handle_command asks for only that of SET matters.
CommandType ==
  {c \in [op : Ops, key : Keys, args : Seq(Values), opt : Options, num : Int] :
     c.op = "SET" => c.args # <<>>}

\* The nodes of a store: only a string has an expiry time.
Nodes ==
  LET finite == {S \in SUBSET Values : IsFiniteSet(S)}
  IN      [key : Keys, type : {"STRING"}, data : Values, expiry : Int]
     \cup [key : Keys, type : {"LIST"}, data : Seq(Values), expiry : {0}]
     \cup [key : Keys, type : {"HASH"}, data : UNION {[S -> Values] : S \in finite}, expiry : {0}]
     \cup [key : Keys, type : {"SET"}, data : finite, expiry : {0}]

\* A store holds a key once, as the map does.
IsStore(db) ==
  /\ db \in Seq(Nodes)
  /\ \A i, j \in DOMAIN db : db[i].key = db[j].key => i = j

Outcome(db, ok, reply) ==
  [db |-> db, ok |-> ok, reply |-> reply, dead |-> FALSE, silent |-> {}]
Read(db, reply) == Outcome(db, FALSE, reply)

send_integer(n) == <<"int", n>>
Bulk(v) == <<"bulk", v>>
Nil == <<"nil">>
Array(s) == <<"array", s>>
Error(e) == <<"error", e>>
WRONGTYPE == Error("WRONGTYPE")

Refused(db) == Read(db, WRONGTYPE)

\* The place of key k in the store, 0 if it has no node.
Find(db, k) == SelectInSeq(db, LAMBDA n : n.key = k)
Has(db, k, type) == Find(db, k) > 0 /\ db[Find(db, k)].type = type

Elements(n) ==
  CASE n.type = "STRING" -> 1
    [] n.type = "LIST" -> Len(n.data)
    [] n.type = "HASH" -> Cardinality(DOMAIN n.data)
    [] n.type = "SET" -> Cardinality(n.data)

Expired(n, now) == n.expiry # 0 /\ now > n.expiry

-----------------------------------------------------------------------------
(* lru.cpp on the sequence.                                                *)

Weight(n) == NodeWeight + Elements(n)
Usage(db) == SumFunction([n \in Range(db) |-> Weight(n)])

\* The elements of s that are in S, in their order.
Keep(s, S) ==
  LET kept[i \in 0 .. Len(s)] ==
        IF i = 0 THEN <<>>
        ELSE IF s[i] \in S THEN Append(kept[i - 1], s[i]) ELSE kept[i - 1]
  IN kept[Len(s)]

\* Mutant: the loop stops one unit above the limit.
EvictOffByOne(db) ==
  LET from(i) == SubSeq(db, i, Len(db))
      safe == {i \in 1 .. Len(db) + 1 : Usage(from(i)) <= LRU_MAX_MEMORY + 1}
  IN from(Min(safe))

\* The eviction loop: nodes leave from TAIL until the rest is within the limit.
EvictUntilSafe(db) ==
  LET from(i) == SubSeq(db, i, Len(db))
      safe == {i \in 1 .. Len(db) + 1 : Usage(from(i)) <= LRU_MAX_MEMORY}
  IN from(Min(safe))

touch_lru(db, i) == Append(RemoveAt(db, i), db[i])

\* add_lru: the new node is HEAD before the loop runs.
add_lru(db, n, reply) ==
  LET kept == EvictUntilSafe(Append(db, n))
  IN [Outcome(kept, TRUE, reply) EXCEPT
        !.silent = IF Len(kept) <= Len(db) THEN {"eviction"} ELSE {}]

\* update_lru: node i is replaced by n, the loop runs, and then the node is touched, which
\* is undefined if the loop has freed it (module Lru).
update_lru(db, i, n, reply) ==
  LET kept == EvictUntilSafe([db EXCEPT ![i] = n])
      j == Find(kept, n.key)
  IN [db |-> IF j = 0 THEN kept ELSE touch_lru(kept, j),
      ok |-> TRUE,
      reply |-> reply,
      dead |-> j = 0,
      silent |-> IF Len(kept) < Len(db) THEN {"eviction"} ELSE {}]

\* Replace the data of the node at i.
WithData(db, i, data, reply) == update_lru(db, i, [db[i] EXCEPT !.data = data], reply)

\* The same for an answer with the number of elements that came or went, which
\* is also what decides about logging.
WithCount(db, i, data, n) == [WithData(db, i, data, send_integer(n)) EXCEPT !.ok = n > 0]

-----------------------------------------------------------------------------
(* The handlers.                                                           *)

\* The expiry time SET computes; 0 is none.
expire_at(c, now) ==
  CASE c.opt = "EX" -> now + 1000 * c.num
    [] c.opt = "PX" -> now + c.num
    [] c.opt = "PXAT" -> c.num
    [] OTHER -> 0

\* SET on any key, whatever its type.  An option that is not a number is
\* refused.
command_set(db, c, now) ==
  LET n == Node(c.key, "STRING", c.args[1], expire_at(c, now))
      i == Find(db, c.key)
      reply == <<"simple", "OK">>
      done == IF i > 0 THEN update_lru(db, i, n, reply) ELSE add_lru(db, n, reply)
  IN IF c.opt = "invalid" THEN Read(db, Error("ERR"))
     ELSE [done EXCEPT !.silent = @ \cup IF c.opt \in {"EX", "PX"} THEN {"relative"} ELSE {}]

\* GET removes an expired string and touches any other.
command_get(db, c, now) ==
  LET i == Find(db, c.key)
  IN IF i = 0 THEN Read(db, Nil)
     ELSE IF db[i].type # "STRING" THEN Refused(db)
     ELSE IF Expired(db[i], now)
     THEN [Read(RemoveAt(db, i), Nil) EXCEPT !.silent = {"expiry"}]
     ELSE Read(touch_lru(db, i), Bulk(db[i].data))

\* LPUSH pushes one element after the other in front.
Pushed(list, args, at_front) == IF at_front THEN Reverse(args) \o list ELSE list \o args

generic_push(db, c, at_front) ==
  LET i == Find(db, c.key)
      new == Pushed(IF i = 0 THEN <<>> ELSE db[i].data, c.args, at_front)
  IN IF i = 0 THEN add_lru(db, Node(c.key, "LIST", new, 0), send_integer(Len(new)))
     ELSE IF db[i].type # "LIST" THEN Refused(db)
     ELSE WithData(db, i, new, send_integer(Len(new)))

\* Mutant: RPOP answers in the order of the list.
PoppedForwards(list, n, from_front) ==
  IF from_front THEN SubSeq(list, 1, n) ELSE SubSeq(list, Len(list) - n + 1, Len(list))

\* The n elements popped, in the order in which they are.
Popped(list, n, from_front) == SubSeq(IF from_front THEN list ELSE Reverse(list), 1, n)

\* LPOP and RPOP of num elements, of one if the number is not one.  A negative
\* number pops past the end.
generic_pop(db, c, from_front) ==
  LET i == Find(db, c.key)
      list == db[i].data
      count_pop == IF c.opt = "invalid" THEN 1 ELSE c.num
      n == IF count_pop < Len(list) THEN count_pop ELSE Len(list)
      left == IF from_front THEN SubSeq(list, n + 1, Len(list))
                            ELSE SubSeq(list, 1, Len(list) - n)
  IN IF c.opt = "extra" THEN Read(db, Error("ERR"))
     ELSE IF i = 0 THEN Read(db, Array(<<>>))
     ELSE IF db[i].type # "LIST" THEN Refused(db)
     ELSE IF n < 0 THEN [Outcome(db, TRUE, Nil) EXCEPT !.dead = TRUE]
     ELSE Outcome(touch_lru([db EXCEPT ![i].data = left], i), TRUE,
                  Array(Popped(list, n, from_front)))

command_del(db, c) ==
  LET gone == {c.key} \cup Range(c.args)
      kept == Keep(db, {n \in Range(db) : n.key \notin gone})
      del_count == Len(db) - Len(kept)
  IN Outcome(kept, del_count > 0, send_integer(del_count))

\* set_hash on the mapping of fields to values; module DrutaHash has its slots.
SetField(hash, f, v) == [g \in DOMAIN hash \cup {f} |-> IF g = f THEN v ELSE hash[g]]

\* The hash after the pairs of field and value in args.
Filled(hash, args) ==
  LET filled[i \in 0 .. Len(args) \div 2] ==
        IF i = 0 THEN hash ELSE SetField(filled[i - 1], args[2 * i - 1], args[2 * i])
  IN filled[Len(args) \div 2]

\* HSET returns whether a field was created, not whether one was changed.
HsetExisting(db, i, c) ==
  LET old == db[i].data
      new == Filled(old, c.args)
      created == Cardinality(DOMAIN new) - Cardinality(DOMAIN old)
  IN [WithCount(db, i, new, created) EXCEPT
        !.silent = @ \cup IF created = 0 /\ new # old THEN {"overwrite"} ELSE {}]

\* HSET: a missing key is first added with an empty hash.
command_hset(db, c) ==
  LET i == Find(db, c.key)
      added == add_lru(db, Node(c.key, "HASH", <<>>, 0), Nil)
      j == Find(added.db, c.key)
      done == HsetExisting(added.db, j, c)
  IN IF Len(c.args) % 2 # 0 THEN Read(db, Error("ERR"))
     ELSE IF i = 0
     THEN IF j = 0 THEN [added EXCEPT !.dead = TRUE]
          ELSE [done EXCEPT !.silent = @ \cup added.silent]
     ELSE IF db[i].type # "HASH" THEN Refused(db)
     ELSE HsetExisting(db, i, c)

command_hdel(db, c) ==
  LET i == Find(db, c.key)
      old == db[i].data
      new == [f \in DOMAIN old \ Range(c.args) |-> old[f]]
  IN IF i = 0 THEN Read(db, send_integer(0))
     ELSE IF db[i].type # "HASH" THEN Refused(db)
     ELSE WithCount(db, i, new, Cardinality(DOMAIN old) - Cardinality(DOMAIN new))

command_sadd(db, c) ==
  LET i == Find(db, c.key)
      new == db[i].data \cup Range(c.args)
  IN IF i = 0 THEN add_lru(db, Node(c.key, "SET", Range(c.args), 0),
                           send_integer(Cardinality(Range(c.args))))
     ELSE IF db[i].type # "SET" THEN Refused(db)
     ELSE WithCount(db, i, new, Cardinality(new) - Cardinality(db[i].data))

command_sdel(db, c) ==
  LET i == Find(db, c.key)
      new == db[i].data \ Range(c.args)
  IN IF i = 0 THEN Read(db, Error("ERR"))
     ELSE IF db[i].type # "SET" THEN Refused(db)
     ELSE WithCount(db, i, new, Cardinality(db[i].data) - Cardinality(new))

=============================================================================
