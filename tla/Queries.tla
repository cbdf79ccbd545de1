------------------------------ MODULE Queries ------------------------------
(***************************************************************************)
(* The commands of src/src/commands.cpp that only read, which at most move *)
(* their key to the front of the LRU list, and handle_command, which       *)
(* chooses the handler.  A command refused for its number of arguments is  *)
(* an unknown one.                                                         *)
(***************************************************************************)
EXTENDS Keyspace

\* Mutant: the end of the range is clamped below the last index.
LastIndexOffByOne(ri, size) == Min({ri, size - 2})

LastIndex(ri, size) == Min({ri, size - 1})

\* LRANGE touches a list before it looks at the numbers.
command_lrange(db, c) ==
  LET i == Find(db, c.key)
      list == db[i].data
      size == Len(list)
      fromEnd(x) == IF x < 0 THEN x + size ELSE x
      li == Max({fromEnd(c.args[1]), 0})
      ri == LastIndex(fromEnd(c.args[2]), size)
  IN IF i = 0 THEN Read(db, Array(<<>>))
     ELSE IF db[i].type # "LIST" THEN Refused(db)
     ELSE Read(touch_lru(db, i),
               CASE c.opt = "invalid" -> Error("RANGE")
                 [] c.opt # "invalid" /\ (li >= size \/ li > ri) -> Array(<<>>)
                 [] OTHER -> Array(SubSeq(list, li + 1, ri + 1)))

command_llen(db, c) ==
  LET i == Find(db, c.key)
  IN IF i = 0 THEN Read(db, send_integer(0))
     ELSE IF db[i].type # "LIST" THEN Refused(db)
     ELSE Read(touch_lru(db, i), send_integer(Len(db[i].data)))

\* HGET touches the hash if it has the field.
command_hget(db, c) ==
  LET i == Find(db, c.key)
      field == c.args[1]
  IN IF i = 0 THEN Read(db, Nil)
     ELSE IF db[i].type # "HASH" THEN Refused(db)
     ELSE IF field \notin DOMAIN db[i].data THEN Read(db, Nil)
     ELSE Read(touch_lru(db, i), Bulk(db[i].data[field]))

command_hgetall(db, c) ==
  LET i == Find(db, c.key)
      hash == db[i].data
  IN IF i = 0 THEN Read(db, Array({}))
     ELSE IF db[i].type # "HASH" THEN Refused(db)
     ELSE Read(touch_lru(db, i), Array({<<f, hash[f]>> : f \in DOMAIN hash}))

\* A query of one value of the type that does not touch it.
Untouched(db, c, type, absent, answer) ==
  LET i == Find(db, c.key)
  IN Read(db, IF i = 0 THEN absent ELSE IF db[i].type # type THEN WRONGTYPE ELSE answer)

Data(db, c) == db[Find(db, c.key)].data

command_hlen(db, c) ==
  Untouched(db, c, "HASH", send_integer(0), send_integer(Cardinality(DOMAIN Data(db, c))))

count(set, x) == IF x \in set THEN 1 ELSE 0

command_sismember(db, c) ==
  Untouched(db, c, "SET", send_integer(0), send_integer(count(Data(db, c), c.args[1])))

\* SMISMEMBER answers a missing key with one number, not with one for each
\* argument.
command_smismember(db, c) ==
  Untouched(db, c, "SET", send_integer(0),
            Array([j \in DOMAIN c.args |-> send_integer(count(Data(db, c), c.args[j]))]))

command_scard(db, c) ==
  Untouched(db, c, "SET", send_integer(0), send_integer(Cardinality(Data(db, c))))

command_smembers(db, c) == Untouched(db, c, "SET", Array({}), Array(Data(db, c)))

\* The set at k; a key of another type counts as empty in SDIFF and SUNION.
SetAt(db, k) == IF Has(db, k, "SET") THEN db[Find(db, k)].data ELSE {}
OtherType(db, k) == Find(db, k) > 0 /\ ~Has(db, k, "SET")

\* Only the first key has to be a set.
command_sdiff(db, c) ==
  Read(db, IF OtherType(db, c.key) THEN WRONGTYPE
           ELSE Array(SetAt(db, c.key) \ UNION {SetAt(db, k) : k \in Range(c.args)}))

\* SINTER looks at one key after the other and ends its loop when nothing is left, at a
\* missing key at the latest: a key of another type after that is not seen.
command_sinter(db, c) ==
  LET left(j) == {x \in SetAt(db, c.key) : \A i \in 1 .. j : x \in SetAt(db, c.args[i])}
      ends == {j \in DOMAIN c.args : left(j) = {}}
  IN Read(db, IF OtherType(db, c.key) \/ (ends # {} /\ OtherType(db, c.args[Min(ends)]))
              THEN WRONGTYPE
              ELSE Array(left(Len(c.args))))

command_sunion(db, c) ==
  Read(db, Array(UNION {SetAt(db, k) : k \in {c.key} \cup Range(c.args)}))

\* The counter that MEMSTATS shows is exact (module Lru).
command_memstats(db) == Read(db, Array(<<Usage(db), LRU_MAX_MEMORY>>))

-----------------------------------------------------------------------------
\* handle_command up to the log.  FLUSHDB is an action of module Aof, and
\* SUBSCRIBE, UNSUBSCRIBE and PUBLISH are actions of module PubSub.
Execute(db, c, now) ==
  CASE c.op = "SET" -> command_set(db, c, now)
    [] c.op = "GET" -> command_get(db, c, now)
    [] c.op = "LPUSH" -> generic_push(db, c, TRUE)
    [] c.op = "RPUSH" -> generic_push(db, c, FALSE)
    [] c.op = "LRANGE" -> command_lrange(db, c)
    [] c.op = "LPOP" -> generic_pop(db, c, TRUE)
    [] c.op = "RPOP" -> generic_pop(db, c, FALSE)
    [] c.op = "DEL" -> command_del(db, c)
    [] c.op = "LLEN" -> command_llen(db, c)
    [] c.op = "HSET" -> command_hset(db, c)
    [] c.op = "HGET" -> command_hget(db, c)
    [] c.op = "HGETALL" -> command_hgetall(db, c)
    [] c.op = "HDEL" -> command_hdel(db, c)
    [] c.op = "HLEN" -> command_hlen(db, c)
    [] c.op = "SADD" -> command_sadd(db, c)
    [] c.op = "SCARD" -> command_scard(db, c)
    [] c.op = "SISMEMBER" -> command_sismember(db, c)
    [] c.op = "SMEMBERS" -> command_smembers(db, c)
    [] c.op = "SMISMEMBER" -> command_smismember(db, c)
    [] c.op = "SINTER" -> command_sinter(db, c)
    [] c.op = "SUNION" -> command_sunion(db, c)
    [] c.op = "SDIFF" -> command_sdiff(db, c)
    [] c.op = "SDEL" -> command_sdel(db, c)
    [] c.op = "MEMSTATS" -> command_memstats(db)
    [] c.op = "PING" -> Read(db, <<"simple", "PONG">>)
    [] c.op = "ECHO" -> Read(db, Bulk(c.args[1]))
    [] c.op = "COMMAND" -> Read(db, Array(<<>>))
    [] OTHER -> Read(db, Error("ERR"))

-----------------------------------------------------------------------------
(* Comparing stores.                                                       *)

\* What a client can find in the store: expired strings and empty containers
\* count as absent.
Visible(db, now) == Keep(db, {n \in Range(db) : ~Expired(n, now) /\ Elements(n) > 0})

SameNode(m, n) ==
  m.key = n.key /\ m.type = n.type /\ m.expiry = n.expiry /\ m.data = n.data

SameContents(a, b, now) ==
  LET x == Visible(a, now)
      y == Visible(b, now)
  IN Len(x) = Len(y) /\ \A i \in DOMAIN x : \E j \in DOMAIN y : SameNode(x[i], y[j])

\* The same contents in the same order of use.
SameStore(a, b, now) ==
  LET x == Visible(a, now)
      y == Visible(b, now)
  IN Len(x) = Len(y) /\ \A i \in DOMAIN x : SameNode(x[i], y[i])

-----------------------------------------------------------------------------
(* What the replies say about the store.                                   *)

\* The arguments of a query.
Query(key, args) == Command("query", key, args, "none", 0)

\* A list can be read in two parts, cut anywhere and counted from either end.
ListAgrees(db, k) ==
  LET n == Len(db[Find(db, k)].data)
      range(i, j) == command_lrange(db, Query(k, <<i, j>>)).reply[2]
  IN /\ range(0, -1) = db[Find(db, k)].data
     /\ command_llen(db, Query(k, <<>>)).reply[2] = Len(range(0, -1))
     /\ \A i \in (-n - 2 .. n + 1) \ {-1} : range(0, i) \o range(i + 1, -1) = range(0, -1)

\* HGETALL gives the fields that HGET finds, with their values, and HLEN their
\* number.
HashAgrees(db, k, fields) ==
  LET found == {f \in fields : command_hget(db, Query(k, <<f>>)).reply # Nil}
  IN /\ command_hgetall(db, Query(k, <<>>)).reply[2] =
          {<<f, command_hget(db, Query(k, <<f>>)).reply[2]>> : f \in found}
     /\ command_hlen(db, Query(k, <<>>)).reply[2] = Cardinality(found)

\* SMEMBERS gives what SISMEMBER and SMISMEMBER find, and SCARD their number.
SetAgrees(db, k, values) ==
  LET members == command_smembers(db, Query(k, <<>>)).reply[2]
  IN /\ members = {v \in values : command_sismember(db, Query(k, <<v>>)).reply[2] = 1}
     /\ command_scard(db, Query(k, <<>>)).reply[2] = Cardinality(members)
     /\ \A u, v \in values :
          command_smismember(db, Query(k, <<u, v>>)).reply[2] =
            <<command_sismember(db, Query(k, <<u>>)).reply,
              command_sismember(db, Query(k, <<v>>)).reply>>

\* What two sets have in common and what they have not make up each of them and
\* their union; an intersection does not depend on the order of its keys.
AlgebraAgrees(db, a, b) ==
  LET members(k) == command_smembers(db, Query(k, <<>>)).reply[2]
      common == command_sinter(db, Query(a, <<b>>)).reply[2]
      only(x, y) == command_sdiff(db, Query(x, <<y>>)).reply[2]
  IN /\ common = command_sinter(db, Query(b, <<a>>)).reply[2]
     /\ common \cap only(a, b) = {} /\ common \cup only(a, b) = members(a)
     /\ command_sunion(db, Query(a, <<b>>)).reply[2] = common \cup only(a, b) \cup only(b, a)
     /\ command_sinter(db, Query(a, <<b, a, b>>)).reply[2] = common
     /\ command_sdiff(db, Query(a, <<b, a>>)).reply[2] = {}

\* What a command that changes a store answers is what it has changed: the number
\* of elements that came or went, the size of a list, the elements popped, in the
\* order of the list; and a command that answers with an error has changed nothing.
TellsChange(db, c, o, now) ==
  LET size(s) == IF Find(s, c.key) = 0 THEN 0 ELSE Elements(s[Find(s, c.key)])
      list(s) == s[Find(s, c.key)].data
      kept == Find(o.db, c.key) > 0
      answered == o.reply[1] # "error"
  IN /\ ~answered => ~o.ok /\ SameContents(o.db, db, now)
     /\ answered /\ kept =>
          CASE c.op \in {"SADD", "HSET"} -> o.reply[2] = size(o.db) - size(db)
            [] c.op \in {"SDEL", "HDEL"} -> o.reply[2] = size(db) - size(o.db)
            [] c.op \in {"LPUSH", "RPUSH"} -> o.reply[2] = size(o.db)
            [] c.op = "LPOP" -> o.reply[2] \o list(o.db) = list(db)
            [] c.op = "RPOP" -> list(o.db) \o Reverse(o.reply[2]) = list(db)
            [] OTHER -> TRUE
     /\ c.op = "DEL" => o.reply[2] = Len(db) - Len(o.db)
=============================================================================
