-------------------------------- MODULE Aof --------------------------------
(***************************************************************************)
(* Persistence: src/src/aof.cpp, driven by handle_command and by the event *)
(* loop of src/src/main.cpp, with the process crashing and restarting at   *)
(* any point.                                                              *)
(*                                                                         *)
(* The log is a sequence of commands: file is what the kernel has, buffer  *)
(* what is still in the ofstream of the process.  A crash loses the        *)
(* process and keeps the kernel.  pc is where the server thread stands:    *)
(*                                                                         *)
(*   idle     between two commands                                         *)
(*   rewrite  at the start of rewrite_aof                                  *)
(*   swap     the temporary file is written, the log still open            *)
(*   rename   the log is closed                                            *)
(*   flushdb  in FLUSHDB: the store is empty, the log closed, not truncated *)
(*   down     the process is not running                                   *)
(***************************************************************************)
EXTENDS Queries

CONSTANTS
  Commands,            \* the commands clients send
  REWRITE_THRESHOLD,   \* in commands rather than bytes
  DiskFull,            \* whether writing the temporary file may fail
  MaxCommands,         \* bound: commands executed
  MaxTime,             \* bound: the clock
  MaxCrashes           \* bound: crashes

ASSUME AofAssumption ==
  /\ Commands \subseteq CommandType
  /\ REWRITE_THRESHOLD \in Nat /\ DiskFull \in BOOLEAN
  /\ {MaxCommands, MaxCrashes} \subseteq Nat /\ MaxTime \in Nat \ {0}

VARIABLES
  db,                  \* the store (kv_store and the LRU list)
  buffer, file, temp,
  last_rewrite_size,
  pc, now,
  commands, crashes,
  window,              \* history: the stores since file last held all of the log
  unlogged             \* history: why the log does not determine the store

vars == <<db, buffer, file, temp, last_rewrite_size, pc, now, commands, crashes,
          window, unlogged>>

\* The commands is_valid lets into the log.
is_valid == {"DEL", "HDEL", "HSET", "LPOP", "LPUSH", "RPOP", "RPUSH", "SADD", "SDEL", "SET"}

-----------------------------------------------------------------------------
\* The store after executing the commands of a log at time t, each in the outcome o of
\* the one before.
Replay(log, t) ==
  LET after[n \in 0 .. Len(log)] ==
        IF n = 0 THEN Outcome(<<>>, TRUE, Nil)
        ELSE CHOOSE next \in {IF o.dead THEN o ELSE Execute(o.db, log[n], t) :
                               o \in {after[n - 1]}} : TRUE
  IN after[Len(log)]

\* A hash as the arguments of HSET.
Pairs(hash) ==
  LET fields == SetToSeq(DOMAIN hash)
  IN [i \in 1 .. 2 * Len(fields) |->
        IF i % 2 = 1 THEN fields[(i + 1) \div 2] ELSE hash[fields[i \div 2]]]

\* The command rewrite_aof writes for a node.
Record(n) ==
  CASE n.type = "STRING" ->
         Command("SET", n.key, <<n.data>>, IF n.expiry > 0 THEN "PXAT" ELSE "none", n.expiry)
    [] n.type = "LIST" -> Command("RPUSH", n.key, n.data, "none", 0)
    [] n.type = "HASH" -> Command("HSET", n.key, Pairs(n.data), "none", 0)
    [] n.type = "SET" -> Command("SADD", n.key, SetToSeq(n.data), "none", 0)

\* The nodes rewrite_aof writes.
Live(store, t) == Keep(store, {n \in Range(store) : ~(n.expiry > 0 /\ t > n.expiry) /\ Elements(n) > 0})

\* Mutant: the list is walked from HEAD to TAIL.
CompactedFromHead(store, t) ==
  LET kept == Live(store, t)
  IN Reverse([i \in DOMAIN kept |-> Record(kept[i])])

\* The log rewrite_aof writes at time t, from TAIL to HEAD.
Compacted(store, t) ==
  LET kept == Live(store, t)
  IN [i \in DOMAIN kept |-> Record(kept[i])]

\* A key has a negative expiry time: GET takes it for expired, rewrite_aof for
\* permanent.
Overdue == \E i \in DOMAIN db : db[i].expiry < 0

\* The growth-based trigger of check_and_rewrite_aof.
MustRewrite(size) == size > REWRITE_THRESHOLD /\ size > last_rewrite_size * 2

-----------------------------------------------------------------------------
Init ==
  /\ db = <<>> /\ buffer = <<>> /\ file = <<>> /\ temp = <<>>
  /\ last_rewrite_size = 0
  /\ pc = "idle" /\ now = 1
  /\ commands = 0 /\ crashes = 0
  /\ window = <<(<<>>)>> /\ unlogged = {}

\* append_to_aof: a command that succeeded and changes the store.
Logged(c, outcome) == outcome.ok /\ c.op \in is_valid

\* handle_command.  The stream passes some of what it holds on to the kernel
\* when it is full, and the size of the file is looked at only every 5 seconds.
HandleCommand(c) ==
  /\ pc = "idle" /\ commands < MaxCommands
  /\ \E outcome \in {Execute(db, c, now)} :
       LET pending == IF Logged(c, outcome) THEN Append(buffer, c) ELSE buffer
       IN IF outcome.dead
          THEN /\ pc' = "down" /\ db' = <<>> /\ buffer' = <<>>
               /\ UNCHANGED <<file, window, unlogged>>
          ELSE /\ db' = outcome.db
               /\ \E n \in 0 .. Len(pending) :
                    /\ n > 0 => Logged(c, outcome)
                    /\ file' = file \o SubSeq(pending, 1, n)
                    /\ buffer' = SubSeq(pending, n + 1, Len(pending))
               /\ \/ pc' = "idle"
                  \/ Logged(c, outcome) /\ MustRewrite(Len(file')) /\ pc' = "rewrite"
               /\ window' = IF Logged(c, outcome) THEN Append(window, outcome.db) ELSE window
               /\ unlogged' = unlogged \cup outcome.silent
  /\ commands' = commands + 1
  /\ UNCHANGED <<temp, last_rewrite_size, now, crashes>>

\* Mutant: flushing waits for a second command.
FlushTwo ==
  /\ pc = "idle" /\ Len(buffer) > 1
  /\ file' = file \o buffer /\ buffer' = <<>>
  /\ window' = <<db>>
  /\ UNCHANGED <<db, temp, last_rewrite_size, pc, now, commands, crashes, unlogged>>

\* The event loop calls flush_aof and a second has passed.
flush_aof ==
  /\ pc = "idle" /\ buffer # <<>>
  /\ file' = file \o buffer /\ buffer' = <<>>
  /\ window' = <<db>>
  /\ UNCHANGED <<db, temp, last_rewrite_size, pc, now, commands, crashes, unlogged>>

\* Mutant: the log is truncated before it is written anew.
WriteInPlace ==
  /\ pc = "rewrite" /\ pc' = "swap"
  /\ file' = <<>> /\ temp' = Compacted(db, now)
  /\ UNCHANGED <<db, buffer, last_rewrite_size, now, commands, crashes, window, unlogged>>

\* rewrite_aof writes the temporary file; if the disk is full, only a part of
\* it, which nobody notices.
WriteTemp ==
  /\ pc = "rewrite" /\ pc' = "swap"
  /\ LET log == Compacted(db, now)
     IN \E n \in (IF DiskFull THEN 0 .. Len(log) ELSE {Len(log)}) : temp' = SubSeq(log, 1, n)
  /\ UNCHANGED <<db, buffer, file, last_rewrite_size, now, commands, crashes, window, unlogged>>

\* The temporary file cannot be opened: rewrite_aof returns.
TempFails ==
  /\ pc = "rewrite" /\ pc' = "idle"
  /\ UNCHANGED <<db, buffer, file, temp, last_rewrite_size, now, commands, crashes,
                 window, unlogged>>

\* Mutant: the buffer is dropped with the stream.
CloseDropsBuffer ==
  /\ pc = "swap" /\ pc' = "rename"
  /\ buffer' = <<>>
  /\ UNCHANGED <<db, file, temp, last_rewrite_size, now, commands, crashes, window, unlogged>>

\* Closing the log passes the buffer on to the kernel.
CloseLog ==
  /\ pc = "swap" /\ pc' = "rename"
  /\ file' = file \o buffer /\ buffer' = <<>>
  /\ window' = <<db>>
  /\ UNCHANGED <<db, temp, last_rewrite_size, now, commands, crashes, unlogged>>

\* rename replaces the log at once, and it is opened again.
Rename ==
  /\ pc = "rename" /\ pc' = "idle"
  /\ file' = temp /\ temp' = <<>>
  /\ last_rewrite_size' = Len(temp)
  /\ unlogged' = IF Overdue THEN {"negative"} ELSE {}
  /\ UNCHANGED <<db, buffer, now, commands, crashes, window>>

\* rename throws: the old log is opened again.
RenameFails ==
  /\ pc = "rename" /\ pc' = "idle"
  /\ UNCHANGED <<db, buffer, file, temp, last_rewrite_size, now, commands, crashes,
                 window, unlogged>>

\* FLUSHDB --sure: the store is cleared and the log closed ...
command_flushdb ==
  /\ pc = "idle" /\ pc' = "flushdb" /\ commands < MaxCommands
  /\ db' = <<>>
  /\ file' = file \o buffer /\ buffer' = <<>>
  /\ window' = <<db, <<>>>>
  /\ commands' = commands + 1
  /\ UNCHANGED <<temp, last_rewrite_size, now, crashes, unlogged>>

\* ... then the log is truncated, and opened again.
flush_clear_aof ==
  /\ pc = "flushdb" /\ pc' = "idle"
  /\ file' = <<>>
  /\ window' = <<db>> /\ unlogged' = {}
  /\ UNCHANGED <<db, buffer, temp, last_rewrite_size, now, commands, crashes>>

Crash ==
  /\ pc # "down" /\ crashes < MaxCrashes
  /\ pc' = "down" /\ crashes' = crashes + 1
  /\ db' = <<>> /\ buffer' = <<>>
  /\ UNCHANGED <<file, temp, last_rewrite_size, now, commands, window, unlogged>>

\* epoll_wait fails, as it does when the process is stopped and continued: main
\* returns, and the stream is closed on the way out.
LoopBreaks ==
  /\ pc = "idle" /\ crashes < MaxCrashes
  /\ pc' = "down" /\ crashes' = crashes + 1
  /\ db' = <<>>
  /\ file' = file \o buffer /\ buffer' = <<>>
  /\ window' = <<db>>
  /\ UNCHANGED <<temp, last_rewrite_size, now, commands, unlogged>>

\* replay_aof at the start of main, which rewrites a log over the threshold.
replay_aof ==
  /\ pc = "down"
  /\ LET replayed == Replay(file, now)
     IN /\ ~replayed.dead
        /\ db' = replayed.db
        /\ window' = <<replayed.db>>
  /\ last_rewrite_size' = Len(file)
  /\ pc' = IF Len(file) > REWRITE_THRESHOLD THEN "rewrite" ELSE "idle"
  /\ unlogged' = IF \E i \in DOMAIN file : file[i].opt \in {"EX", "PX"}
                  THEN {"relative"} ELSE {}
  /\ UNCHANGED <<buffer, file, temp, now, commands, crashes>>

\* Time passes while the server waits or is down.
Tick ==
  /\ pc \in {"idle", "down"} /\ now < MaxTime
  /\ now' = now + 1
  /\ UNCHANGED <<db, buffer, file, temp, last_rewrite_size, pc, commands, crashes,
                 window, unlogged>>

Next ==
  \/ \E c \in Commands : HandleCommand(c)
  \/ flush_aof \/ WriteTemp \/ TempFails \/ CloseLog \/ Rename \/ RenameFails
  \/ command_flushdb \/ flush_clear_aof \/ Crash \/ LoopBreaks \/ replay_aof \/ Tick

\* The event loop wakes up at least every 100 ms to flush, and a handler that
\* has started finishes; neither a crash nor a restart is forced.
Spec ==
  /\ Init /\ [][Next]_vars
  /\ WF_vars(flush_aof)
  /\ WF_vars(WriteTemp \/ CloseLog \/ Rename \/ flush_clear_aof)
-----------------------------------------------------------------------------
(* Properties.                                                             *)

\* Every variable has its type; the log holds only commands that change the
\* store, and the streams of a process that is down hold nothing.
TypeOK ==
  /\ \A i \in DOMAIN file : file[i].op \in is_valid
  /\ \A i \in DOMAIN buffer : buffer[i].op \in is_valid
  /\ pc \in {"idle", "rewrite", "swap", "rename", "flushdb", "down"}
  /\ pc \in {"rename", "flushdb", "down"} => buffer = <<>>
  /\ pc = "down" => db = <<>>
  /\ IsStore(db) /\ Usage(db) <= LRU_MAX_MEMORY
  /\ last_rewrite_size \in Nat /\ now \in 1 .. MaxTime
  /\ commands \in 0 .. MaxCommands /\ crashes \in 0 .. MaxCrashes

Serving == pc \in {"idle", "rewrite", "swap", "rename"}

\* Executing the log again gives the contents of the store.
LogGivesStore == Serving => SameContents(Replay(file \o buffer, now).db, db, now)

\* The log is complete unless one of five things happened since it was last
\* rewritten, cleared or replayed: an eviction, the removal of an expired key by
\* GET, an HSET that only overwrites, a SET with a relative expiry, or a rewrite of
\* a key with a negative one.
LogComplete == unlogged = {} => LogGivesStore

\* Whenever the process is killed, also in the middle of a rewrite, of FLUSHDB or
\* of a handler, or leaves its loop, a restart finds a store the server had at or
\* after the last flush (README.md:80, "a crash during the rewrite never results
\* in data loss"), unless one of the things LogComplete names happened (unlogged).
Recoverable ==
  unlogged = {} => \E i \in DOMAIN window :
                     SameContents(Replay(file, now).db, window[i], now)

\* The compacted log gives the live contents of the store and the order of use,
\* so that eviction goes on as if there had been no restart (aof.cpp:141), unless a
\* key has a negative expiry time.
RewriteFaithful ==
  pc \in {"swap", "rename"} /\ ~Overdue => SameStore(Replay(temp, now).db, db, now)

\* Every store the server reaches while it is idle it also has with an empty
\* buffer, since flush_aof leaves the store alone.
Flushed == pc = "idle" /\ buffer = <<>>

\* Whatever was executed, replayed or rewritten, the queries agree with each
\* other: parts of a list make up the list, HGETALL, HGET and HLEN tell the same
\* hash, and the set operations obey the algebra of sets, also with a missing key
\* (commands.cpp:179-800).
QueriesAgree ==
  Flushed =>
  LET sets == {k \in Keys : ~OtherType(db, k)}
  IN /\ \A k \in Keys :
          /\ Has(db, k, "LIST") => ListAgrees(db, k)
          /\ Has(db, k, "HASH") => HashAgrees(db, k, Values)
          /\ Has(db, k, "SET") => SetAgrees(db, k, Values)
     /\ \A a, b \in sets : a # b => AlgebraAgrees(db, a, b)

\* The reply to a command is what it changes, in every store the server can be in
\* (commands.cpp:121-172, 229-383, 456-490, 513-554, 802-832).
RepliesTellChanges ==
  Flushed =>
    \A c \in Commands :
      LET o == Execute(db, c, now) IN ~o.dead => TellsChange(db, c, o, now)

\* The nodes clients find in a store.
Found(store, t) == Range(Visible(store, t))

\* The logs the process may leave: the stream may pass on any part of the buffer.
Remains == {file \o SubSeq(buffer, 1, n) : n \in 0 .. Len(buffer)}

\* What clients may find after a restart.
Kept == {Found(o.db, now) : o \in {Replay(log, now) : log \in Remains}}

Promised == INSTANCE DurableStore WITH
  contents <- Found(db, now), saved <- Kept, exact <- unlogged = {}, up <- pc # "down"

\* aof.cpp implements the store of module DurableStore: what a restart brings back is the
\* contents at the last flush, rewrite or FLUSHDB or after one of the commands since
\* (aof.cpp:37-77, 129-202, 241-256).
Durability == Promised!DurableSpec

\* What a command changed reaches the file, or the process dies first.
EventuallyFlushed == buffer # <<>> ~> buffer = <<>>

\* "Mutating commands are serialized into RESP format and committed to disk
\* after successful execution" (README.md:19), HSET on an existing field too.
OverwritesLogged == unlogged = {"overwrite"} => LogGivesStore

\* "the server replays the AOF ... to restore the memory state" (README.md:78), with
\* the time to live SET gave a key and without the expired keys GET has removed.
ExpiryRestored == unlogged # {} /\ unlogged \subseteq {"relative", "expiry"} => LogGivesStore
=============================================================================
