# A TLA+ model of DrutaDB

DrutaDB is a key-value server in C++: one thread, an epoll loop, blocking
sockets, an LRU list with a memory limit, an append-only log and
publish/subscribe. This directory holds its specification, the TLC runs that
check it on small instances, and the theorems that TLAPS proves for every
instance. `PROJECT.json` lists the components, the runs, the source lines every
definition stands for, the findings, the hazards and the theorems.

## The system

| Part | State | Operations | Interacts with |
|---|---|---|---|
| LRU list (`lru.cpp`) | `HEAD`, `TAIL`, `next`/`prev` of each `DrutaNode`, `lru_size`, `current_memory_usage` | `add_lru`, `update_lru`, `notify_memory_change`, `touch_lru`, `remove_from_lru`, `evict_lru`, `clear_lru` | frees nodes that command handlers still hold |
| Hash value (`drutahash.cpp`) | vector of pairs or map, `memory_usage` | `get_hash`, `set_hash`, `del_hash`, `convert_to_map` | HSET and HDEL pass the differences of `memory_usage` on to the node and the LRU counter |
| Commands (`commands.cpp`, `store.hpp`) | `kv_store` | SET, GET, LPUSH, RPUSH, LPOP, RPOP, DEL, HSET, HDEL, SADD, SDEL, FLUSHDB and the read-only commands | the LRU list, the log, pub/sub |
| Log (`aof.cpp`) | the stream and its buffer, the file, the temporary file, `last_rewrite_size` | append, flush, rewrite, clear, replay | called by `handle_command` and the event loop; replays through `handle_command` |
| Pub/sub (`pubsub.cpp`, `client.hpp`) | `channels_subscribers`, `clients_map` | subscribe, unsubscribe, publish, cleanup | sends on other clients' sockets |
| Event loop (`main.cpp`) | the batch of epoll events | accept, recv, disconnect, periodic flush | everything |
| RESP parser (`parser_resp.cpp`) | a state machine per client | `parse_and_execute` | calls `handle_command` |

What is hard here: the eviction loop runs in the middle of handlers that hold
raw pointers; sends block and may kill the process in the middle of a loop over
subscribers; descriptors are reused within a batch of events; the log is
buffered, compacted and replayed with a crash possible between any two steps
and any two characters; commands arrive in pieces of any length;
the memory counter is unsigned and kept by differences.

What makes each part correct:

- LRU: the list is linked and sorted by use, only the least recently used key is
  evicted; the counter is exact and the limit holds between commands, as long as
  no hash's own counter has wrapped.
- Hash: contents survive the change of representation; the accounting follows
  the strings.
- Log: executing the log again gives the store; a restart after a crash finds a
  store no older than the last flush; a rewrite keeps contents and order of use.
- Parser: the commands executed are the ones sent, however the stream is cut.
- Commands: the queries agree with each other and with the store; a reply tells
  what was changed.
- Pub/sub and event loop: the two indexes agree, no subscription outlives its
  connection, the limit holds, no event is for a closed descriptor, no client
  starves.

## Modules

| Module | What it is |
|---|---|
| `Recency` | abstract: keys in order of use; under memory pressure only the oldest leaves |
| `Lru` | `lru.cpp`: pointers, counters and the eviction loop step by step |
| `Induction` | induction in a form the provers can use; sums over finite sets, numbers, sequences |
| `LruProofs` | theorems about `Lru` |
| `PubSub` | `pubsub.cpp` and the epoll loop, one step per iteration and `send` |
| `PubSubProofs` | theorems about `PubSub` |
| `DrutaHash` | `drutahash.cpp` with string capacities; HSET, HDEL, DEL |
| `DrutaHashProofs` | theorems about `DrutaHash` |
| `Keyspace` | the commands that change the store, as functions from a store to an outcome |
| `KeyspaceProofs` | what each command does to a store, and to a store another one simulates; what it replies |
| `Queries` | extends `Keyspace`: the commands that only read, and `handle_command` |
| `DurableStore` | abstract: the contents of a server, and the contents a restart may bring back |
| `Aof` | extends `Queries`: `aof.cpp`, crash and restart, command by command |
| `AofProofs` | theorems about `Aof` |
| `RespParser` | `parser_resp.cpp` and `format_resp_command`, one character at a time |
| `RespParserProofs` | what the parser makes of what the writer writes |
| `Streams` | extends `RespParser`: a connection and the log as streams of characters, crash and restart |
| `StreamsProofs` | theorems about `Streams` |
| `MC*` | constants for TLC |

A definition has the name of its function in the source where there is one. A
definition whose comment begins with "Mutant:" is a plausible bug in the one
that follows; it is used by no specification and serves to show that a property
notices the bug.

### Lru

Nodes are named by their keys. `list` is `HEAD`, `TAIL` and the two link
fields; `usage` is what `get_memory_usage` returns. `pc` is where the thread
stands: each iteration of the `while` loop of `add_lru` or
`notify_memory_change` is a step, because the handler keeps `node` across it.
If the loop frees that node, the access that follows is undefined: the process
dies, or it relinks the freed node (`UseFreed`). `newer` is a history variable
with the order of use, which the list must reproduce.

Handlers report what they changed as an old and a new size. For most of them the
two differ by what the node's own size changes (`Resize`, `Pop`). HSET and HDEL
report `DrutaHash::memory_usage` before and after (`SetFields`,
`DeleteReported`), which is a counter of its own, `hash_usage` here. By how much a
command changes it is left open: an HSET adds any amount, and an HDEL may take
off more than the counter holds, as `DrutaHash` shows it can. The counter then
wraps, looks larger than before, and HDEL reports nothing (`DeleteSilent`);
`wrapped` is a history variable that remembers this until FLUSHDB. After it the
memory counter is no longer kept: the next HSET reports a huge old size, for which
`notify_memory_change` sets the counter to 0, and DEL subtracts from that.
`MemoryExact`, `WithinLimit` and `NewestSurvives` claim something only while
`wrapped` is false; the list, the order of eviction and the end of the loop do not
depend on the amounts, and are claimed always.

### PubSub

`socket`, `unread`, `space` and `backlog` are the kernel's view; the peers
connect, send, read and close at any time. A peer that has closed is `gone`, and
`broken` after the reset that answers the first send; the next send raises
SIGPIPE. A received command is any command; only the number of commands in the
receive buffer is kept. `told` is a history variable with what a connection has
been told by its replies.

### DrutaHash

A slot has the capacities of its two strings, since the code adds and subtracts
capacities. How libstdc++ changes them (`Fresh`, `Assigned`, `AfterErase`) is
external, and was compared with a compiled program. The order of slots stands
for the vector's; in a map it has no meaning.

### Keyspace, Queries and Aof

A store is the sequence of nodes from `TAIL` to `HEAD`, a log is a sequence of
commands. `Execute` gives the store after a command, the reply, and whether the
handler returns true, which is what decides about logging. A reply is a kind and
a value, without its text and framing; the reply that lists a hash or a set is a
set. A node weighs `NodeWeight` and one for each element, so that the eviction
loop runs on the sum of the weights. That the counter of the code is the
sum of the sizes is proved in `LruProofs`, with the exception made there: the
stores here are those of a server in which no hash's counter has wrapped. A
handler that has its own node freed, or that pops a negative number of elements,
ends the process here.

`Replay` executes a log from the empty store. `LoopBreaks` is `epoll_wait`
failing: `main` returns and closes the stream, so that nothing buffered is lost.
`window` is a history variable with the stores since the file last held the
whole log. `unlogged` collects what the log cannot repeat: `eviction`, `expiry`
(GET removed a key), `overwrite` (HSET without a new field), `relative` (SET
with EX or PX) and `negative` (a rewrite while a key has a negative expiry time,
which GET takes for expired and the rewrite for none).

Contents are compared as clients see them: expired strings and empty containers
count as absent (a rewrite drops both). `QueriesAgree` and `RepliesTellChanges`
ask the handlers in every store the server reaches, replayed ones included: a
list read in two parts, cut at any index counted from either end, is the list; SINTER, SDIFF, SUNION and SMEMBERS obey the algebra of sets; what a
command answers is the difference between the stores before and after it.

`DurableStore` says what the log promises without mentioning one: `contents` is
what clients find, `saved` the contents a restart may bring back. A write puts
the new contents into `saved` and adds nothing else, a sync (a flush, a rewrite,
the end of FLUSHDB) leaves the present contents alone, a stop picks one member,
a restart finds it, and expired nodes go everywhere at once. When something
happens that is not recorded, `exact` becomes false and nothing is promised until
a sync or a restart, except that a restart still finds what the stop has left. In
`Aof`, `saved` is what the file gives with any first part of the buffer
(`Kept`), and `exact` is `unlogged = {}`.

### RespParser and Streams

`RespParser` has a definition for each case of the `switch`; `parse_and_execute`
folds them over a chunk and gives the parser, the commands passed to
`handle_command`, and whether `stoi` has thrown. `to_string`, `stoi` and the
characters are external; digits are a constant, so that TLC can count in base
two, where small sizes have two digits and a size can be cut in the middle.

In `Streams` a client sends commands, `recv` returns any part of what is on the
wire, and a client may leave at any character. Every command succeeds and is
logged, and the store is the list of commands executed: what commands do is the
subject of `Aof`, and here only which ones reach the store, the log and the next
process matters. A rewrite is one step, since its steps are in `Aof`. A crash
keeps the file and any part of the buffer, because the `ofstream` passes on what
it holds when it is full. `torn` is a history variable: the server has started
on a log with half a command at the end and appends to it.

## Runs

| Run | Bounds | Shows |
|---|---|---|
| `lru` | 4 keys, one of them used for hashes, sizes 1, 3, 7, limit 5, 2 HSET or HDEL on an existing hash between two FLUSHDB | links, order, end of the loop, refinement of `Recency`; until a hash's counter wraps, exact counter and limit |
| `lru_held` | 3 keys, sizes 1, 2, 3, limit 6, no hash | finding: a handler uses a node the loop has freed |
| `pubsub` | 2 descriptors, 2 channels, limit 1 | indexes, ghosts, limit, stale events, delivery; every command is read, every handler returns |
| `pubsub_broadcast` | the same | finding: SIGPIPE while publishing |
| `hash` | 3 fields, conversion at the third, 5 commands of up to 2 fields | contents, replies, exact accounting of short strings |
| `hash_long` | the same | finding: accounting departs from the strings |
| `aof` | 21 commands on 2 keys, 3 of them executed, 1 crash or end of the loop | completeness of the log, recovery, faithful rewrite, for values of every type; queries agree, replies tell the change; the buffer is flushed |
| `aof_overwrite`, `aof_expiry` | as `aof` | findings: things the log does not repeat |
| `aof_disk` | the temporary file may be cut off | finding: it replaces the log all the same |
| `streams` | 3 commands, 2 of them sent, base 2, threshold 15 characters, 2 crashes, 1 disconnect | exactly what arrived is executed, in the end all of it; the log decodes to it; one torn tail is survived |
| `streams_torn` | 3 sent, 1 crash, no rewrite | finding: a log appended to after it was cut does not survive the next restart |

Why the bounds are enough: four keys give a list with two inner nodes, so that
every case of `detach` and `attach_head` occurs, and one size exceeds the limit
so that a value evicts everything and itself. A handler reports the counter of its
own hash only, so one key for hashes is enough (`HashKey`), and two commands on
it (`MaxHashWrites`) are an HDEL that wraps the counter and the HSET that sets the
store's to 0; each amount, size and number of HDEL before the wrap is in the
proofs. `MCLruWrapped.cfg` has the instance on which TLC finds `AlwaysWithinLimit`,
the limit without the exception, violated by create, HDEL, HSET, DEL. Two descriptors are the fewest
with which one client publishes to another while a third connection reuses a
descriptor; two channels and a limit of one make a SUBSCRIBE stop half way.
Three fields with a limit of two convert the vector in the middle of a command,
and five commands are enough to convert, delete, insert again and delete the
key. In `aof` a key changes its type, expires, is evicted; a threshold of one
command makes rewrites happen, at start-up too. One crash is enough, because
`Recoverable` asks in every state, the ones after a restart included, what a
crash there would leave; lists get two different elements, so that the
order of a reply matters. In `streams` the commands have one and two arguments,
an empty argument and one that holds `*` and a line feed, in 11, 18 and 21
characters, so that a `recv` of up to 20 returns a part of a command, or one and
a part of the next, and a threshold of 15 makes some logs rewritten and others not.

Deadlock is not checked, since the server may die in all models and the number
of commands is bounded in some.

Fairness. `Lru`: a handler that has started goes on; clients need not send
anything. `PubSub`: the server thread runs, and a peer that stays connected
reads its replies; without the second assumption a blocking `send` stops the
server, as the code's blocking sockets imply. `Aof`: `epoll_wait` returns after
100 ms at the latest and `flush_aof` follows, so a flush happens when the server
goes on being idle; a rewrite that has started finishes. `Streams`: epoll
reports a socket until what has arrived is read, so a `recv` of some length
happens. Crashes, restarts and
the arrival of commands are not fair.

## Findings

1. `lru.cpp:62`, `commands.cpp:143`, `378`, `533`: the eviction loop runs before
   the written node is touched and may free it (`NoUseAfterFree`).
2. `drutahash.cpp:43`, `56`: the accounting of hashes departs from the strings
   when a string needs a heap buffer, and may wrap below zero
   (`PhysicalAccounting`). It is exact when all strings are short
   (`ShortStringsExact`). What follows for the store: `HSET h f1 <100 characters>
   f2 x`, `HDEL h f1` leaves the buffer of 100 characters with `f2`, `HDEL h f2`
   takes it off a counter that never had it and reports nothing
   (`commands.cpp:479`), `HSET h f3 y` sets the memory counter to 0 while nodes
   are in the store (`lru.cpp:74`), `DEL h` wraps it to about 2^64, and the next
   write evicts every key and itself. Only FLUSHDB or a restart mends the
   counter.
3. `pubsub.cpp:100`: publishing to a subscriber that has gone ends the server
   (`BroadcastSurvives`).
4. `commands.cpp:382`: an HSET that only overwrites is not logged
   (`OverwritesLogged`).
5. `commands.cpp:65`: relative expiry times start again at a restart
   (`ExpiryRestored`). Seen beside it, not on the trace of the run: a key removed
   by GET comes back in the replay and makes a logged write of another type fail
   (`commands.cpp:103`).
6. `aof.cpp:203`: an incomplete temporary file replaces the log
   (`Recoverable`).
7. `aof.cpp:115`, `37`: half a command that a crash leaves at the end of the log
   stays there and the log goes on after it; the next restart loses flushed
   commands or ends with an exception of `stoi` (`RestartExact`). The restart
   right after the crash is exact (`TornTailIgnored`), and a log over the
   threshold is repaired, being written anew.

Seen while modelling, without a run of its own: evictions are not logged and the
replay evicts other keys (`lru.cpp:109`; this is an exception of `LogComplete`);
entries of channels are never erased (`pubsub.cpp:60`, `116`); a negative PXAT
is expired for GET and no expiry for the rewrite (`aof.cpp:147`; another
exception); a negative count of LPOP or RPOP pops from an empty deque
(`commands.cpp:270`); FLUSHDB leaves `last_rewrite_size` as it is
(`aof.cpp:253`), so the next rewrite waits for twice the size of the old log;
SMISMEMBER answers a missing key with one number instead of one for each
argument (`commands.cpp:607`); SDIFF and SUNION take keys of other types for
empty sets, while SINTER refuses them unless the result is known to be empty
before it meets them (`commands.cpp:748`); the errors of subscriber mode and of
SDEL on a missing key end without CRLF and MEMSTATS sends two lines
(`commands.cpp:884`, `828`, `857`).

## Proofs

`LruProofs` proves, for any finite set of keys, any sizes, limit, width of
`size_t` and bound (`NullAssumption`, `KeyAssumption`, `UsageAssumption`, and
`MemoryAssumption`: the limit and one value more fit a `size_t`):

- `TypeCorrect`: `Spec => []TypeOK`;
- `ListCorrect`: `Spec => []ListOK`, the list holds the nodes of the store and
  is sorted by use until the server runs into undefined behaviour;
- `Refinement`: `Spec => EvictsLeastRecent`, every step is one of `Recency`;
- `MemoryCorrect`: `Spec => []MemoryExact`, the counter is the sum of the sizes
  unless a hash's counter has wrapped since the last FLUSHDB;
- `LimitHolds`: `Spec => []WithinLimit`, with the same exception;
- `NewestKept`: `Spec => NewestSurvives`, an action property, with the same
  exception.

The inductive invariant `IInv` adds to `TypeOK` that the list is sorted, that
`newer` is an order (`Ordered`: without it detaching an inner node cannot be
shown to keep the order of the others), that `lru_size` is the cardinality of
the store (`TypeOK` bounds it but does not preserve the bound), and that a
handler between `evict` and `touch` holds a key. The list operations are lemmas
on lists (`DetachSorted`, `AttachSorted`, `TouchSorted`); each action then
follows from the lemma for what it does. The counter needs two more invariants:
`HashState`, that a key without a hash has no hash counter, and `Accounted`: while
no hash's counter has wrapped, the memory counter is exact, it is within the limit
outside the loop, and no hash counts more than its node (`HashesCounted`). They
depend on each other: because the counter is within the limit before a handler adds
to it, neither the sum nor the counter of a hash wraps; because no hash counts more
than its node, what HSET and HDEL report of the one is what happens to the other
(`SetFieldsExact`, `DeleteExact`, on `ReportExact`); and because the counter is
exact the loop, which ends when the store is empty at the latest, ends within the
limit.

Induction. The induction theorems of the library take the property as an
operator parameter, which the installed provers cannot instantiate. `Induction`
proves from the well-foundedness of `<` a form that takes the set of the numbers
that have the property (`NatInd`, `StrongInd`), and the same for sequences
(`SeqInd`). With it a recursive function is shown to have a solution, one value
of its argument after the other, and then has the values its definition says.
This is how sums (`SumRemove`: any element may be taken out first), numerals,
the parser's loop and the loops of HSET and HDEL are reasoned about.

`DrutaHashProofs` proves, for any finite set of fields, any values, lengths and
`DRUTA_MAX_KEY` (`HashAssumption`), `HashTypeCorrect`, `ContentsHeld`,
`RepliesCorrect` and, if short strings in all the fields fit a `size_t`
(`MemoryAssumption`), `ShortStringsCounted`. `IsSet` and `IsDeleted` state what
one `set_hash` and one `del_hash` do to the mapping of fields to values, to the
number of slots and to the counter (`SetHash`, `DelHash`); `SetBy` and
`DeletedBy` carry this through all the arguments of a command. The invariant
says that no field has two slots (without it a deleted field could come back)
and that the mapping is the history `contents`; the number of slots is then the
number of fields, from which the replies follow. While no string was long every
slot has the capacities of short strings (`Short`), so that what the code
subtracts is what it has added.

`RespParserProofs` proves `CommandRead`: for every base of numerals
(`DigitsAssumption`) and every alphabet, what `format_resp_command` writes the
parser reads as exactly that command, whatever characters are in the arguments,
calling nothing before the last character. It rests on `stoi` being the inverse
of `to_string`, and on `AfterConcat`: however a stream is cut, the pieces leave
the parser where the whole does.

`StreamsProofs` proves, for any commands, chunks, thresholds and bounds
(`StreamsAssumption`: a command has an argument), `ArrivedIsExecuted`,
`LogIsDecoded`, `TornTailHarmless` and `StreamsTypeCorrect`. The invariant says
that what was received and what is on the wire are the records of what was sent,
and that parser and executed commands are what the received part decodes to; and
the same of file, buffer and store. `PrefixesRead`, by induction over commands,
says what any beginning of a sequence of records decodes to; a crash leaves such
a beginning.

`PubSubProofs` proves, for any descriptors, channels, limits and bounds
(`FdAssumption`, `ChannelAssumption`, `BoundAssumption`), `TypeCorrect`,
`IndexesCorrect`, `GhostFree`, `LimitHolds`, `EventsFresh` and
`DeliveryCorrect`. They rest on one invariant: the conjunction of these
properties and `LoopShape`, which says what `rest`, `targets` and `fd` are in
each loop; that no event is stale needs that an event is removed when its
descriptor is closed, and that messages go to subscribers only needs that
nobody unsubscribes while a publish is going on, since the thread is in the
publisher's handler.

`AofProofs`, on `KeyspaceProofs`, proves, for any keys and values, any set of
commands clients may send, any weight of a node, memory limit, rewrite threshold
and bounds (`WeightAssumption`, `AofAssumption`):

- `TypeCorrect`: `Spec => []TypeOK`, every store is within the limit;
- `LogCorrect`: `Spec => []LogComplete`;
- `RecoveryCorrect`: `Spec => []Recoverable`;
- `RewriteCorrect`: `Spec => []RewriteFaithful`;
- `DurabilityCorrect`: `Spec => Durability`, every step is one of `DurableStore`;
- `RepliesCorrect`: `Spec => []RepliesTellChanges`;
- `QueriesCorrect`: `Spec => []QueriesAgree`.

`LogCorrect`, `RecoveryCorrect`, `RewriteCorrect` and `DurabilityCorrect` assume
`DiskFull = FALSE`: if the disk may be full they are false, which is finding 6.

`KeyspaceProofs` has a lemma for every command that says which nodes the store
has after it (`SetEffect`, `PushEffect`, ...), whatever the order of use. A
replay does not give the live store itself, but one that lacks nodes no client
can find, expired strings and empty containers: LPOP, SDEL and
HDEL leave empty containers behind, which a rewrite drops with the expired
strings. `Sim(R, D, t)` says just this, and `ExecuteFollows` that a logged command
executed on `R`, at any later time, keeps it: `R` is never heavier than `D`, so
the replay evicts nothing if the server did not, and a command that is logged
for `D` has the same effect on the nodes clients can find in `R`. Each reason in
`unlogged` is a case in which this fails. `RewriteRestores` says that the
compacted log, replayed from the empty store, gives the live nodes in their
order: every prefix of it is a store within the limit, and the record of a node
adds that node at the end.

The inductive invariant `LogInv` is the type invariant with the types of the
logs, `Rewriting` (the temporary file is the compacted log of the store, which
nothing changes before the rename, and after closing the log the window holds
the store alone) and `Logging`. The latter needs more than the two properties:
not only file and buffer together, but the file with any first part of the
buffer must stand for its store of the window (`Tracks`), because the stream may
pass on any part of the buffer before a crash; and the log must have no relative
expiry, so that replaying it later means the same (`ReplayTimeless`). TLC has
checked `LogInv` on the instance of the run `aof`.

The refinement needs `LogInv` before and after a step. That the file and the
buffer stand for the store gives the contents a sync saves and those a write
adds (`GivenFound`); the other contents kept are looked at as sets of logs: a
command adds one log to those that may be left (`KeptAppend`), and passing
commands on to the kernel only takes some away (`KeptDrain`). That time passes
alike for the store and for all that is kept needs `ReplayTimeless` again
(`KeptLater`). Stopping and restarting are steps of `DurableStore` whether or not
the log is exact. The theorem covers what a run would show, and evaluating the
refinement is costly; `MCAofDurable.cfg` has the instance of four commands and
two crashes on which TLC has checked it, and on which it notices the mutants
`CloseDropsBuffer` and `WriteInPlace`.

The replies need the type invariant only. `ExecuteTells` follows, command by
command, from the lemmas about effects and from lemmas about the elements of the
one node a command touches: `PopSplits` (what is popped and what stays make up
the list), the loops of HSET and HDEL, whose count is the number of fields that
came or went, and sizes of sets. A node that is evicted in the same command is
the exception the property allows for. For the queries every reply is first
written as a value of the node (`RangeReply`, `MembersReply`, `InterReply`,
`DiffReply`), from which the laws follow (`ListTells`, `HashTells`, `SetTells`,
`AlgebraTells`).

Only model-checked: liveness (`HandlerEnds`, `EveryCommandRead`,
`HandlerReturns`, `EventuallyFlushed`, `SentIsExecuted`), which is out of the
prover's reach. Every other property of a passing run has a theorem.

## Not modelled

- The texts and the framing of replies, and the order in which a hash or a set
  is listed. Commands with a wrong number of arguments are unknown commands.
- Clients that break the protocol. `RespParser` has the code's answer to a size
  that is no number (`Recv` ends the server if it is an array size), but clients
  in `Streams` send well-formed commands, cut anywhere; malformed input comes
  from a torn log only.
- A crash of the operating system: the code never calls fsync, and the model
  takes what the kernel has for durable.
- An `epoll_wait` that fails is in `Aof` and not in `PubSub`, where nothing
  survives the process. `accept` fails only as in `AcceptFails`. The set-up of
  the listening socket is pure I/O.
- Failure to open the log itself, and write errors on it.
- A clock that goes back.

## Plan

Every part of the server's core logic is modelled, and every safety property of
a passing run is proved. What could come next: an abstract specification of
pub/sub that `PubSub` implements, with the messages themselves; and one model in
which `Streams` executes the commands of `Keyspace`, so that a torn log and the
store it leaves are seen together.
