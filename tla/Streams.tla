------------------------------ MODULE Streams ------------------------------
(***************************************************************************)
(* The two streams of characters the server parses: what a client sends    *)
(* (recv in src/src/main.cpp) and the log (src/src/aof.cpp).  TCP delivers *)
(* the first in pieces of any length; a crash cuts the second at any       *)
(* character, since the ofstream passes on what it holds when it is full.  *)
(*                                                                         *)
(* Every command here succeeds and is logged, and the store is the         *)
(* sequence of commands that made it; what commands do to the store and    *)
(* what a rewrite makes of them is the subject of module Aof.  pc is "up", *)
(* "down" after a crash, or "failed" when a start ended in an exception.   *)
(***************************************************************************)
EXTENDS RespParser

CONSTANTS
  Commands,            \* the commands clients send, as lists of arguments
  RecvBuffer,          \* the most characters one recv returns
  REWRITE_THRESHOLD,
  MaxCommands,         \* bound: commands sent
  MaxCrashes,          \* bound: crashes
  MaxClients           \* bound: connections closed

Characters == Range(Digits) \cup {"*", "$", CR, LF}
                \cup UNION {UNION {Range(c[i]) : i \in DOMAIN c} : c \in Commands}

ASSUME StreamsAssumption ==
  /\ \A c \in Commands : c \in Seq(Seq(Characters)) /\ Len(c) > 0
  /\ RecvBuffer \in Nat \ {0} /\ REWRITE_THRESHOLD \in Nat
  /\ {MaxCommands, MaxCrashes, MaxClients} \subseteq Nat

VARIABLES
  wire,                \* characters the client has sent and recv not returned
  parser,              \* the parser of the connection
  buffer, file,        \* the log: what was written since the last flush, and
                       \* before
  last_rewrite_size,
  pc,
  commands, crashes, closed,
  sent, executed,      \* history: commands of this connection
  store,               \* history: what the store was made of, of the last
                       \* process if none is running
  safe,                \* history: how many of them were flushed
  torn                 \* history: the log goes on after half a command

clientVars == <<wire, parser, sent, executed, closed>>
logVars == <<buffer, file, last_rewrite_size, safe, torn>>
vars == <<clientVars, logVars, pc, commands, crashes, store>>

\* The records of a sequence of commands.
Records(cmds) == FlattenSeq([i \in DOMAIN cmds |-> format_resp_command(cmds[i])])

\* Mutant: the end of the log ends a command, too.
ReplayedEager(log) ==
  LET run == parse_and_execute(Fresh, log)
  IN IF run.p.args = <<>> THEN run
     ELSE [run EXCEPT !.p = Fresh, !.calls = Append(@, run.p.args)]

\* What replay_aof makes of a log.
Replayed(log) == parse_and_execute(Fresh, log)

Init ==
  /\ wire = <<>> /\ parser = Fresh /\ sent = <<>> /\ executed = <<>> /\ closed = 0
  /\ buffer = <<>> /\ file = <<>> /\ last_rewrite_size = 0 /\ safe = 0 /\ torn = FALSE
  /\ pc = "up" /\ commands = 0 /\ crashes = 0 /\ store = <<>>

-----------------------------------------------------------------------------
(* The connection.                                                         *)

ClientSends(c) ==
  /\ pc = "up" /\ commands < MaxCommands
  /\ wire' = wire \o format_resp_command(c)
  /\ sent' = Append(sent, c) /\ commands' = commands + 1
  /\ UNCHANGED <<parser, executed, closed, logVars, pc, crashes, store>>

MustRewrite(size) == size > REWRITE_THRESHOLD /\ size > last_rewrite_size * 2

\* Mutant: after a rewrite the log goes on with what was written before it, too.
LogKeepsBuffer(calls) ==
  \/ /\ buffer' = buffer \o Records(calls)
     /\ UNCHANGED <<file, last_rewrite_size, safe, torn>>
  \/ /\ calls # <<>> /\ MustRewrite(Len(file \o buffer \o Records(calls)))
     /\ file' = Records(store \o calls) /\ buffer' = buffer \o Records(calls)
     /\ last_rewrite_size' = Len(file')
     /\ safe' = Len(store \o calls) /\ torn' = FALSE

\* append_to_aof and check_and_rewrite_aof for the commands of one recv: the log
\* may be written anew after any of them, the k-th.  The stream may have passed
\* on everything when the size of the file is looked at, every 5 seconds.
Log(calls) ==
  \/ /\ buffer' = buffer \o Records(calls)
     /\ UNCHANGED <<file, last_rewrite_size, safe, torn>>
  \/ \E k \in 1 .. Len(calls) :
       LET first == SubSeq(calls, 1, k)
       IN /\ MustRewrite(Len(file \o buffer \o Records(first)))
          /\ file' = Records(store \o first)
          /\ buffer' = Records(SubSeq(calls, k + 1, Len(calls)))
          /\ last_rewrite_size' = Len(file')
          /\ safe' = Len(store \o first) /\ torn' = FALSE

\* The connection is gone, with its parser and what was on its way.
Hangup ==
  /\ wire' = <<>> /\ parser' = Fresh
  /\ sent' = <<>> /\ executed' = <<>>

\* The process ends without flushing: the kernel has what the stream has passed
\* on, which is any part of it.
Killed ==
  /\ Hangup /\ pc' = "down"
  /\ buffer' = <<>> /\ \E k \in 0 .. Len(buffer) : file' = file \o SubSeq(buffer, 1, k)
  /\ UNCHANGED <<closed, last_rewrite_size, safe, torn, store>>

\* recv returns n characters and they are parsed.
Recv(n) ==
  /\ pc = "up" /\ n <= Len(wire) /\ n <= RecvBuffer
  /\ LET run == parse_and_execute(parser, SubSeq(wire, 1, n))
     IN IF run.thrown THEN Killed
        ELSE /\ wire' = SubSeq(wire, n + 1, Len(wire)) /\ parser' = run.p
             /\ executed' = executed \o run.calls
             /\ store' = store \o run.calls
             /\ Log(run.calls)
             /\ UNCHANGED <<sent, closed, pc>>
  /\ UNCHANGED <<commands, crashes>>

\* Mutant: the next client on the descriptor inherits the parser.
DisconnectKeepsParser ==
  /\ pc = "up" /\ closed < MaxClients
  /\ wire' = <<>> /\ sent' = <<>> /\ executed' = <<>>
  /\ closed' = closed + 1
  /\ UNCHANGED <<parser, logVars, pc, commands, crashes, store>>

\* The client closes the connection, in the middle of a command or not, and the
\* next one gets its descriptor and a new Client.
Disconnect ==
  /\ pc = "up" /\ closed < MaxClients
  /\ Hangup /\ closed' = closed + 1
  /\ UNCHANGED <<logVars, pc, commands, crashes, store>>

-----------------------------------------------------------------------------
(* The log.                                                                *)

flush_aof ==
  /\ pc = "up" /\ buffer # <<>>
  /\ file' = file \o buffer /\ buffer' = <<>>
  /\ safe' = Len(store)
  /\ UNCHANGED <<last_rewrite_size, torn, clientVars, pc, commands, crashes, store>>

Crash ==
  /\ pc = "up" /\ crashes < MaxCrashes
  /\ Killed
  /\ crashes' = crashes + 1 /\ UNCHANGED commands

\* replay_aof at the start.  Half a command at the end of the log stays there,
\* unless the log is over the threshold and written anew.
replay_aof ==
  /\ pc = "down"
  /\ LET run == Replayed(file)
     IN IF run.thrown
        THEN pc' = "failed" /\ UNCHANGED <<logVars, store>>
        ELSE /\ pc' = "up"
             /\ store' = run.calls /\ safe' = Len(run.calls)
             /\ IF Len(file) > REWRITE_THRESHOLD
                THEN file' = Records(run.calls) /\ torn' = FALSE
                ELSE file' = file /\ torn' = (run.p.state # "IDLE")
             /\ last_rewrite_size' = Len(file')
             /\ UNCHANGED buffer
  /\ UNCHANGED <<clientVars, commands, crashes>>

Next ==
  \/ \E c \in Commands : ClientSends(c)
  \/ \E n \in 1 .. Len(wire) : Recv(n)
  \/ Disconnect \/ flush_aof \/ Crash \/ replay_aof

\* What has arrived is received: epoll reports the socket until it is read.
Spec == Init /\ [][Next]_vars /\ WF_vars(\E n \in 1 .. Len(wire) : Recv(n))

-----------------------------------------------------------------------------
(* Properties.                                                             *)

\* Every variable has its type; a parser collects characters of the alphabet only
\* and never waits for fewer arguments than it has.
TypeOK ==
  /\ Range(wire) \cup Range(buffer) \cup Range(file) \subseteq Characters
  /\ parser.state \in {"IDLE", "READING_ARRAY_SIZE", "READING_BULK_SIZE", "READING_DATA"}
  /\ parser.state \in {"READING_BULK_SIZE", "READING_DATA"} =>
       Len(parser.args) < parser.array_count
  /\ last_rewrite_size \in Nat /\ safe \in 0 .. Len(store) /\ torn \in BOOLEAN
  /\ pc \in {"up", "down", "failed"}
  /\ commands \in 0 .. MaxCommands /\ crashes \in 0 .. MaxCrashes
  /\ closed \in 0 .. MaxClients

\* However the stream is cut, exactly the commands that have arrived completely are
\* executed, in their order and with their arguments, whatever characters are in
\* them, and between two commands the parser is as new ("handling TCP packet
\* fragmentation and partial reads natively", README.md:9).
ExecutesWhatArrived ==
  LET length(k) == Len(Records(SubSeq(sent, 1, k)))
      received == length(Len(sent)) - Len(wire)
      k == Max({j \in 0 .. Len(sent) : length(j) <= received})
  IN /\ executed = SubSeq(sent, 1, k)
     /\ received = length(k) => parser = Fresh

\* What is sent is executed, unless the connection ends before.
SentIsExecuted == executed # sent ~> executed = sent

\* File and buffer together decode to the commands executed, unless the process
\* started on a log with half a command at the end.
LogDecodes ==
  pc = "up" /\ ~torn =>
    LET run == Replayed(file \o buffer) IN run.p = Fresh /\ run.calls = store

\* A restart executes no less than what was flushed, no half a command and nothing
\* else, wherever the crash has cut the log.
RestartExact ==
  /\ pc # "failed"
  /\ LET run == Replayed(file)
     IN ~run.thrown /\ IsPrefix(run.calls, store) /\ Len(run.calls) >= safe

\* The first crash of a log that was never cut is repaired by the replay.
TornTailIgnored == ~torn => RestartExact
=============================================================================
