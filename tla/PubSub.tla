------------------------------- MODULE PubSub -------------------------------
(***************************************************************************)
(* Publish/subscribe and the event loop it runs in: src/src/pubsub.cpp,    *)
(* the epoll loop of src/src/main.cpp and the subscriber gate of           *)
(* handle_command (src/src/commands.cpp).                                  *)
(*                                                                         *)
(* The sockets are blocking: every iteration of a handler that sends is a  *)
(* step of its own, and waits while the peer leaves no room.  pc is where  *)
(* the server thread stands:                                               *)
(*                                                                         *)
(*   loop                      between two events of the epoll loop        *)
(*   execute                   in parse_and_execute, between two commands  *)
(*   subscribe, unsubscribe    in the loop over the channels in rest       *)
(*   publish                   in the loop over the subscribers in targets *)
(*                             of the channel in rest                      *)
(*   reply                     about to send the one reply of a command    *)
(*                                                                         *)
(* The keys of the two std::maps are clients and channels; a key that is   *)
(* absent has the value operator[] would give it.                          *)
(***************************************************************************)
EXTENDS Integers, Sequences, FiniteSets

CONSTANTS
  Fd,             \* the file descriptors accept may return
  server_fd,
  Channel,
  MAX_SUBSCRIPTIONS_PER_CLIENT,
  MaxArgs,        \* bound: channels named by one command
  Pipe,           \* bound: commands a peer has sent and the server not read
  Window,         \* bound: replies a peer's socket holds before send blocks
  Backlog         \* bound: connections waiting to be accepted

ASSUME FdAssumption == Fd \subseteq Nat /\ server_fd \notin Fd
ASSUME ChannelAssumption == IsFiniteSet(Channel)
ASSUME BoundAssumption ==
  /\ MAX_SUBSCRIPTIONS_PER_CLIENT \in Nat \ {0}
  /\ MaxArgs \in Nat /\ MaxArgs >= MAX_SUBSCRIPTIONS_PER_CLIENT
  /\ Pipe \in Nat /\ Window \in Nat /\ Backlog \in Nat

VARIABLES
  socket,                \* the kernel's view of each descriptor
  unread,                \* commands in the receive buffer of each descriptor
  space,                 \* replies that fit in the send buffer
  backlog,
  clients,               \* the keys of clients_map
  is_subscriber,
  subscribed_channels,
  channels,              \* the keys of channels_subscribers
  channels_subscribers,
  events,                \* what epoll_wait returned and is not handled yet
  pc, fd, todo,          \* the client being served, if any, and the number of
                         \* its commands that are left
  rest, targets,
  alive,                 \* no signal has killed the process
  told                   \* history: the channels the replies sent so far tell
                         \* each peer it is subscribed to

kernelVars == <<socket, unread, space, backlog>>
registryVars == <<clients, is_subscriber, subscribed_channels,
                  channels, channels_subscribers>>
handlerVars == <<pc, fd, todo, rest, targets>>
vars == <<kernelVars, registryVars, events, handlerVars, alive, told>>

ArgLists == UNION {[1 .. n -> Channel] : n \in 0 .. MaxArgs}

Init ==
  /\ socket = [f \in Fd |-> "free"]
  /\ unread = [f \in Fd |-> 0]
  /\ space = [f \in Fd |-> 0]
  /\ backlog = 0
  /\ clients = {}
  /\ is_subscriber = [f \in Fd |-> FALSE]
  /\ subscribed_channels = [f \in Fd |-> {}]
  /\ channels = {}
  /\ channels_subscribers = [c \in Channel |-> {}]
  /\ events = {}
  /\ pc = "loop" /\ fd = server_fd /\ todo = 0
  /\ rest = <<>> /\ targets = {}
  /\ alive = TRUE
  /\ told = [f \in Fd |-> {}]

-----------------------------------------------------------------------------
(* The peers.                                                              *)

PeerConnects ==
  /\ backlog < Backlog
  /\ backlog' = backlog + 1
  /\ UNCHANGED <<socket, unread, space, registryVars, events, handlerVars, alive, told>>

PeerSends(f) ==
  /\ socket[f] = "open" /\ unread[f] < Pipe
  /\ unread' = [unread EXCEPT ![f] = @ + 1]
  /\ UNCHANGED <<socket, space, backlog, registryVars, events, handlerVars, alive, told>>

PeerReads(f) ==
  /\ socket[f] = "open" /\ space[f] < Window
  /\ space' = [space EXCEPT ![f] = @ + 1]
  /\ UNCHANGED <<socket, unread, backlog, registryVars, events, handlerVars, alive, told>>

PeerCloses(f) ==
  /\ socket[f] = "open"
  /\ socket' = [socket EXCEPT ![f] = "gone"]
  /\ space' = [space EXCEPT ![f] = 0]
  /\ UNCHANGED <<unread, backlog, registryVars, events, handlerVars, alive, told>>

\* Mutant: send does not wait for room.
SendNoWait(f) ==
  /\ space' = IF socket[f] = "open" THEN [space EXCEPT ![f] = @ - 1] ELSE space
  /\ socket' = IF socket[f] = "gone" THEN [socket EXCEPT ![f] = "broken"] ELSE socket
  /\ alive' = (socket[f] # "broken")
  /\ UNCHANGED <<unread, backlog>>

\* send without MSG_NOSIGNAL.  It waits for room; the first one to a peer that
\* is gone is answered by a reset, and the next one raises SIGPIPE.
Send(f) ==
  /\ socket[f] = "open" => space[f] > 0
  /\ space' = IF socket[f] = "open" THEN [space EXCEPT ![f] = @ - 1] ELSE space
  /\ socket' = IF socket[f] = "gone" THEN [socket EXCEPT ![f] = "broken"] ELSE socket
  /\ alive' = (socket[f] # "broken")
  /\ UNCHANGED <<unread, backlog>>

-----------------------------------------------------------------------------
(* The epoll loop of main.                                                 *)

\* Mutant: while connections wait, only they are served.
ReadyServerFirst ==
  IF backlog > 0
  THEN {server_fd}
  ELSE {f \in Fd : \/ socket[f] = "open" /\ unread[f] > 0
                   \/ socket[f] \in {"gone", "broken"}}

\* The descriptors epoll reports.
Ready ==
  {f \in Fd : \/ socket[f] = "open" /\ unread[f] > 0
              \/ socket[f] \in {"gone", "broken"}}
  \cup (IF backlog > 0 THEN {server_fd} ELSE {})

epoll_wait ==
  /\ alive /\ pc = "loop" /\ events = {} /\ Ready # {}
  /\ events' = Ready
  /\ UNCHANGED <<kernelVars, registryVars, handlerVars, alive, told>>

\* accept returns the lowest free descriptor f, and the client is registered.
Accept(f) ==
  /\ alive /\ pc = "loop" /\ server_fd \in events
  /\ socket[f] = "free" /\ \A g \in Fd : socket[g] = "free" => f <= g
  /\ events' = events \ {server_fd}
  /\ backlog' = backlog - 1
  /\ socket' = [socket EXCEPT ![f] = "open"]
  /\ unread' = [unread EXCEPT ![f] = 0]
  /\ space' = [space EXCEPT ![f] = Window]
  /\ clients' = clients \cup {f}
  /\ is_subscriber' = [is_subscriber EXCEPT ![f] = FALSE]
  /\ subscribed_channels' = [subscribed_channels EXCEPT ![f] = {}]
  /\ told' = [told EXCEPT ![f] = {}]
  /\ UNCHANGED <<channels, channels_subscribers, handlerVars, alive>>

\* No descriptor is free and the connection stays in the backlog, or epoll_ctl
\* fails and the new descriptor is closed at once.
AcceptFails ==
  /\ alive /\ pc = "loop" /\ server_fd \in events
  /\ events' = events \ {server_fd}
  /\ IF \E f \in Fd : socket[f] = "free"
     THEN backlog' = backlog - 1
     ELSE UNCHANGED backlog
  /\ UNCHANGED <<socket, unread, space, registryVars, handlerVars, alive, told>>

\* recv returns all the commands the peer has sent (they fit in its buffer).
Recv(f) ==
  /\ alive /\ pc = "loop" /\ f \in events
  /\ unread[f] > 0 /\ socket[f] # "broken"
  /\ events' = events \ {f}
  /\ unread' = [unread EXCEPT ![f] = 0]
  /\ pc' = "execute" /\ fd' = f /\ todo' = unread[f]
  /\ UNCHANGED <<socket, space, backlog, registryVars, rest, targets, alive, told>>

\* What Disconnect does to the maps: the client leaves its channels.
CleanedUp(f) ==
  [c \in Channel |-> IF c \in subscribed_channels[f]
                     THEN channels_subscribers[c] \ {f}
                     ELSE channels_subscribers[c]]

\* Mutant: clients_map.erase before pubsub_cleanup_client, which then finds no
\* client and returns.
DisconnectEraseFirst(f) ==
  /\ alive /\ pc = "loop" /\ f \in events
  /\ unread[f] = 0 \/ socket[f] = "broken"
  /\ events' = events \ {f}
  /\ socket' = [socket EXCEPT ![f] = "free"]
  /\ unread' = [unread EXCEPT ![f] = 0]
  /\ clients' = clients \ {f}
  /\ is_subscriber' = [is_subscriber EXCEPT ![f] = FALSE]
  /\ subscribed_channels' = [subscribed_channels EXCEPT ![f] = {}]
  /\ told' = [told EXCEPT ![f] = {}]
  /\ UNCHANGED <<space, backlog, channels, channels_subscribers, handlerVars, alive>>

\* Mutant: the client is never erased from clients_map.
DisconnectKeepsClient(f) ==
  /\ alive /\ pc = "loop" /\ f \in events
  /\ unread[f] = 0 \/ socket[f] = "broken"
  /\ events' = events \ {f}
  /\ socket' = [socket EXCEPT ![f] = "free"]
  /\ unread' = [unread EXCEPT ![f] = 0]
  /\ channels_subscribers' = CleanedUp(f)
  /\ channels' = channels \cup subscribed_channels[f]
  /\ told' = [told EXCEPT ![f] = {}]
  /\ UNCHANGED <<space, backlog, clients, is_subscriber, subscribed_channels,
                 handlerVars, alive>>

\* Mutant: the descriptor is never closed.
DisconnectNoClose(f) ==
  /\ alive /\ pc = "loop" /\ f \in events
  /\ unread[f] = 0 \/ socket[f] = "broken"
  /\ events' = events \ {f}
  /\ unread' = [unread EXCEPT ![f] = 0]
  /\ channels_subscribers' = CleanedUp(f)
  /\ channels' = channels \cup subscribed_channels[f]
  /\ clients' = clients \ {f}
  /\ is_subscriber' = [is_subscriber EXCEPT ![f] = FALSE]
  /\ subscribed_channels' = [subscribed_channels EXCEPT ![f] = {}]
  /\ told' = [told EXCEPT ![f] = {}]
  /\ UNCHANGED <<socket, space, backlog, handlerVars, alive>>

\* recv returns 0 or an error: pubsub_cleanup_client, erase and close.
Disconnect(f) ==
  /\ alive /\ pc = "loop" /\ f \in events
  /\ unread[f] = 0 \/ socket[f] = "broken"
  /\ events' = events \ {f}
  /\ socket' = [socket EXCEPT ![f] = "free"]
  /\ unread' = [unread EXCEPT ![f] = 0]
  /\ channels_subscribers' = CleanedUp(f)
  /\ channels' = channels \cup subscribed_channels[f]
  /\ clients' = clients \ {f}
  /\ is_subscriber' = [is_subscriber EXCEPT ![f] = FALSE]
  /\ subscribed_channels' = [subscribed_channels EXCEPT ![f] = {}]
  /\ told' = [told EXCEPT ![f] = {}]
  /\ UNCHANGED <<space, backlog, handlerVars, alive>>

-----------------------------------------------------------------------------
(* handle_command, for the next command of the client being served.        *)

\* The next of the commands received from fd, which ones the peers choose.
NextCommand ==
  /\ alive /\ pc = "execute" /\ todo > 0
  /\ todo' = todo - 1
  /\ UNCHANGED <<kernelVars, registryVars, events, fd, alive, told>>

Subscribe(chs) ==
  /\ NextCommand
  /\ chs # <<>>
  /\ pc' = "subscribe" /\ rest' = chs
  /\ UNCHANGED targets

\* s lists the elements of S, each one once.
Lists(s, S) == {s[i] : i \in DOMAIN s} = S /\ Len(s) = Cardinality(S)

\* No channel named: all the channels of the client; if there is none either,
\* one reply says so.
Unsubscribe(chs) ==
  /\ NextCommand
  /\ \/ chs # <<>> /\ rest' = chs
     \/ chs = <<>> /\ rest' \in ArgLists /\ Lists(rest', subscribed_channels[fd])
  /\ pc' = IF rest' = <<>> THEN "reply" ELSE "unsubscribe"
  /\ UNCHANGED targets

\* Mutant: a subscriber may publish.
PublishUngated(c) ==
  /\ NextCommand
  /\ rest' = <<c>> /\ targets' = channels_subscribers[c]
  /\ pc' = "publish"

\* Only a client that is not in subscriber mode publishes.
Publish(c) ==
  /\ NextCommand
  /\ ~is_subscriber[fd]
  /\ rest' = <<c>> /\ targets' = channels_subscribers[c]
  /\ pc' = "publish"

\* Any other command, or one refused in subscriber mode.
OtherCommand ==
  /\ NextCommand
  /\ pc' = "reply"
  /\ UNCHANGED <<rest, targets>>

EndOfBuffer ==
  /\ alive /\ pc = "execute" /\ todo = 0
  /\ pc' = "loop" /\ fd' = server_fd
  /\ UNCHANGED <<kernelVars, registryVars, events, todo, rest, targets, alive, told>>

\* The loop of the handler goes on with the rest of the channels, or ends.
Continue(chs) ==
  /\ rest' = chs
  /\ pc' = IF chs = <<>> THEN "execute" ELSE pc
  /\ UNCHANGED <<unread, backlog, clients, events, fd, todo, targets>>

\* Mutant: the limit is checked one subscription too late.
OverLimitOffByOne(c) ==
  /\ c \notin subscribed_channels[fd]
  /\ Cardinality(subscribed_channels[fd]) > MAX_SUBSCRIPTIONS_PER_CLIENT

OverLimit(c) ==
  /\ c \notin subscribed_channels[fd]
  /\ Cardinality(subscribed_channels[fd]) >= MAX_SUBSCRIPTIONS_PER_CLIENT

\* Mutant: the loop goes on with the same channel.
Retry == Continue(rest)

Break == Continue(<<>>)

\* One iteration of pubsub_subscribe: a channel over the limit ends the loop.
SubscribeOne ==
  /\ alive /\ pc = "subscribe"
  /\ LET c == Head(rest)
     IN /\ Send(fd)
        /\ IF OverLimit(c)
           THEN /\ Break
                /\ UNCHANGED <<is_subscriber, subscribed_channels, channels,
                               channels_subscribers, told>>
           ELSE /\ Continue(Tail(rest))
                /\ channels' = channels \cup {c}
                /\ channels_subscribers' = [channels_subscribers EXCEPT ![c] = @ \cup {fd}]
                /\ is_subscriber' = [is_subscriber EXCEPT ![fd] = TRUE]
                /\ subscribed_channels' = [subscribed_channels EXCEPT ![fd] = @ \cup {c}]
                /\ told' = [told EXCEPT ![fd] = @ \cup {c}]

\* One iteration of pubsub_unsubscribe.
UnsubscribeOne ==
  /\ alive /\ pc = "unsubscribe"
  /\ LET c == Head(rest)
         left == subscribed_channels[fd] \ {c}
     IN /\ Send(fd)
        /\ Continue(Tail(rest))
        /\ channels' = channels \cup {c}
        /\ channels_subscribers' = [channels_subscribers EXCEPT ![c] = @ \ {fd}]
        /\ subscribed_channels' = [subscribed_channels EXCEPT ![fd] = left]
        /\ is_subscriber' = [is_subscriber EXCEPT ![fd] = @ /\ left # {}]
        /\ told' = [told EXCEPT ![fd] = @ \ {c}]

\* One iteration of pubsub_publish, in the order of std::set<int>: the message
\* is sent, or a descriptor that is no client is dropped from the channel.
PublishOne(t) ==
  /\ alive /\ pc = "publish" /\ t \in targets /\ \A g \in targets : t <= g
  /\ targets' = targets \ {t}
  /\ IF t \in clients
     THEN Send(t) /\ UNCHANGED channels_subscribers
     ELSE /\ channels_subscribers' = [channels_subscribers EXCEPT ![Head(rest)] = @ \ {t}]
          /\ UNCHANGED <<kernelVars, alive>>
  /\ UNCHANGED <<clients, is_subscriber, subscribed_channels, channels,
                 events, pc, fd, todo, rest, told>>

PublishDone ==
  /\ alive /\ pc = "publish" /\ targets = {}
  /\ pc' = "reply" /\ rest' = <<>>
  /\ UNCHANGED <<kernelVars, registryVars, events, fd, todo, targets, alive, told>>

Reply ==
  /\ alive /\ pc = "reply"
  /\ Send(fd)
  /\ pc' = "execute"
  /\ UNCHANGED <<registryVars, events, fd, todo, rest, targets, told>>

-----------------------------------------------------------------------------
Peer ==
  \/ PeerConnects
  \/ \E f \in Fd : PeerSends(f) \/ PeerReads(f) \/ PeerCloses(f)

Server ==
  \/ epoll_wait \/ AcceptFails
  \/ \E f \in Fd : Accept(f) \/ Recv(f) \/ Disconnect(f) \/ PublishOne(f)
  \/ \E chs \in ArgLists : Subscribe(chs) \/ Unsubscribe(chs)
  \/ \E c \in Channel : Publish(c)
  \/ OtherCommand \/ EndOfBuffer \/ SubscribeOne \/ UnsubscribeOne
  \/ PublishDone \/ Reply

Next == Peer \/ Server

\* The server thread runs, and every peer that stays reads its replies.
Spec ==
  /\ Init /\ [][Next]_vars
  /\ WF_vars(Server)
  /\ \A f \in Fd : WF_vars(PeerReads(f))
-----------------------------------------------------------------------------
(* Properties.                                                             *)

\* Every variable has its type.
TypeOK ==
  /\ socket \in [Fd -> {"free", "open", "gone", "broken"}]
  /\ unread \in [Fd -> 0 .. Pipe] /\ space \in [Fd -> 0 .. Window]
  /\ backlog \in 0 .. Backlog
  /\ clients \subseteq Fd /\ is_subscriber \in [Fd -> BOOLEAN]
  /\ subscribed_channels \in [Fd -> SUBSET Channel]
  /\ channels \subseteq Channel /\ channels_subscribers \in [Channel -> SUBSET Fd]
  /\ events \subseteq Fd \cup {server_fd}
  /\ pc \in {"loop", "execute", "subscribe", "unsubscribe", "publish", "reply"}
  /\ fd \in Fd \cup {server_fd} /\ todo \in 0 .. Pipe
  /\ rest \in Seq(Channel) /\ targets \subseteq Fd
  /\ alive \in BOOLEAN /\ told \in [Fd -> SUBSET Channel]

\* The two indexes of pubsub.cpp agree after every iteration of every handler:
\* a channel lists a descriptor exactly when that client is subscribed to it,
\* and a client is in subscriber mode exactly while it has a subscription.
IndexesAgree ==
  /\ \A f \in Fd, c \in Channel :
       f \in channels_subscribers[c] <=> c \in subscribed_channels[f]
  /\ \A f \in Fd : is_subscriber[f] <=> subscribed_channels[f] # {}
  /\ \A c \in Channel \ channels : channels_subscribers[c] = {}

\* README.md:98, "Zero-Ghost Subscriber Policy": only a connected client is
\* subscribed, and a connection that reuses the descriptor of a closed one has
\* no subscription it was not told of.
NoGhosts ==
  /\ \A f \in Fd : subscribed_channels[f] # {} => f \in clients
  /\ \A f \in Fd : told[f] = subscribed_channels[f]

\* No client, however it mixes SUBSCRIBE and UNSUBSCRIBE, holds more than
\* MAX_SUBSCRIPTIONS_PER_CLIENT subscriptions (pubsub.cpp:17).
WithinLimit ==
  \A f \in Fd : Cardinality(subscribed_channels[f]) <= MAX_SUBSCRIPTIONS_PER_CLIENT

\* No event of the batch, and no step of a handler, is for a descriptor that
\* was closed earlier in the batch (main.cpp:114): recv on one would block the
\* server, or read the bytes of the connection that reuses it.
NoStaleEvent ==
  /\ \A f \in events \ {server_fd} : f \in clients
  /\ pc # "loop" => fd \in clients
  /\ \A f \in Fd : f \in clients <=> socket[f] # "free"

\* A message goes only to clients that were told they are subscribed to its
\* channel, and never to the client that publishes it (commands.cpp:883).
OnlyToSubscribers ==
  pc = "publish" => \A t \in targets : Head(rest) \in told[t] /\ t # fd

\* Every command a connected peer has sent is read: no client starves, as long
\* as the peers read what is sent to them.
EveryCommandRead ==
  \A f \in Fd : unread[f] > 0 ~> (unread[f] = 0 \/ socket[f] # "open" \/ ~alive)

\* No handler waits for ever: the server comes back to its event loop.
HandlerReturns == pc # "loop" ~> (pc = "loop" \/ ~alive)

\* Disconnected clients never "contaminate the broadcast loop" (README.md:98):
\* publishing to a channel does not end the server.
BroadcastSurvives == pc = "publish" => alive
=============================================================================
