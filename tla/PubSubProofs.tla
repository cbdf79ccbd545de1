---------------------------- MODULE PubSubProofs ----------------------------
(***************************************************************************)
(* Proofs about module PubSub, for every number of descriptors and         *)
(* channels, every limit and every length of the commands.                 *)
(***************************************************************************)
EXTENDS PubSub, FiniteSetTheorems, TLAPS

\* What the safety properties need to be inductive: a handler's loop has a
\* channel to work on, and an event of server_fd stands for a connection.
LoopShape ==
  /\ pc \in {"subscribe", "unsubscribe", "publish"} => rest # <<>>
  /\ server_fd \in events => backlog > 0

Registry == IndexesAgree /\ NoGhosts /\ WithinLimit

IInv == TypeOK /\ Registry /\ NoStaleEvent /\ OnlyToSubscribers /\ LoopShape

\* send keeps the kernel's view well formed and frees no descriptor.
LEMMA SendKeeps ==
  ASSUME TypeOK, NEW f \in Fd, Send(f)
  PROVE  /\ socket' \in [Fd -> {"free", "open", "gone", "broken"}]
         /\ space' \in [Fd -> 0 .. Window]
         /\ alive' \in BOOLEAN
         /\ unread' = unread /\ backlog' = backlog
         /\ \A g \in Fd : socket'[g] = "free" <=> socket[g] = "free"
<1>1. space' \in [Fd -> 0 .. Window]
  BY BoundAssumption DEF TypeOK, Send
<1>2. /\ socket' \in [Fd -> {"free", "open", "gone", "broken"}]
      /\ \A g \in Fd : socket'[g] = "free" <=> socket[g] = "free"
  BY DEF TypeOK, Send
<1>3. alive' \in BOOLEAN /\ unread' = unread /\ backlog' = backlog
  BY DEF Send
<1> QED BY <1>1, <1>2, <1>3

\* The limit is kept when one channel enters a set that is below it, and when
\* channels leave one that is not above it.
LEMMA LimitKept ==
  ASSUME NEW S \in SUBSET Channel, NEW c \in Channel
  PROVE  /\ Cardinality(S) \in Nat
         /\ Cardinality({}) = 0
         /\ c \notin S => Cardinality(S \cup {c}) = Cardinality(S) + 1
         /\ Cardinality(S \ {c}) <= Cardinality(S)
<1>1. IsFiniteSet(S)
  BY ChannelAssumption, FS_Subset
<1>2. Cardinality(S) \in Nat /\ Cardinality({}) = 0
  BY <1>1, FS_CardinalityType, FS_EmptySet
<1>3. c \notin S => Cardinality(S \cup {c}) = Cardinality(S) + 1
  BY <1>1, FS_AddElement
<1>4. Cardinality(S \ {c}) <= Cardinality(S)
  BY <1>1, FS_Subset
<1> QED BY <1>2, <1>3, <1>4

\* Commands name sequences of channels.
LEMMA ArgListsType == ASSUME NEW s \in ArgLists PROVE s \in Seq(Channel)
BY DEF ArgLists

\* The initial state: no client, no channel.
LEMMA InitIInv == Init => IInv
<1> SUFFICES ASSUME Init PROVE IInv
  OBVIOUS
<1>1. TypeOK
  BY BoundAssumption DEF Init, TypeOK
<1>2. Registry
  <2>1. Cardinality({}) = 0
    BY FS_EmptySet
  <2> QED BY <2>1, BoundAssumption DEF Init, Registry, IndexesAgree, NoGhosts, WithinLimit
<1>3. NoStaleEvent /\ OnlyToSubscribers /\ LoopShape
  BY DEF Init, NoStaleEvent, OnlyToSubscribers, LoopShape
<1> QED BY <1>1, <1>2, <1>3 DEF IInv

\* The registry does not change when its variables and told do not.
LEMMA RegistryUnchanged ==
  ASSUME Registry, UNCHANGED <<registryVars, told>>
  PROVE  Registry'
BY DEF Registry, registryVars, IndexesAgree, NoGhosts, WithinLimit

\* A peer's step changes the kernel's view of an open socket only.
LEMMA PeerKeeps == ASSUME IInv, Peer PROVE IInv'
<1> USE DEF IInv
<1>1. Registry' /\ OnlyToSubscribers'
  BY RegistryUnchanged
  DEF Peer, PeerConnects, PeerSends, PeerReads, PeerCloses, handlerVars, registryVars,
      OnlyToSubscribers
<1>2. TypeOK'
  <2>1. CASE PeerConnects
    BY <2>1, BoundAssumption DEF PeerConnects, TypeOK, handlerVars, registryVars
  <2>2. ASSUME NEW f \in Fd, PeerSends(f) PROVE TypeOK'
    BY <2>2, BoundAssumption DEF PeerSends, TypeOK, handlerVars, registryVars
  <2>3. ASSUME NEW f \in Fd, PeerReads(f) PROVE TypeOK'
    BY <2>3, BoundAssumption DEF PeerReads, TypeOK, handlerVars, registryVars
  <2>4. ASSUME NEW f \in Fd, PeerCloses(f) PROVE TypeOK'
    BY <2>4, BoundAssumption DEF PeerCloses, TypeOK, handlerVars, registryVars
  <2> QED BY <2>1, <2>2, <2>3, <2>4 DEF Peer
<1>3. NoStaleEvent'
  BY DEF Peer, PeerConnects, PeerSends, PeerReads, PeerCloses, handlerVars, registryVars,
         NoStaleEvent, TypeOK
<1>4. LoopShape'
  BY DEF Peer, PeerConnects, PeerSends, PeerReads, PeerCloses, handlerVars, LoopShape, TypeOK
<1> QED BY <1>1, <1>2, <1>3, <1>4

\* epoll_wait reports connected descriptors only.
LEMMA EpollKeeps == ASSUME IInv, epoll_wait PROVE IInv'
<1> USE DEF IInv
<1>1. TypeOK'
  BY DEF epoll_wait, Ready, TypeOK, kernelVars, registryVars, handlerVars
<1>2. Registry' /\ OnlyToSubscribers'
  BY RegistryUnchanged DEF epoll_wait, registryVars, handlerVars, OnlyToSubscribers
<1>3. NoStaleEvent' /\ LoopShape'
  BY FdAssumption
  DEF epoll_wait, Ready, TypeOK, NoStaleEvent, LoopShape, kernelVars, registryVars, handlerVars
<1> QED BY <1>1, <1>2, <1>3

\* A descriptor that accept reuses had left every channel when it was closed.
LEMMA AcceptKeeps == ASSUME IInv, NEW f \in Fd, Accept(f) PROVE IInv'
<1> USE DEF IInv
<1>1. f \notin clients /\ subscribed_channels[f] = {}
  BY DEF Accept, NoStaleEvent, Registry, NoGhosts
<1>2. TypeOK'
  BY BoundAssumption DEF Accept, TypeOK, LoopShape, handlerVars
<1>3. Registry'
  <2>1. subscribed_channels' = subscribed_channels
    BY <1>1 DEF Accept, TypeOK
  <2>2. is_subscriber' = is_subscriber /\ told' = told
    BY <1>1 DEF Accept, TypeOK, Registry, IndexesAgree, NoGhosts
  <2>3. IndexesAgree'
    BY <2>1, <2>2 DEF Accept, Registry, IndexesAgree
  <2>4. NoGhosts'
    BY <2>1, <2>2 DEF Accept, Registry, NoGhosts
  <2>5. WithinLimit'
    BY <2>1 DEF Registry, WithinLimit
  <2> QED BY <2>3, <2>4, <2>5 DEF Registry
<1>4. NoStaleEvent' /\ OnlyToSubscribers' /\ LoopShape'
  BY FdAssumption DEF Accept, NoStaleEvent, OnlyToSubscribers, LoopShape, TypeOK, handlerVars
<1> QED BY <1>2, <1>3, <1>4

\* A connection that is not registered leaves no trace.
LEMMA AcceptFailsKeeps == ASSUME IInv, AcceptFails PROVE IInv'
<1> USE DEF IInv
<1>1. TypeOK'
  BY BoundAssumption DEF AcceptFails, TypeOK, LoopShape, handlerVars, registryVars
<1>2. Registry' /\ OnlyToSubscribers'
  BY RegistryUnchanged DEF AcceptFails, registryVars, handlerVars, OnlyToSubscribers
<1>3. NoStaleEvent' /\ LoopShape'
  BY DEF AcceptFails, NoStaleEvent, LoopShape, registryVars, handlerVars
<1> QED BY <1>1, <1>2, <1>3

\* The commands received are those of a connected client.
LEMMA RecvKeeps == ASSUME IInv, NEW f \in Fd, Recv(f) PROVE IInv'
<1> USE DEF IInv
<1>1. TypeOK'
  BY BoundAssumption DEF Recv, TypeOK, registryVars
<1>2. Registry' /\ OnlyToSubscribers'
  BY RegistryUnchanged DEF Recv, registryVars, OnlyToSubscribers
<1>3. NoStaleEvent' /\ LoopShape'
  BY FdAssumption DEF Recv, NoStaleEvent, LoopShape, registryVars
<1> QED BY <1>1, <1>2, <1>3

\* A client that disconnects leaves both indexes, and no event of the batch is
\* left for its descriptor.
LEMMA DisconnectKeeps == ASSUME IInv, NEW f \in Fd, Disconnect(f) PROVE IInv'
<1> USE DEF IInv
<1>1. TypeOK'
  BY BoundAssumption DEF Disconnect, CleanedUp, TypeOK, handlerVars
<1>2. \A c \in Channel : channels_subscribers'[c] = channels_subscribers[c] \ {f}
  BY DEF Disconnect, CleanedUp, Registry, IndexesAgree
<1>3. \A g \in Fd : subscribed_channels'[g] = IF g = f THEN {} ELSE subscribed_channels[g]
  BY DEF Disconnect, TypeOK
<1>9. \A g \in Fd : told'[g] = IF g = f THEN {} ELSE told[g]
  BY DEF Disconnect, TypeOK
<1>4. IndexesAgree'
  <2>1. ASSUME NEW g \in Fd, NEW c \in Channel
        PROVE  g \in channels_subscribers'[c] <=> c \in subscribed_channels'[g]
    BY <1>2, <1>3 DEF Registry, IndexesAgree
  <2>2. ASSUME NEW g \in Fd
        PROVE  is_subscriber'[g] <=> subscribed_channels'[g] # {}
    <3>1. CASE g = f
      <4>1. ~is_subscriber'[g]
        BY <3>1 DEF Disconnect, TypeOK
      <4> QED BY <4>1, <3>1, <1>3
    <3>2. CASE g # f
      <4>1. is_subscriber'[g] = is_subscriber[g]
        BY <3>2 DEF Disconnect, TypeOK
      <4>2. subscribed_channels'[g] = subscribed_channels[g]
        BY <3>2, <1>3
      <4> QED BY <4>1, <4>2 DEF Registry, IndexesAgree
    <3> QED BY <3>1, <3>2
  <2>3. ASSUME NEW c \in Channel \ channels'
        PROVE  channels_subscribers'[c] = {}
    BY <1>2 DEF Disconnect, Registry, IndexesAgree
  <2> QED BY <2>1, <2>2, <2>3 DEF IndexesAgree
<1>5. NoGhosts'
  BY <1>3, <1>9 DEF Disconnect, Registry, NoGhosts
<1>6. WithinLimit'
  <2>1. Cardinality({}) = 0
    BY FS_EmptySet
  <2>2. ASSUME NEW g \in Fd
        PROVE  Cardinality(subscribed_channels'[g]) <= MAX_SUBSCRIPTIONS_PER_CLIENT
    <3>1. CASE g = f
      <4>1. subscribed_channels'[g] = {}
        BY <3>1, <1>3
      <4> QED BY <4>1, <2>1, BoundAssumption
    <3>2. CASE g # f
      BY <3>2, <1>3 DEF Registry, WithinLimit
    <3> QED BY <3>1, <3>2
  <2> QED BY <2>2 DEF WithinLimit
<1>7. NoStaleEvent'
  BY FdAssumption DEF Disconnect, NoStaleEvent, TypeOK, handlerVars
<1>8. OnlyToSubscribers' /\ LoopShape'
  BY FdAssumption DEF Disconnect, OnlyToSubscribers, LoopShape, handlerVars
<1> QED BY <1>1, <1>4, <1>5, <1>6, <1>7, <1>8 DEF Registry

\* Starting a command changes no index; a client that publishes is not in
\* subscriber mode, so no channel lists it.
LEMMA CommandKeeps ==
  ASSUME IInv,
         \/ \E chs \in ArgLists : Subscribe(chs) \/ Unsubscribe(chs)
         \/ \E c \in Channel : Publish(c)
         \/ OtherCommand \/ EndOfBuffer \/ PublishDone
  PROVE  IInv'
<1> USE DEF IInv
<1>1. /\ UNCHANGED <<kernelVars, registryVars, events, alive, told>>
      /\ pc # "loop" /\ fd' \in {fd, server_fd} /\ (pc' # "loop" => fd' = fd)
  BY DEF Subscribe, Unsubscribe, Publish, OtherCommand, EndOfBuffer, PublishDone, NextCommand
<1>2. Registry'
  BY <1>1, RegistryUnchanged
<1>3. NoStaleEvent'
  BY <1>1 DEF NoStaleEvent, kernelVars, registryVars
<1>4. fd \in Fd
  BY <1>1 DEF NoStaleEvent, TypeOK
<1> DEFINE Shape ==
      /\ todo' \in 0 .. Pipe /\ rest' \in Seq(Channel) /\ targets' \subseteq Fd
      /\ pc' \in {"loop", "execute", "subscribe", "unsubscribe", "publish", "reply"}
      /\ OnlyToSubscribers'
      /\ pc' \in {"subscribe", "unsubscribe", "publish"} => rest' # <<>>
<1>5. ASSUME NEW chs \in ArgLists, Subscribe(chs) PROVE Shape
  BY <1>5, ArgListsType, BoundAssumption
  DEF Subscribe, NextCommand, TypeOK, OnlyToSubscribers
<1>6. ASSUME NEW chs \in ArgLists, Unsubscribe(chs) PROVE Shape
  BY <1>6, ArgListsType, BoundAssumption
  DEF Unsubscribe, NextCommand, TypeOK, OnlyToSubscribers
<1>7. ASSUME NEW c \in Channel, Publish(c) PROVE Shape
  <2>1. /\ rest' = <<c>> /\ targets' = channels_subscribers[c] /\ pc' = "publish"
        /\ todo' \in 0 .. Pipe /\ fd' = fd /\ told' = told
    BY <1>7, BoundAssumption DEF Publish, NextCommand, TypeOK
  <2>2. subscribed_channels[fd] = {}
    BY <1>7, <1>4 DEF Publish, Registry, IndexesAgree
  <2>3. \A t \in channels_subscribers[c] : t \in Fd /\ c \in told[t] /\ t # fd
    BY <2>2, <1>4 DEF Registry, IndexesAgree, NoGhosts, TypeOK
  <2>4. Head(rest') = c /\ rest' \in Seq(Channel) /\ rest' # <<>>
    BY <2>1
  <2> QED BY <2>1, <2>3, <2>4 DEF OnlyToSubscribers
<1>8. ASSUME OtherCommand PROVE Shape
  BY <1>8, BoundAssumption DEF OtherCommand, NextCommand, TypeOK, OnlyToSubscribers
<1>9. ASSUME EndOfBuffer PROVE Shape
  BY <1>9 DEF EndOfBuffer, TypeOK, OnlyToSubscribers
<1>10. ASSUME PublishDone PROVE Shape
  BY <1>10 DEF PublishDone, TypeOK, OnlyToSubscribers
<1> HIDE DEF Shape
<1>11. Shape
  BY <1>5, <1>6, <1>7, <1>8, <1>9, <1>10
<1> USE DEF Shape
<1>12. TypeOK'
  BY <1>1, <1>11 DEF TypeOK, kernelVars, registryVars
<1>13. LoopShape'
  BY <1>1, <1>11 DEF LoopShape, kernelVars
<1> QED BY <1>2, <1>3, <1>11, <1>12, <1>13

\* The handler's loop over rest: it is never entered with no channel left.
LEMMA ContinueShape ==
  ASSUME TypeOK, rest # <<>>, NEW chs \in {<<>>, Tail(rest)},
         pc \in {"subscribe", "unsubscribe"}, Continue(chs)
  PROVE  /\ rest' \in Seq(Channel)
         /\ pc' \in {"execute", "subscribe", "unsubscribe"}
         /\ pc' \in {"subscribe", "unsubscribe"} => rest' # <<>>
<1>1. chs \in Seq(Channel)
  <2>1. rest \in Seq(Channel) /\ Tail(rest) \in Seq(Channel)
    BY DEF TypeOK
  <2>2. <<>> \in Seq(Channel)
    OBVIOUS
  <2> QED BY <2>1, <2>2
<1> QED BY <1>1 DEF Continue

\* One iteration of pubsub_subscribe keeps the indexes equal and the limit.
LEMMA SubscribeKeeps == ASSUME IInv, SubscribeOne PROVE IInv'
<1> USE DEF IInv
<1> DEFINE c == Head(rest)
<1>1. pc = "subscribe" /\ rest # <<>> /\ fd \in Fd /\ fd \in clients
  BY DEF SubscribeOne, LoopShape, NoStaleEvent, TypeOK
<1>2. c \in Channel
  BY <1>1 DEF TypeOK
<1>3. Send(fd)
  BY DEF SubscribeOne
<1>4. PICK chs \in {<<>>, Tail(rest)} : Continue(chs)
  BY DEF SubscribeOne, Break
<1>5. /\ socket' \in [Fd -> {"free", "open", "gone", "broken"}]
      /\ space' \in [Fd -> 0 .. Window]
      /\ alive' \in BOOLEAN
      /\ unread' = unread /\ backlog' = backlog
      /\ \A g \in Fd : socket'[g] = "free" <=> socket[g] = "free"
  BY <1>1, <1>3, SendKeeps
<1>6. /\ rest' \in Seq(Channel)
      /\ pc' \in {"execute", "subscribe", "unsubscribe"}
      /\ pc' \in {"subscribe", "unsubscribe"} => rest' # <<>>
  BY <1>1, <1>4, ContinueShape
<1>7. UNCHANGED <<clients, events, fd, todo, targets>>
  BY <1>4 DEF Continue
<1>8. NoStaleEvent' /\ LoopShape' /\ OnlyToSubscribers'
  BY <1>1, <1>5, <1>6, <1>7 DEF NoStaleEvent, LoopShape, OnlyToSubscribers
<1>9. CASE OverLimit(c)
  <2>1. UNCHANGED <<is_subscriber, subscribed_channels, channels, channels_subscribers, told>>
    BY <1>9 DEF SubscribeOne
  <2>2. Registry'
    BY <2>1, <1>7, RegistryUnchanged DEF registryVars
  <2>3. TypeOK'
    BY <2>1, <1>5, <1>6, <1>7 DEF TypeOK
  <2> QED BY <2>2, <2>3, <1>8
<1>10. CASE ~OverLimit(c)
  <2>1. /\ channels' = channels \cup {c}
        /\ channels_subscribers' = [channels_subscribers EXCEPT ![c] = @ \cup {fd}]
        /\ subscribed_channels' = [subscribed_channels EXCEPT ![fd] = @ \cup {c}]
        /\ told' = [told EXCEPT ![fd] = @ \cup {c}]
    BY <1>10 DEF SubscribeOne
  <2>2. is_subscriber' = [is_subscriber EXCEPT ![fd] = TRUE]
    BY <1>10 DEF SubscribeOne
  <2> HIDE DEF c
  <2>3. TypeOK'
    BY <2>1, <2>2, <1>1, <1>2, <1>5, <1>6, <1>7 DEF TypeOK
  <2>4. \A g \in Fd : /\ subscribed_channels'[g] = IF g = fd THEN subscribed_channels[g] \cup {c}
                                                  ELSE subscribed_channels[g]
                      /\ told'[g] = IF g = fd THEN told[g] \cup {c} ELSE told[g]
    BY <2>1, <1>1 DEF TypeOK
  <2>5. IndexesAgree'
    <3>1. ASSUME NEW g \in Fd, NEW d \in Channel
          PROVE  g \in channels_subscribers'[d] <=> d \in subscribed_channels'[g]
      BY <2>1, <2>4, <1>1, <1>2 DEF TypeOK, Registry, IndexesAgree
    <3>2. ASSUME NEW g \in Fd
          PROVE  is_subscriber'[g] <=> subscribed_channels'[g] # {}
      <4>1. CASE g = fd
        <5>1. is_subscriber'[g]
          BY <4>1, <2>2, <1>1 DEF TypeOK
        <5>2. subscribed_channels'[g] # {}
          BY <4>1, <2>4
        <5> QED BY <5>1, <5>2
      <4>2. CASE g # fd
        <5>1. is_subscriber'[g] = is_subscriber[g]
          BY <4>2, <2>2 DEF TypeOK
        <5>2. subscribed_channels'[g] = subscribed_channels[g]
          BY <4>2, <2>4
        <5> QED BY <5>1, <5>2 DEF Registry, IndexesAgree
      <4> QED BY <4>1, <4>2
    <3>3. ASSUME NEW d \in Channel \ channels'
          PROVE  channels_subscribers'[d] = {}
      BY <2>1, <1>2 DEF TypeOK, Registry, IndexesAgree
    <3> QED BY <3>1, <3>2, <3>3 DEF IndexesAgree
  <2>6. NoGhosts'
    BY <2>4, <1>1, <1>7 DEF Registry, NoGhosts
  <2>7. WithinLimit'
    <3>1. ASSUME NEW g \in Fd
          PROVE  Cardinality(subscribed_channels'[g]) <= MAX_SUBSCRIPTIONS_PER_CLIENT
      <4> DEFINE S == subscribed_channels[fd]
      <4>1. S \in SUBSET Channel /\ Cardinality(S) <= MAX_SUBSCRIPTIONS_PER_CLIENT
        BY <1>1 DEF TypeOK, Registry, WithinLimit
      <4>2. c \in S \/ Cardinality(S) < MAX_SUBSCRIPTIONS_PER_CLIENT
        <5>1. Cardinality(S) \in Nat
          BY <4>1, <1>2, LimitKept
        <5>2. c \in S \/ ~(Cardinality(S) >= MAX_SUBSCRIPTIONS_PER_CLIENT)
          BY <1>10 DEF OverLimit
        <5> HIDE DEF S
        <5> QED BY <5>1, <5>2, BoundAssumption
      <4>3. Cardinality(S \cup {c}) <= MAX_SUBSCRIPTIONS_PER_CLIENT
        <5>1. CASE c \in S
          <6>1. S \cup {c} = S
            BY <5>1
          <6> QED BY <6>1, <4>1
        <5>2. CASE c \notin S
          <6>1. Cardinality(S \cup {c}) = Cardinality(S) + 1 /\ Cardinality(S) \in Nat
            BY <5>2, <4>1, <1>2, LimitKept
          <6> QED BY <6>1, <5>2, <4>2, BoundAssumption
        <5> QED BY <5>1, <5>2
      <4>4. CASE g = fd
        BY <4>3, <4>4, <2>4
      <4>5. CASE g # fd
        BY <4>5, <2>4 DEF Registry, WithinLimit
      <4> QED BY <4>4, <4>5
    <3> QED BY <3>1 DEF WithinLimit
  <2> QED BY <2>3, <2>5, <2>6, <2>7, <1>8 DEF Registry
<1> QED BY <1>9, <1>10

\* One iteration of pubsub_unsubscribe keeps the indexes equal.
LEMMA UnsubscribeKeeps == ASSUME IInv, UnsubscribeOne PROVE IInv'
<1> USE DEF IInv
<1> DEFINE c == Head(rest)
<1>1. pc = "unsubscribe" /\ rest # <<>> /\ fd \in Fd /\ fd \in clients
  BY DEF UnsubscribeOne, LoopShape, NoStaleEvent, TypeOK
<1>2. c \in Channel
  BY <1>1 DEF TypeOK
<1>3. Send(fd) /\ Continue(Tail(rest))
  BY DEF UnsubscribeOne
<1>4. /\ channels' = channels \cup {c}
      /\ channels_subscribers' = [channels_subscribers EXCEPT ![c] = @ \ {fd}]
      /\ subscribed_channels' = [subscribed_channels EXCEPT ![fd] = subscribed_channels[fd] \ {c}]
      /\ told' = [told EXCEPT ![fd] = @ \ {c}]
  BY DEF UnsubscribeOne
<1>5. is_subscriber' = [is_subscriber EXCEPT ![fd] = @ /\ subscribed_channels[fd] \ {c} # {}]
  BY DEF UnsubscribeOne
<1>6. /\ socket' \in [Fd -> {"free", "open", "gone", "broken"}]
      /\ space' \in [Fd -> 0 .. Window]
      /\ alive' \in BOOLEAN
      /\ unread' = unread /\ backlog' = backlog
      /\ \A g \in Fd : socket'[g] = "free" <=> socket[g] = "free"
  BY <1>1, <1>3, SendKeeps
<1>7. /\ rest' \in Seq(Channel)
      /\ pc' \in {"execute", "subscribe", "unsubscribe"}
      /\ pc' \in {"subscribe", "unsubscribe"} => rest' # <<>>
  BY <1>1, <1>3, ContinueShape
<1>8. UNCHANGED <<clients, events, fd, todo, targets>>
  BY <1>3 DEF Continue
<1>9. NoStaleEvent' /\ LoopShape' /\ OnlyToSubscribers'
  BY <1>1, <1>6, <1>7, <1>8 DEF NoStaleEvent, LoopShape, OnlyToSubscribers
<1> HIDE DEF c
<1>10. TypeOK'
  <2>1. is_subscriber' \in [Fd -> BOOLEAN]
    BY <1>5 DEF TypeOK
  <2> QED BY <2>1, <1>1, <1>2, <1>4, <1>6, <1>7, <1>8 DEF TypeOK
<1>11. \A g \in Fd : /\ subscribed_channels'[g] = IF g = fd THEN subscribed_channels[g] \ {c}
                                                 ELSE subscribed_channels[g]
                     /\ told'[g] = IF g = fd THEN told[g] \ {c} ELSE told[g]
  BY <1>1, <1>4 DEF TypeOK
<1>12. IndexesAgree'
  <2>1. ASSUME NEW g \in Fd, NEW d \in Channel
        PROVE  g \in channels_subscribers'[d] <=> d \in subscribed_channels'[g]
    BY <1>1, <1>2, <1>4, <1>11 DEF TypeOK, Registry, IndexesAgree
  <2>2. ASSUME NEW g \in Fd
        PROVE  is_subscriber'[g] <=> subscribed_channels'[g] # {}
    <3>1. CASE g = fd
      <4>1. is_subscriber'[g] <=> is_subscriber[g] /\ subscribed_channels[g] \ {c} # {}
        BY <3>1, <1>1, <1>5 DEF TypeOK
      <4>2. subscribed_channels'[g] = subscribed_channels[g] \ {c}
        BY <3>1, <1>11
      <4>3. subscribed_channels[g] \ {c} # {} => is_subscriber[g]
        BY DEF Registry, IndexesAgree
      <4> QED BY <4>1, <4>2, <4>3
    <3>2. CASE g # fd
      <4>1. is_subscriber'[g] = is_subscriber[g]
        BY <3>2, <1>5 DEF TypeOK
      <4>2. subscribed_channels'[g] = subscribed_channels[g]
        BY <3>2, <1>11
      <4> QED BY <4>1, <4>2 DEF Registry, IndexesAgree
    <3> QED BY <3>1, <3>2
  <2>3. ASSUME NEW d \in Channel \ channels'
        PROVE  channels_subscribers'[d] = {}
    BY <1>2, <1>4 DEF TypeOK, Registry, IndexesAgree
  <2> QED BY <2>1, <2>2, <2>3 DEF IndexesAgree
<1>13. NoGhosts'
  BY <1>1, <1>8, <1>11 DEF Registry, NoGhosts
<1>14. WithinLimit'
  <2>1. ASSUME NEW g \in Fd
        PROVE  Cardinality(subscribed_channels'[g]) <= MAX_SUBSCRIPTIONS_PER_CLIENT
    <3> DEFINE S == subscribed_channels[g]
    <3>1. S \in SUBSET Channel /\ Cardinality(S) <= MAX_SUBSCRIPTIONS_PER_CLIENT
      BY DEF TypeOK, Registry, WithinLimit
    <3>2. Cardinality(S) \in Nat /\ Cardinality(S \ {c}) \in Nat
          /\ Cardinality(S \ {c}) <= Cardinality(S)
      <4>1. S \ {c} \in SUBSET Channel
        BY <3>1
      <4> QED BY <3>1, <4>1, <1>2, LimitKept
    <3>3. subscribed_channels'[g] \in {S, S \ {c}}
      BY <1>11
    <3> HIDE DEF S
    <3> QED BY <3>1, <3>2, <3>3, BoundAssumption
  <2> QED BY <2>1 DEF WithinLimit
<1> QED BY <1>9, <1>10, <1>12, <1>13, <1>14 DEF Registry

\* One iteration of pubsub_publish: every target is a client, so the branch for
\* dead descriptors is never taken.
LEMMA PublishKeeps == ASSUME IInv, NEW t \in Fd, PublishOne(t) PROVE IInv'
<1> USE DEF IInv
<1>1. t \in clients
  BY DEF PublishOne, OnlyToSubscribers, Registry, NoGhosts
<1>2. Send(t) /\ UNCHANGED channels_subscribers
  BY <1>1 DEF PublishOne
<1>3. /\ targets' = targets \ {t}
      /\ UNCHANGED <<clients, is_subscriber, subscribed_channels, channels,
                     events, pc, fd, todo, rest, told>>
  BY DEF PublishOne
<1>4. /\ socket' \in [Fd -> {"free", "open", "gone", "broken"}]
      /\ space' \in [Fd -> 0 .. Window]
      /\ alive' \in BOOLEAN
      /\ unread' = unread /\ backlog' = backlog
      /\ \A g \in Fd : socket'[g] = "free" <=> socket[g] = "free"
  BY <1>2, SendKeeps
<1>5. Registry'
  BY <1>2, <1>3, RegistryUnchanged DEF registryVars
<1>6. TypeOK'
  BY <1>2, <1>3, <1>4 DEF TypeOK
<1>7. NoStaleEvent' /\ LoopShape' /\ OnlyToSubscribers'
  BY <1>3, <1>4 DEF NoStaleEvent, LoopShape, OnlyToSubscribers
<1> QED BY <1>5, <1>6, <1>7

\* The reply of a command that has only one.
LEMMA ReplyKeeps == ASSUME IInv, Reply PROVE IInv'
<1> USE DEF IInv
<1>1. fd \in Fd
  BY DEF Reply, NoStaleEvent, TypeOK
<1>2. /\ socket' \in [Fd -> {"free", "open", "gone", "broken"}]
      /\ space' \in [Fd -> 0 .. Window]
      /\ alive' \in BOOLEAN
      /\ unread' = unread /\ backlog' = backlog
      /\ \A g \in Fd : socket'[g] = "free" <=> socket[g] = "free"
  BY <1>1, SendKeeps DEF Reply
<1>3. /\ pc = "reply" /\ pc' = "execute"
      /\ UNCHANGED <<registryVars, events, fd, todo, rest, targets, told>>
  BY DEF Reply
<1>4. Registry'
  BY <1>3, RegistryUnchanged
<1>5. TypeOK'
  BY <1>2, <1>3 DEF TypeOK, registryVars
<1>6. NoStaleEvent' /\ LoopShape' /\ OnlyToSubscribers'
  BY <1>2, <1>3 DEF NoStaleEvent, LoopShape, OnlyToSubscribers, registryVars
<1> QED BY <1>4, <1>5, <1>6

\* Every step of the server and of its peers preserves the invariant.
LEMMA NextIInv == IInv /\ [Next]_vars => IInv'
<1> SUFFICES ASSUME IInv, [Next]_vars PROVE IInv'
  OBVIOUS
<1>1. CASE Peer
  BY <1>1, PeerKeeps
<1>2. CASE Server
  BY <1>2, EpollKeeps, AcceptKeeps, AcceptFailsKeeps, RecvKeeps, DisconnectKeeps,
     CommandKeeps, SubscribeKeeps, UnsubscribeKeeps, PublishKeeps, ReplyKeeps DEF Server
<1>3. CASE UNCHANGED vars
  BY <1>3
  DEF vars, kernelVars, registryVars, handlerVars, IInv, TypeOK, Registry, IndexesAgree,
      NoGhosts, WithinLimit, NoStaleEvent, OnlyToSubscribers, LoopShape
<1> QED BY <1>1, <1>2, <1>3 DEF Next

\* The invariant holds in every reachable state.
LEMMA Invariance == Spec => []IInv
BY InitIInv, NextIInv, PTL DEF Spec

\* In every reachable state of the server every variable has its type.
THEOREM TypeCorrect == Spec => []TypeOK
<1>1. IInv => TypeOK
  BY DEF IInv
<1> QED BY <1>1, Invariance, PTL

\* For any number of clients and channels, the two indexes of pubsub.cpp agree
\* after every iteration of every handler.
THEOREM IndexesCorrect == Spec => []IndexesAgree
<1>1. IInv => IndexesAgree
  BY DEF IInv, Registry
<1> QED BY <1>1, Invariance, PTL

\* A closed connection leaves no subscription behind, whatever descriptor the
\* next connection gets.
THEOREM GhostFree == Spec => []NoGhosts
<1>1. IInv => NoGhosts
  BY DEF IInv, Registry
<1> QED BY <1>1, Invariance, PTL

\* No client ever holds more subscriptions than the limit.
THEOREM LimitHolds == Spec => []WithinLimit
<1>1. IInv => WithinLimit
  BY DEF IInv, Registry
<1> QED BY <1>1, Invariance, PTL

\* No event of an epoll batch is for a descriptor closed earlier in it.
THEOREM EventsFresh == Spec => []NoStaleEvent
<1>1. IInv => NoStaleEvent
  BY DEF IInv
<1> QED BY <1>1, Invariance, PTL

\* Messages reach only clients that know they are subscribed.
THEOREM DeliveryCorrect == Spec => []OnlyToSubscribers
<1>1. IInv => OnlyToSubscribers
  BY DEF IInv
<1> QED BY <1>1, Invariance, PTL
=============================================================================
