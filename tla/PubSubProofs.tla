---------------------------- MODULE PubSubProofs ----------------------------
(***************************************************************************)
(* Theorems about PubSub, for any number of connections and channels, any  *)
(* capacity of the mailboxes and any number of commands.                   *)
(***************************************************************************)
EXTENDS PubSub, FiniteSetTheorems, TLAPS

-----------------------------------------------------------------------------
(* The inductive invariant.                                                *)

\* The types that the proofs need.
Typed ==
  /\ subs \in [Channels -> [Conns -> Nat]] /\ fanout \in [Conns -> [Conns -> Nat]]
  /\ loop \in [Conns -> {"read", "subscribe", "confirm", "unsubscribe", "unconfirm",
                         "publish", "reply", "teardown", "closing", "gone"}]
  /\ todo \in [Conns -> Seq(Channels)] /\ channels \in [Conns -> SUBSET Channels]
  /\ sub \in [Conns -> {"nil", "open", "closed"}] /\ told \in [Conns -> SUBSET Channels]

\* The broker's list of a channel has a connection once, if that has the channel.
ListsOK ==
  \A ch \in Channels, c \in Conns : subs[ch][c] = IF ch \in channels[c] THEN 1 ELSE 0

\* One connection: its mailbox is open while it has a channel or is about to get
\* one, and closed at the very end; what it was told it has, unless it is leaving,
\* and what it is leaving it was told.
ConnOK(c) ==
  /\ IsFiniteSet(channels[c])
  /\ channels[c] # {} => sub[c] = "open"
  /\ loop[c] \in {"subscribe", "confirm"} => sub[c] = "open" /\ todo[c] # <<>>
  /\ sub[c] = "closed" => loop[c] \in {"closing", "gone"}
  /\ loop[c] # "teardown" => told[c] \subseteq channels[c]
  /\ loop[c] = "confirm" => Head(todo[c]) \in channels[c]
  /\ loop[c] \in {"unsubscribe", "unconfirm"} => todo[c] # <<>> /\ told[c] \cap Range(todo[c]) = {}

\* A fan-out under way has only connections that have a channel.
FanOK ==
  \A c, d \in Conns : fanout[c][d] > 0 => loop[c] = "publish" /\ channels[d] # {}

Inv == Typed /\ ListsOK /\ FanOK /\ \A c \in Conns : ConnOK(c)

-----------------------------------------------------------------------------
(* Every action keeps it.                                                  *)

\* Some facts about sequences.
LEMMA SeqFacts ==
  ASSUME NEW S, NEW q \in Seq(S), q # <<>>
  PROVE  /\ Head(q) \in S /\ Head(q) \in Range(q) /\ Tail(q) \in Seq(S)
         /\ Range(Tail(q)) \subseteq Range(q) /\ (Len(q) # 1 => Tail(q) # <<>>)
<1>1. Len(q) \in Nat /\ Len(q) > 0 /\ DOMAIN q = 1 .. Len(q) /\ Head(q) = q[1]
  OBVIOUS
<1>2. Head(q) \in S /\ Head(q) \in Range(q)
  BY <1>1 DEF Range
<1> DEFINE t == Tail(q)
<1>3. t \in Seq(S) /\ Len(t) = Len(q) - 1 /\ \A i \in 1 .. Len(t) : t[i] = q[i + 1]
  BY <1>1
<1>4. DOMAIN t = 1 .. Len(t)
  BY <1>3
<1> HIDE DEF t
<1>5. ASSUME NEW x \in Range(t) PROVE x \in Range(q)
  <2>1. PICK i \in 1 .. Len(t) : x = t[i]
    BY Zenon, <1>4 DEF Range
  <2>2. i + 1 \in DOMAIN q /\ x = q[i + 1]
    BY <1>1, <1>3, <2>1
  <2> QED
    BY Zenon, <2>2 DEF Range
<1>6. Len(q) # 1 => t # <<>>
  BY <1>1, <1>3
<1> QED
  BY Zenon, <1>2, <1>3, <1>5, <1>6 DEF t

\* UNSUBSCRIBE visits channels.
LEMMA TargetsAreChannels ==
  ASSUME NEW c \in Conns, IsFiniteSet(channels[c]), channels[c] \subseteq Channels,
         NEW chs \in Lists, NEW targets \in Targets(c, chs)
  PROVE  targets \in Seq(Channels)
<1>1. chs \in Seq(Channels)
  BY PubSubAssumption DEF Lists
<1>2. ASSUME targets \in Injection(1 .. Cardinality(channels[c]), channels[c]) PROVE targets \in Seq(Channels)
  <2>1. Cardinality(channels[c]) \in Nat
    BY Zenon, FS_CardinalityType
  <2>2. targets \in [1 .. Cardinality(channels[c]) -> channels[c]]
    BY Zenon, <1>2 DEF Injection
  <2>3. targets \in [1 .. Cardinality(channels[c]) -> Channels]
    BY Zenon, <2>2
  <2> QED
    BY <2>1, <2>3
<1> QED
  BY Zenon, <1>1, <1>2 DEF Targets

\* A connection that a step leaves alone.
LEMMA OtherConn ==
  ASSUME NEW d, ConnOK(d), loop'[d] = loop[d], todo'[d] = todo[d], channels'[d] = channels[d],
         sub'[d] = sub[d], told'[d] = told[d]
  PROVE  ConnOK(d)'
  BY Zenon DEF ConnOK

\* A step of a connection that is not publishing keeps the fan-outs, if it takes no
\* connection its last channel or if it has the lock.
LEMMA FanStep ==
  ASSUME Typed, FanOK, fanout' = fanout, NEW c \in Conns, loop[c] # "publish", NEW x,
         loop' = [loop EXCEPT ![c] = x],
         Lockable \/ \A d \in Conns : channels[d] # {} => channels'[d] # {}
  PROVE  FanOK'
<1>1. \A d \in Conns : d # c => loop'[d] = loop[d]
  BY Zenon DEF Typed
<1>2. ASSUME NEW b \in Conns, NEW d \in Conns, fanout[b][d] > 0
      PROVE  b # c /\ loop[b] = "publish" /\ channels[d] # {} /\ channels'[d] # {}
  BY Zenon, <1>2 DEF FanOK, Lockable
<1> QED
  BY Zenon, <1>1, <1>2 DEF FanOK

\* SUBSCRIBE is read.
LEMMA subscribeStep ==
  ASSUME NEW c \in Conns, NEW chs \in Lists, subscribe(c, chs), Inv PROVE Inv'
<1>0. Typed /\ ListsOK /\ FanOK /\ \A d \in Conns : ConnOK(d)
  BY Zenon DEF Inv
<1>1. chs \in Seq(Channels)
  BY PubSubAssumption DEF Lists
<1>2. Typed'
  BY Zenon, <1>0, <1>1 DEF subscribe, Typed, broker, peer
<1>3. ListsOK'
  BY Zenon, <1>0 DEF subscribe, ListsOK, broker
<1>4. FanOK'
  BY <1>0, FanStep, Zenon DEF subscribe, broker
<1>5. ConnOK(c)'
  BY <1>0, <1>1, Zenon DEF subscribe, ConnOK, Typed, peer
<1>6. ASSUME NEW d \in Conns, d # c PROVE ConnOK(d)'
  BY Zenon, <1>0, <1>6, OtherConn DEF subscribe, Typed, peer
<1> QED
  BY Zenon, <1>2, <1>3, <1>4, <1>5, <1>6 DEF Inv

\* A connection joins a channel.
LEMMA JoinLists ==
  ASSUME Typed, ListsOK, NEW c \in Conns, NEW ch \in Channels \ channels[c], Subscribe(ch, c),
         channels' = [channels EXCEPT ![c] = @ \cup {ch}]
  PROVE  ListsOK' /\ subs' \in [Channels -> [Conns -> Nat]]
  BY DEF Typed, ListsOK, Subscribe

\* A channel is registered.
LEMMA RegisterStep ==
  ASSUME NEW c \in Conns, Register(c), Inv PROVE Inv'
<1>0. Typed /\ ListsOK /\ FanOK /\ \A d \in Conns : ConnOK(d)
  BY Zenon DEF Inv
<1> DEFINE ch == Head(todo[c])
<1>1. ch \in Channels
  BY Zenon, <1>0, SeqFacts DEF Register, ConnOK, Typed
<1>a. /\ loop[c] = "subscribe" /\ channels' = [channels EXCEPT ![c] = @ \cup {ch}]
      /\ loop' = [loop EXCEPT ![c] = "confirm"] /\ UNCHANGED <<fanout, todo, sub, told>>
      /\ IF ch \in channels[c] THEN UNCHANGED subs ELSE Subscribe(ch, c)
  BY Zenon DEF Register, peer
<1> HIDE DEF ch
<1>2. ListsOK' /\ subs' \in [Channels -> [Conns -> Nat]]
  <2>1. CASE ch \notin channels[c]
    BY <1>0, <1>1, <1>a, <2>1, JoinLists, Zenon
  <2>2. CASE ch \in channels[c]
    <3>1. channels' = channels
      BY Zenon, <1>0, <1>a, <2>2 DEF Typed
    <3> QED
      BY Zenon, <1>0, <1>a, <2>2, <3>1 DEF ListsOK, Typed
  <2> QED
    BY Zenon, <2>1, <2>2
<1>3. Typed'
  <2>1. channels' \in [Conns -> SUBSET Channels]
    BY Zenon, <1>0, <1>1, <1>a DEF Typed
  <2> QED
    BY Zenon, <1>0, <1>2, <1>a, <2>1 DEF Typed
<1>4. FanOK'
  <2>1. \A d \in Conns : channels[d] # {} => channels'[d] # {}
    BY Zenon, <1>0, <1>a DEF Typed
  <2> QED
    BY <1>0, <1>a, <2>1, FanStep, Zenon
<1>5. ConnOK(c)'
  <2>1. IsFiniteSet(channels[c] \cup {ch})
    BY <1>0, FS_AddElement, Zenon DEF ConnOK
  <2> QED
    BY <1>0, <1>a, <2>1, Zenon DEF ch, ConnOK, Typed
<1>6. ASSUME NEW d \in Conns, d # c PROVE ConnOK(d)'
  BY Zenon, <1>0, <1>6, <1>a, OtherConn DEF Typed
<1> QED
  BY Zenon, <1>2, <1>3, <1>4, <1>5, <1>6 DEF Inv

\* A registration is confirmed.
LEMMA ConfirmSubscribeStep ==
  ASSUME NEW c \in Conns, ConfirmSubscribe(c), Inv PROVE Inv'
<1>0. Typed /\ ListsOK /\ FanOK /\ \A d \in Conns : ConnOK(d)
  BY Zenon DEF Inv
<1>1. /\ Head(todo[c]) \in Channels /\ Tail(todo[c]) \in Seq(Channels)
      /\ (Len(todo[c]) # 1 => Tail(todo[c]) # <<>>)
  BY <1>0, SeqFacts, Zenon DEF ConfirmSubscribe, ConnOK, Typed
<1>2. PICK x \in {"read", "subscribe", "teardown"} :
        loop' = [loop EXCEPT ![c] = x] /\ (x = "subscribe" => Len(todo[c]) # 1)
  BY Zenon DEF ConfirmSubscribe, Reply
<1>3. Typed'
  BY Zenon, <1>0, <1>1, <1>2 DEF ConfirmSubscribe, Typed, broker
<1>4. ListsOK'
  BY Zenon, <1>0 DEF ConfirmSubscribe, ListsOK, broker
<1>5. FanOK'
  BY <1>0, <1>2, FanStep, Zenon DEF ConfirmSubscribe, broker
<1>6. ConnOK(c)'
  BY <1>0, <1>1, <1>2, Zenon DEF ConfirmSubscribe, ConnOK, Typed
<1>7. ASSUME NEW d \in Conns, d # c PROVE ConnOK(d)'
  BY Zenon, <1>0, <1>2, <1>7, OtherConn DEF ConfirmSubscribe, Typed
<1> QED
  BY Zenon, <1>3, <1>4, <1>5, <1>6, <1>7 DEF Inv

\* UNSUBSCRIBE is read.
LEMMA unsubscribeStep ==
  ASSUME NEW c \in Conns, NEW chs \in Lists, unsubscribe(c, chs), Inv PROVE Inv'
<1>0. Typed /\ ListsOK /\ FanOK /\ \A d \in Conns : ConnOK(d)
  BY Zenon DEF Inv
<1>1. PICK targets \in Targets(c, chs) :
        /\ todo' = [todo EXCEPT ![c] = targets]
        /\ told' = [told EXCEPT ![c] = @ \ Range(targets)]
        /\ loop' = [loop EXCEPT ![c] = IF targets = <<>> THEN "reply" ELSE "unsubscribe"]
  BY Zenon DEF unsubscribe
<1>2. targets \in Seq(Channels)
  BY <1>0, TargetsAreChannels, Zenon DEF ConnOK, Typed
<1>a. loop[c] = "read" /\ UNCHANGED <<subs, fanout, channels, sub>>
  BY Zenon DEF unsubscribe, broker
<1>3. Typed'
  BY Zenon, <1>0, <1>1, <1>2, <1>a DEF Typed
<1>4. ListsOK'
  BY Zenon, <1>0, <1>a DEF ListsOK
<1>5. FanOK'
  BY <1>0, <1>1, <1>a, FanStep, Zenon
<1>6. ConnOK(c)'
  BY <1>0, <1>1, <1>2, <1>a, Zenon DEF ConnOK, Typed
<1>7. ASSUME NEW d \in Conns, d # c PROVE ConnOK(d)'
  BY Zenon, <1>0, <1>1, <1>a, <1>7, OtherConn DEF Typed
<1> QED
  BY Zenon, <1>3, <1>4, <1>5, <1>6, <1>7 DEF Inv

\* A connection leaves a channel.
LEMMA LeaveLists ==
  ASSUME Typed, ListsOK, NEW c \in Conns, NEW ch \in channels[c], Unsubscribe(ch, c),
         channels' = [channels EXCEPT ![c] = @ \ {ch}]
  PROVE  ListsOK' /\ subs' \in [Channels -> [Conns -> Nat]] /\ channels' \in [Conns -> SUBSET Channels]
  BY DEF Typed, ListsOK, Unsubscribe

\* The connection leaves the channel.
LEMMA UnregisterStep ==
  ASSUME NEW c \in Conns, Unregister(c), Inv PROVE Inv'
<1>0. Typed /\ ListsOK /\ FanOK /\ \A d \in Conns : ConnOK(d)
  BY Zenon DEF Inv
<1> DEFINE ch == Head(todo[c])
<1>1. ch \in Range(todo[c])
  BY Zenon, <1>0, SeqFacts DEF Unregister, ConnOK, Typed
<1>a. /\ loop[c] = "unsubscribe" /\ channels' = [channels EXCEPT ![c] = @ \ {ch}]
      /\ loop' = [loop EXCEPT ![c] = "unconfirm"] /\ UNCHANGED <<fanout, todo, sub, told>>
      /\ IF ch \in channels[c] THEN Unsubscribe(ch, c) ELSE UNCHANGED subs
  BY Zenon DEF Unregister, peer
<1> HIDE DEF ch
<1>b. ch \notin channels[c] => channels' = channels
  BY <1>0, <1>a DEF Typed
<1>2. ListsOK' /\ subs' \in [Channels -> [Conns -> Nat]] /\ channels' \in [Conns -> SUBSET Channels]
  <2>1. CASE ch \in channels[c]
    BY <1>0, <1>a, <2>1, LeaveLists, Zenon
  <2>2. CASE ch \notin channels[c]
    BY Zenon, <1>0, <1>a, <1>b, <2>2 DEF ListsOK, Typed
  <2> QED
    BY Zenon, <2>1, <2>2
<1>3. Typed'
  BY <1>0, <1>2, <1>a, Zenon DEF Typed
<1>4. FanOK'
  BY <1>0, <1>a, <1>b, FanStep, Zenon DEF Unsubscribe
<1>5. ConnOK(c)'
  <2>1. IsFiniteSet(channels[c] \ {ch})
    BY <1>0, FS_RemoveElement, Zenon DEF ConnOK
  <2> QED
    BY <1>0, <1>1, <1>a, <2>1, Zenon DEF ConnOK, Typed
<1>6. ASSUME NEW d \in Conns, d # c PROVE ConnOK(d)'
  BY Zenon, <1>0, <1>6, <1>a, OtherConn DEF Typed
<1> QED
  BY Zenon, <1>2, <1>3, <1>4, <1>5, <1>6 DEF Inv

\* The departure is confirmed.
LEMMA ConfirmUnsubscribeStep ==
  ASSUME NEW c \in Conns, ConfirmUnsubscribe(c), Inv PROVE Inv'
<1>0. Typed /\ ListsOK /\ FanOK /\ \A d \in Conns : ConnOK(d)
  BY Zenon DEF Inv
<1>1. /\ Tail(todo[c]) \in Seq(Channels) /\ Range(Tail(todo[c])) \subseteq Range(todo[c])
      /\ (Len(todo[c]) # 1 => Tail(todo[c]) # <<>>)
  BY <1>0, SeqFacts, Zenon DEF ConfirmUnsubscribe, ConnOK, Typed
<1>2. PICK x \in {"read", "unsubscribe", "teardown"} :
        loop' = [loop EXCEPT ![c] = x] /\ (x = "unsubscribe" => Len(todo[c]) # 1)
  BY Zenon DEF ConfirmUnsubscribe, Reply
<1>a. /\ loop[c] = "unconfirm" /\ todo' = [todo EXCEPT ![c] = Tail(@)]
      /\ UNCHANGED <<subs, fanout, channels, sub, told>>
  BY Zenon DEF ConfirmUnsubscribe, broker, peer
<1>3. Typed'
  BY Zenon, <1>0, <1>1, <1>2, <1>a DEF Typed
<1>4. ListsOK'
  BY Zenon, <1>0, <1>a DEF ListsOK
<1>5. FanOK'
  BY <1>0, <1>2, <1>a, FanStep, Zenon
<1>6. ConnOK(c)'
  BY <1>0, <1>1, <1>2, <1>a, Zenon DEF ConnOK, Typed
<1>7. ASSUME NEW d \in Conns, d # c PROVE ConnOK(d)'
  BY Zenon, <1>0, <1>2, <1>a, <1>7, OtherConn DEF Typed
<1> QED
  BY Zenon, <1>3, <1>4, <1>5, <1>6, <1>7 DEF Inv

\* PUBLISH takes the list as it is under the lock.
LEMMA PublishStep ==
  ASSUME NEW c \in Conns, NEW ch \in Channels, Publish(c, ch), Inv PROVE Inv'
<1>0. Typed /\ ListsOK /\ FanOK /\ \A d \in Conns : ConnOK(d)
  BY Zenon DEF Inv
<1>1. PICK x \in {"reply", "publish"} :
        /\ loop' = [loop EXCEPT ![c] = x]
        /\ \/ fanout' = fanout
           \/ x = "publish" /\ fanout' = [fanout EXCEPT ![c] = subs[ch]]
  BY Zenon DEF Publish
<1>a. loop[c] = "read" /\ UNCHANGED <<subs, todo, channels, sub, told>>
  BY Zenon DEF Publish, peer
<1>2. Typed'
  BY <1>0, <1>1, <1>a, Zenon DEF Typed
<1>3. ListsOK'
  BY Zenon, <1>0, <1>a DEF ListsOK
<1>4. FanOK'
  <2>1. CASE fanout' = fanout
    BY <1>0, <1>1, <1>a, <2>1, FanStep, Zenon
  <2>2. CASE x = "publish" /\ fanout' = [fanout EXCEPT ![c] = subs[ch]]
    <3>1. \A d \in Conns : subs[ch][d] > 0 => channels[d] # {}
      BY <1>0 DEF ListsOK
    <3> QED
      BY Zenon, <1>0, <1>1, <1>a, <2>2, <3>1 DEF FanOK, Typed
  <2> QED
    BY Zenon, <1>1, <2>1, <2>2
<1>5. ConnOK(c)'
  BY <1>0, <1>1, <1>a, Zenon DEF ConnOK, Typed
<1>6. ASSUME NEW d \in Conns, d # c PROVE ConnOK(d)'
  BY Zenon, <1>0, <1>1, <1>a, <1>6, OtherConn DEF Typed
<1> QED
  BY Zenon, <1>2, <1>3, <1>4, <1>5, <1>6 DEF Inv

\* One subscriber is visited.
LEMMA SendStep ==
  ASSUME NEW c \in Conns, NEW e \in Conns, Send(c, e), Inv PROVE Inv'
<1>0. Typed /\ ListsOK /\ FanOK /\ \A d \in Conns : ConnOK(d)
  BY Zenon DEF Inv
<1> DEFINE rest == [fanout[c] EXCEPT ![e] = @ - 1]
<1>1. /\ loop[c] = "publish" /\ fanout[c][e] > 0 /\ fanout' = [fanout EXCEPT ![c] = rest]
      /\ loop' = [loop EXCEPT ![c] = IF rest = Nobody THEN "reply" ELSE @]
      /\ UNCHANGED <<subs, todo, channels, sub, told>>
  BY Zenon DEF Send, Visited, peer
<1>2. rest \in [Conns -> Nat] /\ \A d \in Conns : rest[d] > 0 => fanout[c][d] > 0
  BY <1>0, <1>1 DEF Typed
<1>3. \A d \in Conns : rest[d] > 0 => rest # Nobody
  BY DEF Nobody
<1> HIDE DEF rest
<1>4. Typed'
  BY <1>0, <1>1, <1>2, Zenon DEF Typed
<1>5. ListsOK'
  BY Zenon, <1>0, <1>1 DEF ListsOK
<1>6. FanOK'
  BY <1>0, <1>1, <1>2, <1>3, Zenon DEF FanOK, Typed
<1>7. ConnOK(c)'
  BY <1>0, <1>1, Zenon DEF ConnOK, Typed
<1>8. ASSUME NEW d \in Conns, d # c PROVE ConnOK(d)'
  BY Zenon, <1>0, <1>1, <1>8, OtherConn DEF Typed
<1> QED
  BY Zenon, <1>4, <1>5, <1>6, <1>7, <1>8 DEF Inv

\* A reply, the end of the input, QUIT and conn.Close only move the loop.
LEMMA MoveStep ==
  ASSUME NEW c \in Conns, Answer(c) \/ Disconnected(c) \/ Quit(c) \/ CloseConn(c), Inv PROVE Inv'
<1>0. Typed /\ ListsOK /\ FanOK /\ \A d \in Conns : ConnOK(d)
  BY Zenon DEF Inv
<1>1. PICK x \in {"read", "teardown", "gone"} :
        /\ loop' = [loop EXCEPT ![c] = x]
        /\ \/ loop[c] \in {"read", "reply"} /\ x # "gone"
           \/ loop[c] = "closing" /\ x = "gone"
  BY Zenon DEF Answer, Reply, Disconnected, Quit, CloseConn
<1>a. UNCHANGED <<subs, fanout, todo, channels, sub, told>>
  BY Zenon DEF Answer, Disconnected, Quit, CloseConn, broker, peer
<1>2. Typed'
  BY Zenon, <1>0, <1>1, <1>a DEF Typed
<1>3. ListsOK'
  BY Zenon, <1>0, <1>a DEF ListsOK
<1>4. FanOK'
  BY <1>0, <1>1, <1>a, FanStep, Zenon
<1>5. ConnOK(c)'
  BY <1>0, <1>1, <1>a, Zenon DEF ConnOK, Typed
<1>6. ASSUME NEW d \in Conns, d # c PROVE ConnOK(d)'
  BY Zenon, <1>0, <1>1, <1>a, <1>6, OtherConn DEF Typed
<1> QED
  BY Zenon, <1>2, <1>3, <1>4, <1>5, <1>6 DEF Inv

\* The teardown leaves a channel or, with none left, closes the mailbox.
LEMMA unsubscribeAllStep ==
  ASSUME NEW c \in Conns, unsubscribeAll(c), Inv PROVE Inv'
<1>0. Typed /\ ListsOK /\ FanOK /\ \A d \in Conns : ConnOK(d)
  BY Zenon DEF Inv
<1>a. loop[c] = "teardown" /\ fanout' = fanout
  BY Zenon DEF unsubscribeAll
<1>1. CASE channels[c] = {}
  <2>1. /\ sub' = [sub EXCEPT ![c] = IF @ = "nil" THEN @ ELSE "closed"]
        /\ loop' = [loop EXCEPT ![c] = "closing"] /\ todo' = [todo EXCEPT ![c] = <<>>]
        /\ told' = [told EXCEPT ![c] = {}] /\ UNCHANGED <<subs, channels>>
    BY Zenon, <1>1 DEF unsubscribeAll
  <2>2. Typed'
    BY <1>0, <1>a, <2>1 DEF Typed
  <2>3. ListsOK'
    BY Zenon, <1>0, <2>1 DEF ListsOK
  <2>4. FanOK'
    BY <1>0, <1>a, <2>1, FanStep, Zenon
  <2>5. ConnOK(c)'
    BY Zenon, <1>0, <1>1, <2>1 DEF ConnOK, Typed
  <2>6. ASSUME NEW d \in Conns, d # c PROVE ConnOK(d)'
    BY Zenon, <1>0, <2>1, <2>6, OtherConn DEF Typed
  <2> QED
    BY Zenon, <2>2, <2>3, <2>4, <2>5, <2>6 DEF Inv
<1>2. CASE channels[c] # {}
  <2>1. PICK ch \in channels[c] :
          /\ Unsubscribe(ch, c) /\ channels' = [channels EXCEPT ![c] = @ \ {ch}]
          /\ UNCHANGED <<sub, loop, todo, told>>
    BY Zenon, <1>2 DEF unsubscribeAll
  <2>2. ListsOK' /\ subs' \in [Channels -> [Conns -> Nat]] /\ channels' \in [Conns -> SUBSET Channels]
    BY <1>0, <2>1, LeaveLists, Zenon
  <2>3. Typed'
    BY Zenon, <1>0, <1>a, <2>1, <2>2 DEF Typed
  <2>4. FanOK'
    BY Zenon, <1>0, <1>a, <2>1 DEF FanOK, Unsubscribe, Lockable
  <2>5. ConnOK(c)'
    <3>1. IsFiniteSet(channels[c] \ {ch})
      BY Zenon, <1>0, FS_RemoveElement DEF ConnOK
    <3> QED
      BY Zenon, <1>0, <1>2, <1>a, <2>1, <3>1 DEF ConnOK, Typed
  <2>6. ASSUME NEW d \in Conns, d # c PROVE ConnOK(d)'
    BY Zenon, <1>0, <2>1, <2>6, OtherConn DEF Typed
  <2> QED
    BY Zenon, <2>2, <2>3, <2>4, <2>5, <2>6 DEF Inv
<1> QED
  BY Zenon, <1>1, <1>2

\* Every step keeps the invariant.
LEMMA StepInv == Inv /\ [Next]_vars => Inv'
<1> SUFFICES ASSUME Inv, [Next]_vars PROVE Inv'
  BY Zenon
<1>1. ASSUME NEW c \in Conns, Requesting(c) PROVE Inv'
  BY Zenon, <1>1, subscribeStep, unsubscribeStep, PublishStep DEF Requesting
<1>2. ASSUME NEW c \in Conns, Working(c) PROVE Inv'
  BY Zenon, <1>2, RegisterStep, ConfirmSubscribeStep, UnregisterStep, ConfirmUnsubscribeStep, SendStep,
     MoveStep, unsubscribeAllStep DEF Working
<1>3. ASSUME UNCHANGED <<subs, fanout, loop, todo, channels, sub, told>> PROVE Inv'
  BY Zenon, <1>3 DEF Inv, Typed, ListsOK, FanOK, ConnOK
<1>4. ASSUME NEW c \in Conns, Delivering(c) PROVE Inv'
  BY Zenon, <1>3, <1>4 DEF Delivering, Receive, Push, broker, request, peer
<1>5. ASSUME NEW c \in Leavers, Leaving(c) PROVE Inv'
  <2>1. c \in Conns
    BY Zenon, PubSubAssumption DEF Conns
  <2>2. CASE Quit(c)
    BY Zenon, <2>1, <2>2, MoveStep
  <2>3. CASE Stall(c) \/ HangUp(c)
    BY Zenon, <1>3, <2>3 DEF Stall, HangUp, broker, request, delivery
  <2> QED
    BY Zenon, <1>5, <2>2, <2>3 DEF Leaving
<1>6. CASE UNCHANGED vars
  BY Zenon, <1>3, <1>6 DEF vars, broker, request, peer
<1> QED
  BY Zenon, <1>1, <1>2, <1>4, <1>5, <1>6 DEF Next

\* The invariant holds at the start.
LEMMA InitInv == Init => Inv
<1> SUFFICES ASSUME Init PROVE Inv
  BY Zenon
<1>1. Typed
  BY DEF Init, Typed, Nobody
<1>2. ListsOK /\ FanOK
  BY DEF Init, Nobody, ListsOK, FanOK
<1>3. \A c \in Conns : ConnOK(c)
  BY Zenon, FS_EmptySet DEF Init, ConnOK
<1> QED
  BY Zenon, <1>1, <1>2, <1>3 DEF Inv

\* The invariant holds throughout.
LEMMA InvHolds == Spec => []Inv
  BY InitInv, StepInv, PTL DEF Spec

-----------------------------------------------------------------------------
(* The theorems.                                                           *)

\* Publish never sends on a closed mailbox: who is on the list of a fan-out has a
\* channel, and who has a channel has an open mailbox.
THEOREM SendsAreSafe == Spec => []NeverSendsOnClosed
<1>1. Inv => NeverSendsOnClosed
  BY Zenon DEF Inv, FanOK, ConnOK, NeverSendsOnClosed
<1> QED
  BY <1>1, InvHolds, PTL

\* A channel that was confirmed, and not left since, is in the broker's list.
THEOREM ConfirmedIsRegistered == Spec => []AckedIsLive
<1>1. Inv => AckedIsLive
  BY DEF Inv, Typed, ListsOK, ConnOK, AckedIsLive
<1> QED
  BY <1>1, InvHolds, PTL

-----------------------------------------------------------------------------
(* The order of the messages.                                              *)

\* A message that is being published, or waits, or was written.
Msg == [from : Conns, n : Nat \ {0}]

\* Messages of one publisher are in order.
Sorted(q) == \A i, j \in 1 .. Len(q) : i < j /\ q[i].from = q[j].from => q[i].n < q[j].n

MsgTyped ==
  /\ published \in Nat /\ msg \in [Conns -> Msg \cup {<<>>}]
  /\ mailbox \in [Conns -> Seq(Msg)] /\ last \in [Conns -> [Conns -> Nat]]
  /\ held \in [Conns -> {<<>>} \cup {<<m>> : m \in Msg}]

\* Who publishes has a message of its own.
PubOK ==
  \A c \in Conns : loop[c] = "publish" => msg[c] \in Msg /\ msg[c].from = c /\ msg[c].n <= published

\* What waits for a connection, in its mailbox q and in the hands hs of its delivery
\* goroutine, is in order and newer than what was written to it.
Boxed(q, hs, written, top) ==
  /\ Sorted(q) /\ \A p \in Conns : written[p] <= top
  /\ \A m \in Range(q) : m.n <= top /\ written[m.from] < m.n
  /\ \A h \in hs : /\ h.n <= top /\ written[h.from] < h.n
                   /\ \A m \in Range(q) : m.from = h.from => h.n < m.n

BoxOK(d) == Boxed(mailbox[d], Range(held[d]), last[d], published)

\* A message still to be sent is newer than all others of its publisher, and is
\* sent once.
NewOK(c, d) ==
  /\ fanout[c][d] <= 1
  /\ fanout[c][d] > 0 =>
       /\ last[d][c] < msg[c].n
       /\ \A m \in Range(held[d]) \cup Range(mailbox[d]) : m.from = c => m.n < msg[c].n

Ord == MsgTyped /\ PubOK /\ (\A d \in Conns : BoxOK(d)) /\ \A c, d \in Conns : NewOK(c, d)

\* What a connection holds.
LEMMA Waiting ==
  ASSUME MsgTyped, NEW d \in Conns
  PROVE  /\ last[d] \in [Conns -> Nat] /\ Range(mailbox[d]) \subseteq Msg /\ Range(held[d]) \subseteq Msg
         /\ Range(<<>>) = {} /\ \A m \in Msg : Range(<<m>>) = {m}
         /\ held[d] = <<>> \/ \E m \in Msg : held[d] = <<m>>
<1>1. last[d] \in [Conns -> Nat] /\ mailbox[d] \in Seq(Msg)
  BY Zenon DEF MsgTyped
<1>2. held[d] = <<>> \/ \E m \in Msg : held[d] = <<m>>
  BY Zenon DEF MsgTyped
<1>3. Range(mailbox[d]) \subseteq Msg
  BY <1>1 DEF Range
<1>4. Range(<<>>) = {} /\ \A m \in Msg : Range(<<m>>) = {m}
  BY DEF Range
<1> QED
  BY <1>1, <1>2, <1>3, <1>4, Zenon

\* Append, Tail and Head of messages in order.
LEMMA AppendSorted ==
  ASSUME NEW q \in Seq(Msg), NEW x \in Msg, Sorted(q),
         \A m \in Range(q) : m.from = x.from => m.n < x.n
  PROVE  Append(q, x) \in Seq(Msg) /\ Sorted(Append(q, x)) /\ Range(Append(q, x)) = Range(q) \cup {x}
<1> DEFINE a == Append(q, x)
<1>1. /\ a \in Seq(Msg) /\ Len(a) = Len(q) + 1 /\ Len(q) \in Nat
      /\ a[Len(q) + 1] = x /\ \A i \in 1 .. Len(q) : a[i] = q[i]
  OBVIOUS
<1>2. DOMAIN q = 1 .. Len(q) /\ DOMAIN a = 1 .. Len(a)
  BY <1>1
<1> HIDE DEF a
<1>3. Range(a) = Range(q) \cup {x}
  <2>1. Range(a) \subseteq Range(q) \cup {x}
    BY <1>1, <1>2 DEF Range
  <2>2. ASSUME NEW i \in 1 .. Len(q) PROVE q[i] \in Range(a)
    BY <1>1, <1>2, <2>2 DEF Range
  <2>3. x \in Range(a)
    <3>1. Len(q) + 1 \in DOMAIN a
      BY <1>1, <1>2
    <3> QED
      BY Zenon, <1>1, <3>1 DEF Range
  <2> QED
    BY Zenon, <1>2, <2>1, <2>2, <2>3 DEF Range
<1>4. Sorted(a)
  <2> SUFFICES ASSUME NEW i \in 1 .. Len(a), NEW j \in 1 .. Len(a), i < j, a[i].from = a[j].from
               PROVE  a[i].n < a[j].n
    BY Zenon DEF Sorted
  <2>1. i \in 1 .. Len(q) /\ a[i] = q[i] /\ q[i] \in Range(q)
    BY <1>1, <1>2 DEF Range
  <2>2. CASE j = Len(q) + 1
    BY Zenon, <1>1, <2>1, <2>2
  <2>3. CASE j # Len(q) + 1
    <3>1. j \in 1 .. Len(q) /\ a[j] = q[j]
      BY <1>1, <2>3
    <3> QED
      BY Zenon, <2>1, <3>1 DEF Sorted
  <2> QED
    BY Zenon, <2>2, <2>3
<1> QED
  BY Zenon, <1>1, <1>3, <1>4 DEF a

\* What is left of a sorted queue when its head is taken is sorted.
LEMMA TailSorted ==
  ASSUME NEW q \in Seq(Msg), q # <<>>, Sorted(q)
  PROVE  /\ Sorted(Tail(q)) /\ \A m \in Range(Tail(q)) : m.from = Head(q).from => Head(q).n < m.n
<1> DEFINE t == Tail(q)
<1>1. /\ Len(q) \in Nat /\ Len(q) > 0 /\ Head(q) = q[1] /\ Len(t) = Len(q) - 1
      /\ \A i \in 1 .. Len(t) : t[i] = q[i + 1]
  OBVIOUS
<1>2. t \in Seq(Msg) /\ DOMAIN t = 1 .. Len(t)
  BY <1>1
<1> HIDE DEF t
<1>3. Sorted(t)
  <2> SUFFICES ASSUME NEW i \in 1 .. Len(t), NEW j \in 1 .. Len(t), i < j, t[i].from = t[j].from
               PROVE  t[i].n < t[j].n
    BY Zenon DEF Sorted
  <2>1. i + 1 \in 1 .. Len(q) /\ j + 1 \in 1 .. Len(q) /\ i + 1 < j + 1 /\ t[i] = q[i + 1] /\ t[j] = q[j + 1]
    BY <1>1
  <2> QED
    BY <2>1, Zenon DEF Sorted
<1>4. ASSUME NEW i \in 1 .. Len(t), t[i].from = q[1].from PROVE q[1].n < t[i].n
  <2>1. 1 \in 1 .. Len(q) /\ i + 1 \in 1 .. Len(q) /\ 1 < i + 1 /\ t[i] = q[i + 1]
    BY <1>1
  <2> QED
    BY <1>4, <2>1, Zenon DEF Sorted
<1> QED
  BY Zenon, <1>1, <1>2, <1>3, <1>4 DEF t, Range

\* A step that touches no message.
LEMMA SameOrder ==
  ASSUME Ord, UNCHANGED <<published, msg, fanout, mailbox, held, last>>,
         \A b \in Conns : loop'[b] = "publish" => loop[b] = "publish"
  PROVE  Ord'
  BY Zenon DEF Ord, MsgTyped, PubOK, BoxOK, Boxed, NewOK

\* PUBLISH takes a number above all others.
LEMMA PublishOrder ==
  ASSUME NEW c \in Conns, NEW ch \in Channels, Publish(c, ch), Inv, Ord PROVE Ord'
<1>0. /\ Typed /\ ListsOK /\ MsgTyped /\ PubOK /\ (\A d \in Conns : BoxOK(d))
      /\ \A b, d \in Conns : NewOK(b, d)
  BY Zenon DEF Inv, Ord
<1> DEFINE x == [from |-> c, n |-> published + 1]
<1>1. /\ published' = published + 1 /\ UNCHANGED <<mailbox, held, last>>
      /\ published \in Nat /\ x \in Msg /\ x.from = c /\ x.n = published + 1
  BY <1>0 DEF Publish, delivery, peer, MsgTyped, Msg
<1>2. \/ loop' = [loop EXCEPT ![c] = "reply"] /\ UNCHANGED <<msg, fanout>>
      \/ /\ loop' = [loop EXCEPT ![c] = "publish"] /\ msg' = [msg EXCEPT ![c] = x]
         /\ fanout' = [fanout EXCEPT ![c] = subs[ch]]
  BY Zenon DEF Publish
<1> HIDE DEF x
<1>3. MsgTyped'
  BY <1>0, <1>1, <1>2 DEF MsgTyped
<1>4. PubOK'
  <2>1. ASSUME NEW b \in Conns, loop[b] = "publish" PROVE msg[b].n \in Nat /\ msg[b].n <= published + 1
    BY SMTT(30), <1>0, <1>1, <2>1 DEF PubOK, Msg
  <2>2. \A b \in Conns : b # c => loop'[b] = loop[b] /\ msg'[b] = msg[b]
    BY Zenon, <1>0, <1>2 DEF Typed, MsgTyped
  <2>3. loop'[c] = "publish" => msg'[c] = x
    BY Zenon, <1>0, <1>2 DEF Typed, MsgTyped
  <2>4. ASSUME NEW b \in Conns, loop'[b] = "publish", b # c
        PROVE  msg'[b] \in Msg /\ msg'[b].from = b /\ msg'[b].n <= published'
    BY Zenon, <1>0, <1>1, <2>1, <2>2, <2>4 DEF PubOK
  <2>5. ASSUME loop'[c] = "publish" PROVE msg'[c] \in Msg /\ msg'[c].from = c /\ msg'[c].n <= published'
    BY <1>1, <2>3, <2>5
  <2> QED
    BY <2>4, <2>5, Zenon DEF PubOK
<1>5. ASSUME NEW d \in Conns
      PROVE  /\ \A p \in Conns : last[d][p] \in Nat
             /\ \A m \in Range(mailbox[d]) \cup Range(held[d]) : m \in Msg /\ m.n \in Nat /\ m.n <= published
  <2>1. /\ last[d] \in [Conns -> Nat]
        /\ \A m \in Range(mailbox[d]) \cup Range(held[d]) : m \in Msg
    BY <1>0, Waiting, Zenon
  <2> QED
    BY Zenon, <1>0, <2>1 DEF BoxOK, Boxed, Msg
<1>6. ASSUME NEW d \in Conns PROVE BoxOK(d)'
  <2>1. /\ \A p \in Conns : last[d][p] <= published + 1
        /\ \A m \in Range(mailbox[d]) \cup Range(held[d]) : m.n <= published + 1
    BY SMTT(30), <1>0, <1>1, <1>5 DEF BoxOK, Boxed
  <2> QED
    BY <1>0, <1>1, <2>1, Zenon DEF BoxOK, Boxed
<1>7. ASSUME NEW b \in Conns, NEW d \in Conns PROVE NewOK(b, d)'
  <2>1. CASE fanout'[b] = fanout[b] /\ msg'[b] = msg[b]
    BY <1>0, <1>1, <2>1, Zenon DEF NewOK
  <2>2. CASE b = c /\ msg'[b] = x /\ fanout'[b] = subs[ch]
    <3>1. subs[ch][d] <= 1
      BY <1>0 DEF ListsOK
    <3>2. last[d][c] < x.n /\ \A m \in Range(held[d]) \cup Range(mailbox[d]) : m.n < x.n
      BY <1>0, <1>1, <1>5 DEF BoxOK, Boxed
    <3> QED
      BY <1>1, <2>2, <3>1, <3>2, Zenon DEF NewOK
  <2> QED
    BY <1>0, <1>2, <2>1, <2>2, Zenon DEF Typed, MsgTyped
<1> QED
  BY Zenon, <1>3, <1>4, <1>6, <1>7 DEF Ord

\* A message goes into a mailbox, or is dropped.
LEMMA SendOrder ==
  ASSUME NEW c \in Conns, NEW e \in Conns, Send(c, e), Inv, Ord PROVE Ord'
<1>0. /\ Typed /\ MsgTyped /\ PubOK /\ (\A d \in Conns : BoxOK(d))
      /\ \A b, d \in Conns : NewOK(b, d)
  BY Zenon DEF Inv, Ord
<1> DEFINE rest == [fanout[c] EXCEPT ![e] = @ - 1]
           x == msg[c]
<1>1. /\ loop[c] = "publish" /\ fanout[c][e] > 0 /\ fanout' = [fanout EXCEPT ![c] = rest]
      /\ loop' = [loop EXCEPT ![c] = IF rest = Nobody THEN "reply" ELSE @]
      /\ msg' = [msg EXCEPT ![c] = IF rest = Nobody THEN <<>> ELSE @]
      /\ mailbox' \in {mailbox, [mailbox EXCEPT ![e] = Append(@, x)]}
      /\ UNCHANGED <<published, held, last>>
  BY <1>0, Zenon DEF Send, Visited, peer, MsgTyped
<1>2. x \in Msg /\ x.from = c /\ x.n \in Nat /\ x.n <= published /\ published \in Nat
  BY Zenon, <1>0, <1>1 DEF PubOK, Msg, MsgTyped
<1>3. /\ rest[e] = 0 /\ \A d \in Conns : d # e => rest[d] = fanout[c][d]
      /\ \A d \in Conns : rest[d] > 0 => rest # Nobody
  <2>1. fanout[c] \in [Conns -> Nat] /\ fanout[c][e] = 1
    BY <1>0, <1>1 DEF Typed, NewOK
  <2> QED
    BY <2>1 DEF Nobody
<1>4. /\ last[e][c] < x.n
      /\ \A m \in Range(held[e]) \cup Range(mailbox[e]) : m.from = c => m.n < x.n
  BY Zenon, <1>0, <1>1 DEF NewOK
<1> HIDE DEF rest, x
<1>5. /\ mailbox[e] \in Seq(Msg) /\ Append(mailbox[e], x) \in Seq(Msg) /\ Sorted(Append(mailbox[e], x))
      /\ Range(Append(mailbox[e], x)) = Range(mailbox[e]) \cup {x}
  <2>1. mailbox[e] \in Seq(Msg) /\ Sorted(mailbox[e])
    BY Zenon, <1>0 DEF MsgTyped, BoxOK, Boxed
  <2>2. \A m \in Range(mailbox[e]) : m.from = x.from => m.n < x.n
    BY Zenon, <1>2, <1>4
  <2> QED
    BY Zenon, <1>2, <2>1, <2>2, AppendSorted
<1>6. /\ \A d \in Conns : d # e => mailbox'[d] = mailbox[d]
      /\ mailbox'[e] \in {mailbox[e], Append(mailbox[e], x)}
      /\ Sorted(mailbox'[e]) /\ Range(mailbox'[e]) \subseteq Range(mailbox[e]) \cup {x}
      /\ mailbox' \in [Conns -> Seq(Msg)]
  <2>1. mailbox \in [Conns -> Seq(Msg)] /\ Sorted(mailbox[e])
    BY Zenon, <1>0 DEF MsgTyped, BoxOK, Boxed
  <2>2. CASE mailbox' = mailbox
    BY <2>1, <2>2, Zenon
  <2>3. CASE mailbox' = [mailbox EXCEPT ![e] = Append(@, x)]
    <3>1. mailbox'[e] = Append(mailbox[e], x) /\ \A d \in Conns : d # e => mailbox'[d] = mailbox[d]
      BY Zenon, <2>1, <2>3
    <3>2. mailbox' \in [Conns -> Seq(Msg)]
      BY Zenon, <1>5, <2>1, <2>3
    <3> QED
      BY Zenon, <1>5, <3>1, <3>2
  <2> QED
    BY Zenon, <1>1, <2>2, <2>3
<1>7. MsgTyped'
  BY <1>0, <1>1, <1>6, <1>2, Zenon DEF MsgTyped
<1>8. PubOK'
  <2>1. \A b \in Conns : loop'[b] = "publish" => loop[b] = "publish" /\ msg'[b] = msg[b]
    BY <1>0, <1>1, Zenon DEF Typed, MsgTyped
  <2> QED
    BY <1>0, <1>1, <2>1, Zenon DEF PubOK
<1>9. ASSUME NEW d \in Conns PROVE BoxOK(d)'
  <2>1. CASE d # e
    BY <1>0, <1>1, <1>6, <2>1, Zenon DEF BoxOK, Boxed
  <2>2. CASE d = e
    BY <1>0, <1>1, <1>2, <1>4, <1>6, <2>2, ZenonT(30) DEF BoxOK, Boxed
  <2> QED
    BY Zenon, <2>1, <2>2
<1>10. ASSUME NEW b \in Conns, NEW d \in Conns PROVE NewOK(b, d)'
  <2>0. fanout'[c] = rest /\ \A a \in Conns : a # c => fanout'[a] = fanout[a] /\ msg'[a] = msg[a]
    BY Zenon, <1>0, <1>1 DEF Typed, MsgTyped
  <2>1. CASE b # c
    BY <1>0, <1>1, <1>2, <1>6, <2>0, <2>1, Zenon DEF NewOK
  <2>2. CASE b = c /\ d = e
    BY <1>3, <2>0, <2>2 DEF NewOK
  <2>3. CASE b = c /\ d # e
    <3>1. fanout'[c][d] = fanout[c][d] /\ (fanout'[c][d] > 0 => msg'[c] = msg[c])
      BY Zenon, <1>0, <1>1, <1>3, <2>0, <2>3 DEF MsgTyped
    <3> QED
      BY <1>0, <1>1, <1>6, <2>3, <3>1, Zenon DEF NewOK
  <2> QED
    BY Zenon, <2>1, <2>2, <2>3
<1> QED
  BY Zenon, <1>7, <1>8, <1>9, <1>10 DEF Ord

\* The oldest message goes from the mailbox to the goroutine that writes it.
LEMMA ReceiveOrder ==
  ASSUME NEW c \in Conns, Receive(c), Ord PROVE Ord'
<1>0. /\ MsgTyped /\ PubOK /\ (\A d \in Conns : BoxOK(d)) /\ \A b, d \in Conns : NewOK(b, d)
  BY Zenon DEF Ord
<1>1. held[c] = <<>> /\ UNCHANGED <<published, msg, fanout, loop, last>>
  BY Zenon DEF Receive, broker, request, peer
<1>2. CASE mailbox[c] = <<>>
  BY Zenon, <1>0, <1>1, <1>2, SameOrder DEF Receive
<1>3. CASE mailbox[c] # <<>>
  <2> DEFINE h == Head(mailbox[c])
             t == Tail(mailbox[c])
  <2>1. held' = [held EXCEPT ![c] = <<h>>] /\ mailbox' = [mailbox EXCEPT ![c] = t]
    BY Zenon, <1>3 DEF Receive
  <2>2. mailbox[c] \in Seq(Msg) /\ Sorted(mailbox[c])
    BY Zenon, <1>0 DEF MsgTyped, BoxOK, Boxed
  <2>3. h \in Msg /\ h \in Range(mailbox[c]) /\ t \in Seq(Msg) /\ Range(t) \subseteq Range(mailbox[c])
    BY Zenon, <1>3, <2>2, SeqFacts
  <2>4. Sorted(t) /\ \A m \in Range(t) : m.from = h.from => h.n < m.n
    BY Zenon, <1>3, <2>2, TailSorted
  <2>5. Range(<<h>>) = {h}
    BY <1>0, <2>3, Waiting, Zenon
  <2> HIDE DEF h, t
  <2>6. held \in [Conns -> {<<>>} \cup {<<m>> : m \in Msg}] /\ mailbox \in [Conns -> Seq(Msg)]
    BY Zenon, <1>0 DEF MsgTyped
  <2>7. /\ held'[c] = <<h>> /\ mailbox'[c] = t
        /\ \A d \in Conns : d # c => held'[d] = held[d] /\ mailbox'[d] = mailbox[d]
    BY Zenon, <2>1, <2>6
  <2>8. MsgTyped'
    <3>1. held' \in [Conns -> {<<>>} \cup {<<m>> : m \in Msg}]
      BY <2>1, <2>3, <2>6, Zenon
    <3>2. mailbox' \in [Conns -> Seq(Msg)]
      BY Zenon, <2>1, <2>3, <2>6
    <3> QED
      BY <1>0, <1>1, <3>1, <3>2, Zenon DEF MsgTyped
  <2>9. PubOK'
    BY <1>0, <1>1, Zenon DEF PubOK
  <2>10. ASSUME NEW d \in Conns PROVE BoxOK(d)'
    <3>1. CASE d # c
      BY <1>0, <1>1, <2>7, <3>1, Zenon DEF BoxOK, Boxed
    <3>2. CASE d = c
      <4>1. /\ \A p \in Conns : last[c][p] <= published
            /\ \A m \in Range(mailbox[c]) : m.n <= published /\ last[c][m.from] < m.n
        BY <1>0, Zenon DEF BoxOK, Boxed
      <4>2. Boxed(t, {h}, last[c], published)
        BY <2>3, <2>4, <4>1, Zenon DEF Boxed
      <4> QED
        BY <1>1, <2>5, <2>7, <3>2, <4>2, Zenon DEF BoxOK
    <3> QED
      BY Zenon, <3>1, <3>2
  <2>11. ASSUME NEW b \in Conns, NEW d \in Conns PROVE NewOK(b, d)'
    <3>1. Range(held'[d]) \cup Range(mailbox'[d]) \subseteq Range(held[d]) \cup Range(mailbox[d])
      BY <2>3, <2>5, <2>7, Zenon
    <3> QED
      BY <1>0, <1>1, <3>1, Zenon DEF NewOK
  <2> QED
    BY Zenon, <2>8, <2>9, <2>10, <2>11 DEF Ord
<1> QED
  BY Zenon, <1>2, <1>3

\* What is written to c after the step is nothing, or what was, with h as the last of
\* its publisher.
LEMMA Written ==
  ASSUME NEW c \in Conns, last \in [Conns -> [Conns -> Nat]], NEW h \in Msg,
         last' = [last EXCEPT ![c][h.from] = h.n] \/ last' = [last EXCEPT ![c] = Nobody]
  PROVE  /\ last' \in [Conns -> [Conns -> Nat]] /\ \A d \in Conns : d # c => last'[d] = last[d]
         /\ \A p \in Conns : last'[c][p] \in {0, last[c][p]} \/ (p = h.from /\ last'[c][p] = h.n)
<1>1. h.from \in Conns /\ h.n \in Nat
  BY Zenon DEF Msg
<1>2. CASE last' = [last EXCEPT ![c][h.from] = h.n]
  <2>1. last[c] \in [Conns -> Nat] /\ last'[c] = [last[c] EXCEPT ![h.from] = h.n]
    BY Zenon, <1>2
  <2>2. last'[c] \in [Conns -> Nat] /\ \A p \in Conns : p # h.from => last'[c][p] = last[c][p]
    BY Zenon, <1>1, <2>1
  <2>3. last'[c][h.from] = h.n
    BY Zenon, <1>1, <2>1
  <2> QED
    BY Zenon, <1>2, <2>1, <2>2, <2>3
<1>3. CASE last' = [last EXCEPT ![c] = Nobody]
  BY Zenon, <1>3 DEF Nobody
<1> QED
  BY Zenon, <1>2, <1>3

\* The message is written, or nothing counts as written any more.
LEMMA PushOrder ==
  ASSUME NEW c \in Conns, Push(c), Inv, Ord PROVE Ord'
<1>0. /\ FanOK /\ MsgTyped /\ PubOK /\ (\A d \in Conns : BoxOK(d)) /\ \A b, d \in Conns : NewOK(b, d)
  BY Zenon DEF Inv, Ord
<1> DEFINE h == held[c][1]
<1>1. /\ held[c] # <<>> /\ held' = [held EXCEPT ![c] = <<>>]
      /\ UNCHANGED <<published, msg, fanout, loop, mailbox>>
      /\ last' = [last EXCEPT ![c][h.from] = h.n] \/ last' = [last EXCEPT ![c] = Nobody]
  BY Zenon DEF Push, broker, request
<1>2. h \in Msg /\ Range(held[c]) = {h}
  <2>1. PICK m \in Msg : held[c] = <<m>>
    BY <1>0, <1>1, Waiting, Zenon
  <2>2. h = m
    BY <2>1
  <2> QED
    BY <1>0, <2>1, <2>2, Waiting, Zenon
<1>3. /\ last[c] \in [Conns -> Nat] /\ Range(mailbox[c]) \subseteq Msg /\ Range(<<>>) = {}
      /\ published \in Nat /\ h.n \in Nat
  BY <1>0, <1>2, Waiting, Zenon DEF MsgTyped, Msg
<1> HIDE DEF h
<1>4. /\ last' \in [Conns -> [Conns -> Nat]] /\ \A d \in Conns : d # c => last'[d] = last[d]
      /\ \A p \in Conns : last'[c][p] \in {0, last[c][p]} \/ (p = h.from /\ last'[c][p] = h.n)
  <2>1. last \in [Conns -> [Conns -> Nat]]
    BY Zenon, <1>0 DEF MsgTyped
  <2> QED
    BY <1>1, <1>2, <2>1, Written, Zenon
<1>5. held'[c] = <<>> /\ \A d \in Conns : d # c => held'[d] = held[d]
  BY <1>0, <1>1, Zenon DEF MsgTyped
<1>6. MsgTyped'
  <2>1. held' \in [Conns -> {<<>>} \cup {<<m>> : m \in Msg}]
    BY <1>0, <1>1, Zenon DEF MsgTyped
  <2> QED
    BY <1>0, <1>1, <1>4, <2>1, Zenon DEF MsgTyped
<1>7. PubOK'
  BY <1>0, <1>1, Zenon DEF PubOK
<1>8. ASSUME NEW d \in Conns PROVE BoxOK(d)'
  <2>1. CASE d # c
    BY <1>0, <1>1, <1>4, <1>5, <2>1, Zenon DEF BoxOK
  <2>2. CASE d = c
    <3>1. /\ Sorted(mailbox[c]) /\ \A p \in Conns : last[c][p] <= published
          /\ \A m \in Range(mailbox[c]) : m.n <= published /\ last[c][m.from] < m.n
          /\ h.n <= published /\ \A m \in Range(mailbox[c]) : m.from = h.from => h.n < m.n
      BY <1>0, <1>2, Zenon DEF BoxOK, Boxed
    <3>2. ASSUME NEW p \in Conns PROVE last'[c][p] <= published
      <4>1. last[c][p] <= published /\ 0 <= published /\ h.n <= published
        BY <1>3, <3>1
      <4> QED
        BY <1>4, <4>1, Zenon
    <3>3. ASSUME NEW m \in Range(mailbox[c]) PROVE last'[c][m.from] < m.n
      <4>1. m.from \in Conns /\ m.n \in Nat /\ m.n > 0
        BY <1>3 DEF Msg
      <4> QED
        BY Zenon, <1>4, <3>1, <4>1
    <3>4. Boxed(mailbox[c], {}, last'[c], published)
      BY <3>1, <3>2, <3>3, Zenon DEF Boxed
    <3> QED
      BY <1>1, <1>3, <1>5, <2>2, <3>4, Zenon DEF BoxOK
  <2> QED
    BY Zenon, <2>1, <2>2
<1>9. ASSUME NEW b \in Conns, NEW d \in Conns PROVE NewOK(b, d)'
  <2>1. CASE d # c
    BY <1>0, <1>1, <1>4, <1>5, <2>1, Zenon DEF NewOK
  <2>2. CASE d = c
    <3>1. ASSUME fanout[b][c] > 0 PROVE last'[c][b] < msg[b].n
      <4>1. last[c][b] < msg[b].n /\ (h.from = b => h.n < msg[b].n)
        BY Zenon, <1>0, <1>2, <3>1 DEF NewOK
      <4>2. last[c][b] \in Nat /\ msg[b].n \in Nat
        BY Zenon, <1>0, <1>3, <3>1 DEF FanOK, PubOK, Msg
      <4> QED
        BY <1>4, <4>1, <4>2
    <3> QED
      BY <1>0, <1>1, <1>3, <1>5, <2>2, <3>1, Zenon DEF NewOK
  <2> QED
    BY Zenon, <2>1, <2>2
<1> QED
  BY Zenon, <1>6, <1>7, <1>8, <1>9 DEF Ord

\* The connection is closed: nothing counts as written any more.
LEMMA CloseConnOrder ==
  ASSUME NEW c \in Conns, CloseConn(c), Inv, Ord PROVE Ord'
<1>0. /\ Typed /\ FanOK /\ MsgTyped /\ PubOK /\ (\A d \in Conns : BoxOK(d))
      /\ \A b, d \in Conns : NewOK(b, d)
  BY Zenon DEF Inv, Ord
<1>1. /\ last' = [last EXCEPT ![c] = Nobody] /\ loop' = [loop EXCEPT ![c] = "gone"]
      /\ mailbox' \in {mailbox, [mailbox EXCEPT ![c] = <<>>]}
      /\ UNCHANGED <<published, msg, fanout, held>>
  BY <1>0, Zenon DEF CloseConn, broker, MsgTyped
<1>2. last'[c] = Nobody /\ \A d \in Conns : d # c => last'[d] = last[d] /\ mailbox'[d] = mailbox[d]
  BY <1>0, <1>1, Zenon DEF MsgTyped
<1>3. mailbox'[c] \in {mailbox[c], <<>>}
  BY <1>0, <1>1, Zenon DEF MsgTyped
<1>4. /\ Range(mailbox[c]) \subseteq Msg /\ Range(held[c]) \subseteq Msg /\ Range(<<>>) = {}
      /\ published \in Nat /\ Sorted(<<>>) /\ \A p \in Conns : Nobody[p] = 0
  <2>1. Sorted(<<>>)
    BY DEF Sorted
  <2> QED
    BY Zenon, <1>0, <2>1, Waiting DEF MsgTyped, Nobody
<1>5. Range(mailbox'[c]) \subseteq Range(mailbox[c]) /\ Sorted(mailbox'[c])
  BY <1>0, <1>3, <1>4, Zenon DEF BoxOK, Boxed
<1>6. MsgTyped'
  <2>1. last \in [Conns -> [Conns -> Nat]] /\ mailbox \in [Conns -> Seq(Msg)]
    BY <1>0, Zenon DEF MsgTyped
  <2>2. Nobody \in [Conns -> Nat] /\ <<>> \in Seq(Msg)
    BY DEF Nobody
  <2>3. last' \in [Conns -> [Conns -> Nat]]
    BY <1>1, <2>1, <2>2, Zenon
  <2>4. mailbox' \in [Conns -> Seq(Msg)]
    BY <1>1, <2>1, <2>2, Zenon
  <2> QED
    BY <1>0, <1>1, <2>3, <2>4, Zenon DEF MsgTyped
<1>7. PubOK'
  <2>1. \A b \in Conns : loop'[b] = "publish" => loop[b] = "publish"
    BY Zenon, <1>0, <1>1 DEF Typed
  <2> QED
    BY <1>0, <1>1, <2>1, Zenon DEF PubOK
<1>8. ASSUME NEW d \in Conns PROVE BoxOK(d)'
  <2>1. CASE d # c
    BY <1>0, <1>1, <1>2, <2>1, Zenon DEF BoxOK
  <2>2. CASE d = c
    <3>1. /\ \A m \in Range(mailbox[c]) : m.n <= published
          /\ \A h \in Range(held[c]) : /\ h.n <= published
                                       /\ \A m \in Range(mailbox[c]) : m.from = h.from => h.n < m.n
      BY <1>0, Zenon DEF BoxOK, Boxed
    <3>2. \A m \in Range(mailbox[c]) \cup Range(held[c]) : Nobody[m.from] < m.n
      BY <1>4 DEF Msg
    <3>3. \A p \in Conns : Nobody[p] <= published
      BY <1>4
    <3>4. Boxed(mailbox'[c], Range(held[c]), Nobody, published)
      BY <1>5, <3>1, <3>2, <3>3, Zenon DEF Boxed
    <3> QED
      BY <1>1, <1>2, <2>2, <3>4, Zenon DEF BoxOK
  <2> QED
    BY Zenon, <2>1, <2>2
<1>9. ASSUME NEW b \in Conns, NEW d \in Conns PROVE NewOK(b, d)'
  <2>1. CASE d # c
    BY <1>0, <1>1, <1>2, <2>1, Zenon DEF NewOK
  <2>2. CASE d = c
    <3>1. ASSUME fanout[b][c] > 0 PROVE Nobody[b] < msg[b].n
      <4>1. msg[b] \in Msg
        BY Zenon, <1>0, <3>1 DEF FanOK, PubOK
      <4> QED
        BY <1>4, <4>1 DEF Msg
    <3> QED
      BY <1>0, <1>1, <1>2, <1>5, <2>2, <3>1, Zenon DEF NewOK
  <2> QED
    BY Zenon, <2>1, <2>2
<1> QED
  BY Zenon, <1>6, <1>7, <1>8, <1>9 DEF Ord

\* Every step keeps the order.
LEMMA StepOrder == Inv /\ Ord /\ [Next]_vars => Ord'
<1> SUFFICES ASSUME Inv, Ord, [Next]_vars PROVE Ord'
  BY Zenon
<1>1. ASSUME NEW c \in Conns, NEW x, x # "publish", loop' = [loop EXCEPT ![c] = x],
             UNCHANGED <<published, msg, fanout, mailbox, held, last>>
      PROVE  Ord'
  <2>1. \A b \in Conns : loop'[b] = "publish" => loop[b] = "publish"
    BY Zenon, <1>1 DEF Inv, Typed
  <2> QED
    BY <1>1, <2>1, SameOrder, Zenon
<1>2. ASSUME UNCHANGED <<published, msg, fanout, mailbox, held, last, loop>> PROVE Ord'
  BY <1>2, SameOrder, Zenon
<1>3. ASSUME NEW c \in Conns, Requesting(c) PROVE Ord'
  <2>1. ASSUME NEW chs \in Lists, subscribe(c, chs) PROVE Ord'
    BY <1>1, <2>1, Zenon DEF subscribe, broker, peer
  <2>2. ASSUME NEW chs \in Lists, unsubscribe(c, chs) PROVE Ord'
    <3>1. PICK x \in {"reply", "unsubscribe"} : loop' = [loop EXCEPT ![c] = x]
      BY <2>2, Zenon DEF unsubscribe
    <3> QED
      BY <1>1, <2>2, <3>1, Zenon DEF unsubscribe, broker, delivery
  <2> QED
    BY Zenon, <1>3, <2>1, <2>2, PublishOrder DEF Requesting
<1>4. ASSUME NEW c \in Conns, Working(c) PROVE Ord'
  <2>1. CASE Register(c) \/ Unregister(c)
    BY Zenon, <1>1, <2>1 DEF Register, Unregister, delivery, peer
  <2>2. CASE ConfirmSubscribe(c) \/ ConfirmUnsubscribe(c) \/ Answer(c)
    <3>1. PICK x \in {"read", "subscribe", "unsubscribe", "teardown"} : loop' = [loop EXCEPT ![c] = x]
      BY Zenon, <2>2 DEF ConfirmSubscribe, ConfirmUnsubscribe, Answer, Reply
    <3>2. UNCHANGED <<published, msg, fanout, mailbox, held, last>>
      BY Zenon, <2>2 DEF ConfirmSubscribe, ConfirmUnsubscribe, Answer, broker, delivery, peer
    <3> QED
      BY <1>1, <3>1, <3>2, Zenon
  <2>3. CASE Disconnected(c)
    BY <1>1, <2>3, Zenon DEF Disconnected, broker, delivery, peer
  <2>4. CASE unsubscribeAll(c)
    BY <1>1, <1>2, <2>4, Zenon DEF unsubscribeAll
  <2> QED
    BY Zenon, <1>4, <2>1, <2>2, <2>3, <2>4, SendOrder, CloseConnOrder DEF Working
<1>5. ASSUME NEW c \in Conns, Delivering(c) PROVE Ord'
  BY Zenon, <1>5, ReceiveOrder, PushOrder DEF Delivering
<1>6. ASSUME NEW c \in Leavers, Leaving(c) PROVE Ord'
  <2>1. c \in Conns
    BY Zenon, PubSubAssumption DEF Conns
  <2>2. CASE Quit(c)
    BY <1>1, <2>1, <2>2, Zenon DEF Quit, broker, delivery, peer
  <2>3. CASE Stall(c) \/ HangUp(c)
    BY Zenon, <1>2, <2>3 DEF Stall, HangUp, broker, request, delivery
  <2> QED
    BY Zenon, <1>6, <2>2, <2>3 DEF Leaving
<1>7. CASE UNCHANGED vars
  BY Zenon, <1>2, <1>7 DEF vars, broker, request, delivery, peer
<1> QED
  BY Zenon, <1>3, <1>4, <1>5, <1>6, <1>7 DEF Next

\* The order holds throughout.
LEMMA OrdHolds == Spec => [](Inv /\ Ord)
<1>1. Init => Ord
  <2> SUFFICES ASSUME Init PROVE Ord
    BY Zenon
  <2>1. /\ \A d \in Conns : mailbox[d] = <<>> /\ held[d] = <<>> /\ last[d] = Nobody
        /\ published = 0 /\ \A c \in Conns : loop[c] = "read" /\ fanout[c] = Nobody
    BY Zenon DEF Init
  <2>2. Range(<<>>) = {} /\ Sorted(<<>>) /\ Nobody \in [Conns -> Nat] /\ \A p \in Conns : Nobody[p] = 0
    BY DEF Range, Sorted, Nobody
  <2>3. MsgTyped
    <3>1. held \in [Conns -> {<<>>} \cup {<<m>> : m \in Msg}] /\ msg \in [Conns -> Msg \cup {<<>>}]
      BY Zenon DEF Init
    <3>2. mailbox \in [Conns -> Seq(Msg)] /\ last \in [Conns -> [Conns -> Nat]]
      BY <2>2 DEF Init
    <3> QED
      BY Zenon, <2>1, <3>1, <3>2 DEF MsgTyped
  <2>4. PubOK
    BY Zenon, <2>1 DEF PubOK
  <2>5. \A d \in Conns : BoxOK(d)
    BY <2>1, <2>2 DEF BoxOK, Boxed
  <2>6. \A c, d \in Conns : NewOK(c, d)
    BY <2>1, <2>2 DEF NewOK
  <2> QED
    BY Zenon, <2>3, <2>4, <2>5, <2>6 DEF Ord
<1> QED
  BY <1>1, InitInv, StepInv, StepOrder, PTL DEF Spec

\* A client gets the messages of one publisher in the order in which they were
\* published and none twice.
THEOREM MessagesInOrder == Spec => []PublisherOrder
<1>1. ASSUME Ord PROVE PublisherOrder
  <2> SUFFICES ASSUME NEW c \in Conns, NEW i \in 1 .. Len(Pending(c))
               PROVE  /\ last[c][Pending(c)[i].from] < Pending(c)[i].n
                      /\ \A j \in 1 .. i - 1 :
                           Pending(c)[j].from = Pending(c)[i].from => Pending(c)[j].n < Pending(c)[i].n
    BY Zenon DEF PublisherOrder
  <2> DEFINE q == mailbox[c]
  <2>1. q \in Seq(Msg) /\ DOMAIN q = 1 .. Len(q) /\ Len(q) \in Nat
    BY <1>1 DEF Ord, MsgTyped
  <2>2. Boxed(q, Range(held[c]), last[c], published)
    BY Zenon, <1>1 DEF Ord, BoxOK
  <2>3. held[c] = <<>> \/ \E m \in Msg : held[c] = <<m>>
    BY <1>1, Waiting, Zenon DEF Ord
  <2>4. \A k \in 1 .. Len(q) : q[k] \in Range(q)
    BY Zenon, <2>1 DEF Range
  <2> HIDE DEF q
  <2>5. CASE held[c] = <<>>
    <3>1. Pending(c) = q
      BY <2>1, <2>5 DEF Pending, q
    <3> QED
      BY <2>1, <2>2, <2>4, <3>1 DEF Boxed, Sorted
  <2>6. CASE \E m \in Msg : held[c] = <<m>>
    <3>1. PICK m \in Msg : held[c] = <<m>>
      BY Zenon, <2>6
    <3>2. Range(held[c]) = {m}
      BY <1>1, <3>1, Waiting, Zenon DEF Ord
    <3>3. /\ Len(Pending(c)) = Len(q) + 1 /\ Pending(c)[1] = m
          /\ \A k \in 2 .. Len(q) + 1 : Pending(c)[k] = q[k - 1]
      BY <2>1, <3>1 DEF Pending, q
    <3> DEFINE p == Pending(c)
    <3> HIDE DEF p
    <3>4. CASE i = 1
      BY <2>2, <3>2, <3>3, <3>4 DEF Boxed
    <3>5. CASE i # 1
      <4>1. i \in 2 .. Len(q) + 1 /\ i - 1 \in 1 .. Len(q) /\ Pending(c)[i] = q[i - 1] /\ q[i - 1] \in Range(q)
        BY <2>1, <2>4, <3>3, <3>5
      <4>2. last[c][q[i - 1].from] < q[i - 1].n /\ (m.from = q[i - 1].from => m.n < q[i - 1].n)
        BY Zenon, <2>2, <3>2, <4>1 DEF Boxed
      <4>3. ASSUME NEW j \in 1 .. i - 1, Pending(c)[j].from = q[i - 1].from PROVE Pending(c)[j].n < q[i - 1].n
        <5>1. CASE j = 1
          BY Zenon, <3>3, <4>2, <4>3, <5>1
        <5>2. CASE j # 1
          <6>1. j - 1 \in 1 .. Len(q) /\ j - 1 < i - 1 /\ Pending(c)[j] = q[j - 1]
            BY SMTT(30), <2>1, <3>3, <4>1, <5>2
          <6> QED
            BY Zenon, <2>2, <4>1, <4>3, <6>1 DEF Boxed, Sorted
        <5> QED
          BY Zenon, <5>1, <5>2
      <4> QED
        BY Zenon, <4>1, <4>2, <4>3
    <3> QED
      BY Zenon, <3>4, <3>5
  <2> QED
    BY Zenon, <2>3, <2>5, <2>6
<1> QED
  BY <1>1, OrdHolds, PTL

-----------------------------------------------------------------------------
(* Types and bounds.                                                       *)

\* The types that the order does not need, and the bounds.
MoreTyped ==
  /\ published <= MaxPublish /\ requests \in Nat /\ msg \in [Conns -> Messages \cup {<<>>}]
  /\ deliver \in [Conns -> {"off", "range", "failed", "done"}]
  /\ client \in [Conns -> {"there", "stuck", "left"}]

FitsOK == \A c \in Conns : Len(mailbox[c]) <= subMailboxCap

\* Every step keeps them.
LEMMA StepTyped == MsgTyped /\ MoreTyped /\ [Next]_vars => MoreTyped'
<1> SUFFICES ASSUME MsgTyped, MoreTyped, [Next]_vars PROVE MoreTyped'
  BY Zenon
<1>n. published \in Nat /\ MaxPublish \in Nat /\ <<>> \in Messages \cup {<<>>}
  BY Zenon, PubSubAssumption DEF MsgTyped
<1>1. ASSUME NEW c \in Conns, NEW chs \in Lists, subscribe(c, chs) PROVE MoreTyped'
  BY <1>1 DEF subscribe, MoreTyped, broker, peer
<1>2. ASSUME NEW c \in Conns, NEW chs \in Lists, unsubscribe(c, chs) PROVE MoreTyped'
  BY <1>2 DEF unsubscribe, MoreTyped, broker, delivery
<1>3. ASSUME NEW c \in Conns, NEW ch \in Channels, Publish(c, ch) PROVE MoreTyped'
  <2>1. published' = published + 1 /\ published' <= MaxPublish
    BY <1>3, <1>n DEF Publish
  <2>2. [from |-> c, n |-> published'] \in Messages
    BY <1>n, <2>1 DEF Messages
  <2>3. msg' \in [Conns -> Messages \cup {<<>>}]
    BY Zenon, <1>3, <2>2 DEF Publish, MoreTyped
  <2> QED
    BY Zenon, <1>3, <2>1, <2>3 DEF Publish, MoreTyped, delivery, peer
<1>4. ASSUME NEW c \in Conns, NEW d \in Conns, Send(c, d) PROVE MoreTyped'
  <2>1. PICK m \in Messages \cup {<<>>} : msg' = [msg EXCEPT ![c] = m]
    BY Zenon, <1>4 DEF Send, Visited, MoreTyped
  <2>2. msg' \in [Conns -> Messages \cup {<<>>}]
    BY Zenon, <2>1 DEF MoreTyped
  <2> QED
    BY Zenon, <1>4, <2>2 DEF Send, MoreTyped, peer
<1>5. ASSUME UNCHANGED <<published, requests, msg, deliver, client>> PROVE MoreTyped'
  BY Zenon, <1>5 DEF MoreTyped
<1>6. ASSUME NEW c \in Conns, Working(c), ~\E d \in Conns : Send(c, d) PROVE MoreTyped'
  <2>1. CASE CloseConn(c)
    BY Zenon, <2>1 DEF CloseConn, MoreTyped, broker
  <2>2. CASE ~CloseConn(c)
    BY Zenon, <1>5, <1>6, <2>2 DEF Working, Register, ConfirmSubscribe, Unregister, ConfirmUnsubscribe, Answer,
       Disconnected, unsubscribeAll, broker, delivery, peer
  <2> QED
    BY Zenon, <2>1, <2>2
<1>7. ASSUME NEW c \in Conns, Delivering(c) PROVE MoreTyped'
  BY Zenon, <1>7 DEF Delivering, Receive, Push, MoreTyped, broker, request, peer
<1>8. ASSUME NEW c \in Leavers, Leaving(c) PROVE MoreTyped'
  BY Zenon, <1>8 DEF Leaving, Quit, Stall, HangUp, MoreTyped, broker, request, delivery, peer
<1>9. CASE UNCHANGED vars
  BY Zenon, <1>5, <1>9 DEF vars, broker, request, delivery, peer
<1> QED
  BY Zenon, <1>1, <1>2, <1>3, <1>4, <1>6, <1>7, <1>8, <1>9 DEF Next, Requesting

\* No step overfills a mailbox: Send drops what does not fit.
LEMMA StepFits == Ord /\ FitsOK /\ [Next]_vars => FitsOK'
<1> SUFFICES ASSUME Ord, FitsOK, [Next]_vars PROVE FitsOK'
  BY Zenon
<1>n. subMailboxCap \in Nat
  BY Zenon, PubSubAssumption
<1>t. /\ mailbox \in [Conns -> Seq(Msg)]
      /\ \A c \in Conns : mailbox[c] \in Seq(Msg) /\ Len(mailbox[c]) \in Nat /\ Len(mailbox[c]) <= subMailboxCap
  BY DEF Ord, MsgTyped, FitsOK
<1>1. ASSUME NEW d \in Conns, NEW q, Len(q) <= subMailboxCap, mailbox' = [mailbox EXCEPT ![d] = q]
      PROVE  FitsOK'
  BY Zenon, <1>1, <1>t DEF FitsOK
<1>2. ASSUME UNCHANGED mailbox PROVE FitsOK'
  BY Zenon, <1>2 DEF FitsOK
<1>3. ASSUME NEW c \in Conns, NEW d \in Conns, Send(c, d) PROVE FitsOK'
  <2>1. msg[c] \in Msg
    BY Zenon, <1>3 DEF Send, Ord, PubOK
  <2>2. Len(Append(mailbox[d], msg[c])) = Len(mailbox[d]) + 1
    BY <1>t, <2>1
  <2> DEFINE q == IF Len(mailbox[d]) < subMailboxCap THEN Append(mailbox[d], msg[c]) ELSE mailbox[d]
  <2>3. Len(q) <= subMailboxCap
    BY <1>n, <1>t, <2>2
  <2>4. mailbox' = [mailbox EXCEPT ![d] = q]
    BY Zenon, <1>3, <1>t DEF Send
  <2> HIDE DEF q
  <2> QED
    BY Zenon, <1>1, <2>3, <2>4
<1>4. ASSUME NEW c \in Conns, Delivering(c) PROVE FitsOK'
  <2>1. CASE UNCHANGED mailbox
    BY Zenon, <1>2, <2>1
  <2>2. CASE mailbox[c] # <<>> /\ mailbox' = [mailbox EXCEPT ![c] = Tail(mailbox[c])]
    <3>1. Len(Tail(mailbox[c])) <= subMailboxCap
      BY <1>n, <1>t, <2>2
    <3> QED
      BY Zenon, <1>1, <2>2, <3>1
  <2> QED
    BY Zenon, <1>4, <2>1, <2>2 DEF Delivering, Receive, Push
<1>5. ASSUME NEW c \in Conns, CloseConn(c) PROVE FitsOK'
  <2>1. PICK q \in {<<>>, mailbox[c]} : mailbox' = [mailbox EXCEPT ![c] = q]
    BY Zenon, <1>5 DEF CloseConn
  <2>2. Len(<<>>) <= subMailboxCap
    BY <1>n
  <2> QED
    BY Zenon, <1>1, <1>t, <2>1, <2>2
<1>6. ASSUME NEW c \in Conns, Requesting(c) PROVE FitsOK'
  BY Zenon, <1>2, <1>6 DEF Requesting, subscribe, unsubscribe, Publish, delivery
<1>7. ASSUME NEW c \in Conns, Working(c) PROVE FitsOK'
  BY Zenon, <1>2, <1>3, <1>5, <1>7 DEF Working, Register, ConfirmSubscribe, Unregister, ConfirmUnsubscribe,
     Answer, Disconnected, unsubscribeAll, delivery
<1>8. ASSUME NEW c \in Leavers, Leaving(c) PROVE FitsOK'
  BY Zenon, <1>2, <1>8 DEF Leaving, Quit, Stall, HangUp, delivery
<1>9. CASE UNCHANGED vars
  BY Zenon, <1>2, <1>9 DEF vars, delivery
<1> QED
  BY Zenon, <1>4, <1>6, <1>7, <1>8, <1>9 DEF Next

\* A queue of messages none of which is newer than the last one published.
LEMMA OldMessages ==
  ASSUME published <= MaxPublish, published \in Nat, NEW q \in Seq(Msg), \A m \in Range(q) : m.n <= published
  PROVE  q \in Seq(Messages)
<1>1. MaxPublish \in Nat
  BY Zenon, PubSubAssumption
<1>2. \A m \in Msg : m.n <= published => m \in Messages
  BY <1>1 DEF Msg, Messages
<1>3. \A i \in 1 .. Len(q) : q[i] \in Msg /\ q[i] \in Range(q)
  BY DEF Range
<1>4. \A i \in 1 .. Len(q) : q[i] \in Messages
  BY Zenon, <1>2, <1>3
<1> QED
  BY <1>4

\* The state always has its type: no mailbox outgrows its capacity, and a delivery
\* goroutine holds at most one message.
THEOREM TypeCorrect == Spec => []TypeOK
<1>1. ASSUME Inv, Ord, MoreTyped, FitsOK PROVE TypeOK
  <2>1. Typed /\ MsgTyped /\ published <= MaxPublish /\ published \in Nat
    BY Zenon, <1>1 DEF Inv, Ord, MoreTyped, MsgTyped
  <2>2. ASSUME NEW c \in Conns PROVE mailbox[c] \in Seq(Messages)
    <3>1. mailbox[c] \in Seq(Msg) /\ \A m \in Range(mailbox[c]) : m.n <= published
      BY Zenon, <1>1, <2>1 DEF Ord, MsgTyped, BoxOK, Boxed
    <3> QED
      BY Zenon, <2>1, <3>1, OldMessages
  <2>3. ASSUME NEW c \in Conns PROVE held[c] \in Seq(Messages) /\ Len(held[c]) <= 1
    <3>1. held[c] = <<>> \/ \E m \in Msg : held[c] = <<m>>
      BY Zenon, <2>1, Waiting
    <3>2. held[c] \in Seq(Msg) /\ Len(held[c]) <= 1
      <4>1. /\ <<>> \in Seq(Msg) /\ Len(<<>>) <= 1
            /\ \A m \in Msg : <<m>> \in Seq(Msg) /\ Len(<<m>>) <= 1
        OBVIOUS
      <4> QED
        BY Zenon, <3>1, <4>1
    <3>3. \A m \in Range(held[c]) : m.n <= published
      BY Zenon, <1>1 DEF Ord, BoxOK, Boxed
    <3> QED
      BY Zenon, <2>1, <3>2, <3>3, OldMessages
  <2>4. \A c \in Conns : msg[c] \in Messages \cup {<<>>}
    BY Zenon, <1>1 DEF MoreTyped
  <2> QED
    BY Zenon, <1>1, <2>1, <2>2, <2>3, <2>4 DEF TypeOK, Typed, MsgTyped, MoreTyped, FitsOK
<1>2. Init => MoreTyped /\ FitsOK
  <2> SUFFICES ASSUME Init PROVE MoreTyped /\ FitsOK
    BY Zenon
  <2>1. msg \in [Conns -> Messages \cup {<<>>}]
    BY Zenon DEF Init
  <2>2. \A c \in Conns : mailbox[c] = <<>>
    BY Zenon DEF Init
  <2> QED
    BY <2>1, <2>2, PubSubAssumption DEF Init, MoreTyped, FitsOK
<1>3. Ord => MsgTyped
  BY Zenon DEF Ord
<1> QED
  BY <1>1, <1>2, <1>3, StepTyped, StepFits, OrdHolds, PTL DEF Spec
=============================================================================
