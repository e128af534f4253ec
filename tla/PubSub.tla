------------------------------- MODULE PubSub -------------------------------
(***************************************************************************)
(* Publish/subscribe: the Broker of internal/db/pubsub.go and the          *)
(* connections that use it (serve, subscribe, unsubscribe, deliver and     *)
(* unsubscribeAll of internal/server, with the loop of handle around       *)
(* them).                                                                  *)
(*                                                                         *)
(* A connection has two goroutines: its request loop, and from its first   *)
(* SUBSCRIBE on one that drains its mailbox to the socket.  PUBLISH visits *)
(* the subscribers one by one under the broker's read lock; Subscribe and  *)
(* Unsubscribe need the write lock.                                        *)
(***************************************************************************)
EXTENDS Naturals, Sequences, FiniteSets, Functions

CONSTANTS
  Subscribers,    \* client connections that SUBSCRIBE and UNSUBSCRIBE
  Publishers,     \* client connections that PUBLISH; one may do both
  Channels,       \* channel names
  subMailboxCap,  \* messages a mailbox holds (256 in the code)
  MaxArgs,        \* bound: channels that one (UN)SUBSCRIBE names
  MaxRequests,    \* bound: (UN)SUBSCRIBE commands in a behaviour
  MaxPublish,     \* bound: PUBLISH commands in a behaviour
  Leavers         \* bound: connections whose peers QUIT, hang up or stop reading

ASSUME PubSubAssumption ==
  /\ subMailboxCap \in Nat \ {0} /\ MaxArgs \in Nat
  /\ MaxRequests \in Nat /\ MaxPublish \in Nat /\ Leavers \subseteq Subscribers \cup Publishers

Conns == Subscribers \cup Publishers

VARIABLES
  subs,      \* subs[ch][c]: how often c's subscriber is in the list of channel ch
  msg,       \* msg[c]: the message that c is publishing
  fanout,    \* fanout[c][d]: how often d is still to be sent it
  published, \* PUBLISH commands so far
  loop,      \* loop[c]: where the request loop of c is
  todo,      \* todo[c]: channels of the request that are still to be handled
  channels,  \* channels[c]: cs.channels
  sub,       \* sub[c]: cs.sub, "nil", "open" or "closed"
  requests,  \* (UN)SUBSCRIBE commands so far
  mailbox,   \* mailbox[c]: what its Go channel holds
  deliver,   \* deliver[c]: the delivery goroutine
  held,      \* held[c]: the message it is about to write
  client,    \* client[c]: the peer, "there", "stuck" (it reads nothing) or "left"
  told,      \* told[c]: channels confirmed to the client, which has not left them
  last       \* last[c][p]: the last message of p written to c's socket

broker   == <<subs, msg, fanout, published>>
request  == <<loop, todo, channels, sub, requests>>
delivery == <<mailbox, deliver, held>>
peer     == <<client, told, last>>
vars     == <<broker, request, delivery, peer>>

Messages == [from : Conns, n : 1 .. MaxPublish]

Nobody == [d \in Conns |-> 0]

Lists == UNION {[1 .. n -> Channels] : n \in 0 .. MaxArgs}

Init ==
  /\ subs = [ch \in Channels |-> Nobody] /\ published = 0
  /\ msg = [c \in Conns |-> <<>>] /\ fanout = [c \in Conns |-> Nobody]
  /\ loop = [c \in Conns |-> "read"] /\ todo = [c \in Conns |-> <<>>]
  /\ channels = [c \in Conns |-> {}] /\ sub = [c \in Conns |-> "nil"]
  /\ requests = 0
  /\ mailbox = [c \in Conns |-> <<>>] /\ deliver = [c \in Conns |-> "off"]
  /\ held = [c \in Conns |-> <<>>]
  /\ client = [c \in Conns |-> "there"] /\ told = [c \in Conns |-> {}]
  /\ last = [c \in Conns |-> Nobody]

-----------------------------------------------------------------------------
(* The broker, and the socket.                                             *)

\* Subscribe and Unsubscribe need the broker's lock: nobody is inside Publish.
Lockable == \A c \in Conns : loop[c] # "publish"

\* Subscribe appends and does not look for duplicates.
Subscribe(ch, c) == Lockable /\ subs' = [subs EXCEPT ![ch][c] = @ + 1]

\* Mutant: removes the first subscriber of the list, whoever that is.
Unsubscribe_First(ch, c) ==
  /\ Lockable
  /\ \E d \in Conns : subs[ch][d] > 0 /\ subs' = [subs EXCEPT ![ch][d] = @ - 1]

\* Unsubscribe removes the first occurrence, if there is one.
Unsubscribe(ch, c) ==
  Lockable /\ subs' = [subs EXCEPT ![ch][c] = IF @ > 0 THEN @ - 1 ELSE 0]

\* connState.write returns once the peer takes the frame.  With a peer that left
\* it may still succeed, or fail; a bufio.Writer that failed once fails for good.
Writes(c) == client[c] # "stuck" /\ deliver[c] # "failed" /\ loop[c] # "gone"
Fails(c) == client[c] = "left" \/ loop[c] = "gone"

\* The outcome of the request loop's write: on to pc, or out of handle.
Reply(c, pc) ==
  \/ Writes(c) /\ loop' = [loop EXCEPT ![c] = pc]
  \/ Fails(c) /\ loop' = [loop EXCEPT ![c] = "teardown"]

-----------------------------------------------------------------------------
(* SUBSCRIBE and UNSUBSCRIBE.                                              *)

\* Without a channel, an error.  The first SUBSCRIBE creates the mailbox and starts
\* its goroutine.
subscribe(c, chs) ==
  LET first == chs # <<>> /\ sub[c] = "nil"
  IN  /\ loop[c] = "read" /\ requests < MaxRequests
      /\ requests' = requests + 1
      /\ loop' = [loop EXCEPT ![c] = IF chs = <<>> THEN "reply" ELSE "subscribe"]
      /\ todo' = [todo EXCEPT ![c] = chs]
      /\ sub' = [sub EXCEPT ![c] = IF first THEN "open" ELSE @]
      /\ deliver' = [deliver EXCEPT ![c] = IF first THEN "range" ELSE @]
      /\ UNCHANGED <<broker, channels, mailbox, held, peer>>

\* Mutant: does not ask whether the connection has the channel already.
Register_Again(c) ==
  LET ch == Head(todo[c])
  IN  /\ loop[c] = "subscribe"
      /\ Subscribe(ch, c)
      /\ channels' = [channels EXCEPT ![c] = @ \cup {ch}]
      /\ loop' = [loop EXCEPT ![c] = "confirm"]
      /\ UNCHANGED <<msg, fanout, published, todo, sub, requests, delivery, peer>>

\* The channels are registered one by one, unless the connection has them ...
Register(c) ==
  LET ch == Head(todo[c])
  IN  /\ loop[c] = "subscribe"
      /\ IF ch \in channels[c] THEN UNCHANGED subs ELSE Subscribe(ch, c)
      /\ channels' = [channels EXCEPT ![c] = @ \cup {ch}]
      /\ loop' = [loop EXCEPT ![c] = "confirm"]
      /\ UNCHANGED <<msg, fanout, published, todo, sub, requests, delivery, peer>>

\* ... and each is confirmed before the next one.
ConfirmSubscribe(c) ==
  /\ loop[c] = "confirm"
  /\ Reply(c, IF Len(todo[c]) = 1 THEN "read" ELSE "subscribe")
  /\ todo' = [todo EXCEPT ![c] = Tail(@)]
  /\ told' = [told EXCEPT ![c] = @ \cup {Head(todo[c])}]
  /\ UNCHANGED <<broker, channels, sub, requests, delivery, client, last>>

\* UNSUBSCRIBE without a channel means all of them, in the order of a Go map.
Targets(c, chs) ==
  IF chs # <<>> THEN {chs} ELSE Injection(1 .. Cardinality(channels[c]), channels[c])

\* Subscribed to nothing, it is answered once.
unsubscribe(c, chs) ==
  /\ loop[c] = "read" /\ requests < MaxRequests
  /\ requests' = requests + 1
  /\ \E targets \in Targets(c, chs) :
       /\ todo' = [todo EXCEPT ![c] = targets]
       /\ told' = [told EXCEPT ![c] = @ \ Range(targets)]
       /\ loop' = [loop EXCEPT ![c] = IF targets = <<>> THEN "reply" ELSE "unsubscribe"]
  /\ UNCHANGED <<broker, channels, sub, delivery, client, last>>

Unregister(c) ==
  LET ch == Head(todo[c])
  IN  /\ loop[c] = "unsubscribe"
      /\ IF ch \in channels[c] THEN Unsubscribe(ch, c) ELSE UNCHANGED subs
      /\ channels' = [channels EXCEPT ![c] = @ \ {ch}]
      /\ loop' = [loop EXCEPT ![c] = "unconfirm"]
      /\ UNCHANGED <<msg, fanout, published, todo, sub, requests, delivery, peer>>

ConfirmUnsubscribe(c) ==
  /\ loop[c] = "unconfirm"
  /\ Reply(c, IF Len(todo[c]) = 1 THEN "read" ELSE "unsubscribe")
  /\ todo' = [todo EXCEPT ![c] = Tail(@)]
  /\ UNCHANGED <<broker, channels, sub, requests, delivery, peer>>

-----------------------------------------------------------------------------
(* PUBLISH.                                                                *)

\* In subscribe mode serve answers PUBLISH with an error.  The read lock is held
\* from here to the last send.
Publish(c, ch) ==
  /\ loop[c] = "read" /\ published < MaxPublish
  /\ published' = published + 1
  /\ IF channels[c] # {} \/ subs[ch] = Nobody
     THEN /\ loop' = [loop EXCEPT ![c] = "reply"]
          /\ UNCHANGED <<msg, fanout>>
     ELSE /\ loop' = [loop EXCEPT ![c] = "publish"]
          /\ msg' = [msg EXCEPT ![c] = [from |-> c, n |-> published']]
          /\ fanout' = [fanout EXCEPT ![c] = subs[ch]]
  /\ UNCHANGED <<subs, todo, channels, sub, requests, delivery, peer>>

\* After the last send the lock is released and the count is the reply.
Visited(c, d) ==
  LET rest == [fanout[c] EXCEPT ![d] = @ - 1]
  IN  /\ fanout' = [fanout EXCEPT ![c] = rest]
      /\ loop' = [loop EXCEPT ![c] = IF rest = Nobody THEN "reply" ELSE @]
      /\ msg' = [msg EXCEPT ![c] = IF rest = Nobody THEN <<>> ELSE @]

\* Mutant: the send blocks.
Send_Blocks(c, d) ==
  /\ loop[c] = "publish" /\ fanout[c][d] > 0
  /\ Len(mailbox[d]) < subMailboxCap
  /\ mailbox' = [mailbox EXCEPT ![d] = Append(@, msg[c])]
  /\ Visited(c, d)
  /\ UNCHANGED <<subs, published, todo, channels, sub, requests, deliver, held, peer>>

\* Mutant: the mailbox has no bound.
Send_Unbounded(c, d) ==
  /\ loop[c] = "publish" /\ fanout[c][d] > 0
  /\ mailbox' = [mailbox EXCEPT ![d] = Append(@, msg[c])]
  /\ Visited(c, d)
  /\ UNCHANGED <<subs, published, todo, channels, sub, requests, deliver, held, peer>>

\* A send that never blocks: a full mailbox drops the message.
Send(c, d) ==
  /\ loop[c] = "publish" /\ fanout[c][d] > 0
  /\ mailbox' = [mailbox EXCEPT ![d] = IF Len(@) < subMailboxCap THEN Append(@, msg[c]) ELSE @]
  /\ Visited(c, d)
  /\ UNCHANGED <<subs, published, todo, channels, sub, requests, deliver, held, peer>>

\* The reply to PUBLISH, to an UNSUBSCRIBE from nothing, or an error.
Answer(c) ==
  /\ loop[c] = "reply" /\ Reply(c, "read")
  /\ UNCHANGED <<broker, todo, channels, sub, requests, delivery, peer>>

-----------------------------------------------------------------------------
(* The end of a connection: handle returns, its deferred calls run.        *)

\* The peer is gone: Decode returns an error.  (What it had sent before may still
\* be read, see subscribe, unsubscribe and Publish.)
Disconnected(c) ==
  /\ loop[c] = "read" /\ client[c] = "left"
  /\ loop' = [loop EXCEPT ![c] = "teardown"]
  /\ UNCHANGED <<broker, todo, channels, sub, requests, delivery, peer>>

\* QUIT and a frame that is not RESP are answered, whatever comes of it.
Quit(c) ==
  /\ loop[c] = "read" /\ (Writes(c) \/ Fails(c))
  /\ loop' = [loop EXCEPT ![c] = "teardown"]
  /\ UNCHANGED <<broker, todo, channels, sub, requests, delivery, peer>>

\* Mutant: closes the mailbox first.
unsubscribeAll_ClosesFirst(c) ==
  /\ loop[c] = "teardown"
  /\ UNCHANGED <<requests, msg, fanout, published, deliver, held, mailbox, client, last>>
  /\ IF sub[c] = "open"
     THEN /\ sub' = [sub EXCEPT ![c] = "closed"]
          /\ UNCHANGED <<subs, channels, loop, todo, told>>
     ELSE IF channels[c] = {}
     THEN /\ loop' = [loop EXCEPT ![c] = "closing"]
          /\ UNCHANGED <<subs, channels, sub, todo, told>>
     ELSE \E ch \in channels[c] :
            /\ Unsubscribe(ch, c)
            /\ channels' = [channels EXCEPT ![c] = @ \ {ch}]
            /\ UNCHANGED <<sub, loop, todo, told>>

\* Mutant: leaves the mailbox open.
unsubscribeAll_LeavesOpen(c) ==
  /\ loop[c] = "teardown"
  /\ UNCHANGED <<requests, msg, fanout, published, deliver, held, mailbox, client, last, sub>>
  /\ IF channels[c] = {}
     THEN /\ loop' = [loop EXCEPT ![c] = "closing"]
          /\ todo' = [todo EXCEPT ![c] = <<>>]
          /\ told' = [told EXCEPT ![c] = {}]
          /\ UNCHANGED <<subs, channels>>
     ELSE \E ch \in channels[c] :
            /\ Unsubscribe(ch, c)
            /\ channels' = [channels EXCEPT ![c] = @ \ {ch}]
            /\ UNCHANGED <<loop, todo, told>>

\* unsubscribeAll leaves the channels one by one and then closes the mailbox, if
\* there is one.
unsubscribeAll(c) ==
  /\ loop[c] = "teardown"
  /\ UNCHANGED <<requests, msg, fanout, published, deliver, held, mailbox, client, last>>
  /\ IF channels[c] = {}
     THEN /\ sub' = [sub EXCEPT ![c] = IF @ = "nil" THEN @ ELSE "closed"]
          /\ loop' = [loop EXCEPT ![c] = "closing"]
          /\ todo' = [todo EXCEPT ![c] = <<>>]
          /\ told' = [told EXCEPT ![c] = {}]
          /\ UNCHANGED <<subs, channels>>
     ELSE \E ch \in channels[c] :
            /\ Unsubscribe(ch, c)
            /\ channels' = [channels EXCEPT ![c] = @ \ {ch}]
            /\ UNCHANGED <<sub, loop, todo, told>>

\* Last of all, conn.Close: nothing reaches the peer any more.  What a failed
\* delivery left in the mailbox is garbage.
CloseConn(c) ==
  /\ loop[c] = "closing"
  /\ loop' = [loop EXCEPT ![c] = "gone"]
  /\ client' = [client EXCEPT ![c] = "left"]
  /\ last' = [last EXCEPT ![c] = Nobody]
  /\ mailbox' = [mailbox EXCEPT ![c] = IF deliver[c] = "failed" THEN <<>> ELSE @]
  /\ UNCHANGED <<broker, todo, channels, sub, requests, deliver, held, told>>

-----------------------------------------------------------------------------
(* The delivery goroutine, and the peer.                                   *)

\* Mutant: ends when the mailbox is empty.
Receive_Polls(c) ==
  /\ deliver[c] = "range" /\ held[c] = <<>>
  /\ IF mailbox[c] # <<>>
     THEN /\ held' = [held EXCEPT ![c] = <<Head(mailbox[c])>>]
          /\ mailbox' = [mailbox EXCEPT ![c] = Tail(@)]
          /\ UNCHANGED deliver
     ELSE /\ deliver' = [deliver EXCEPT ![c] = "done"]
          /\ UNCHANGED <<held, mailbox>>
  /\ UNCHANGED <<broker, request, peer>>

\* deliver takes the next message; a closed mailbox is drained before it ends.
Receive(c) ==
  /\ deliver[c] = "range" /\ held[c] = <<>>
  /\ IF mailbox[c] # <<>>
     THEN /\ held' = [held EXCEPT ![c] = <<Head(mailbox[c])>>]
          /\ mailbox' = [mailbox EXCEPT ![c] = Tail(@)]
          /\ UNCHANGED deliver
     ELSE /\ sub[c] = "closed"
          /\ deliver' = [deliver EXCEPT ![c] = "done"]
          /\ UNCHANGED <<held, mailbox>>
  /\ UNCHANGED <<broker, request, peer>>

\* It writes the message, and gives up, with all that is pending, when that fails.
Push(c) ==
  /\ held[c] # <<>>
  /\ held' = [held EXCEPT ![c] = <<>>]
  /\ \/ /\ Writes(c)
        /\ last' = [last EXCEPT ![c][held[c][1].from] = held[c][1].n]
        /\ UNCHANGED deliver
     \/ /\ Fails(c)
        /\ deliver' = [deliver EXCEPT ![c] = "failed"]
        /\ last' = [last EXCEPT ![c] = Nobody]
  /\ UNCHANGED <<broker, request, mailbox, client, told>>

\* A peer stops reading, or hangs up.
Stall(c) ==
  /\ client[c] = "there"
  /\ client' = [client EXCEPT ![c] = "stuck"]
  /\ UNCHANGED <<broker, request, delivery, told, last>>

HangUp(c) ==
  /\ client[c] # "left"
  /\ client' = [client EXCEPT ![c] = "left"]
  /\ UNCHANGED <<broker, request, delivery, told, last>>

-----------------------------------------------------------------------------
\* What the request loop does on its own, once it has read a request.
Working(c) ==
  \/ Register(c) \/ ConfirmSubscribe(c) \/ Unregister(c) \/ ConfirmUnsubscribe(c)
  \/ (\E d \in Conns : Send(c, d)) \/ Answer(c)
  \/ Disconnected(c) \/ unsubscribeAll(c) \/ CloseConn(c)

Delivering(c) == Receive(c) \/ Push(c)

Requesting(c) ==
  \/ c \in Subscribers /\ \E chs \in Lists : subscribe(c, chs) \/ unsubscribe(c, chs)
  \/ c \in Publishers /\ \E ch \in Channels : Publish(c, ch)

Leaving(c) == Quit(c) \/ Stall(c) \/ HangUp(c)

Next ==
  \/ \E c \in Conns : Requesting(c) \/ Working(c) \/ Delivering(c)
  \/ \E c \in Leavers : Leaving(c)

Spec == Init /\ [][Next]_vars

\* A goroutine that can run does.  Clients need not do anything.
Fairness ==
  /\ \A c \in Conns : WF_vars(Working(c))
  /\ \A c \in Subscribers : WF_vars(Delivering(c))

FairSpec == Spec /\ Fairness

-----------------------------------------------------------------------------
(* Properties.                                                             *)

Pending(c) == held[c] \o mailbox[c]

\* The type invariant; a mailbox never holds more than its capacity.
TypeOK ==
  /\ subs \in [Channels -> [Conns -> Nat]] /\ published \in Nat
  /\ \A c \in Conns : msg[c] \in Messages \cup {<<>>}
  /\ fanout \in [Conns -> [Conns -> Nat]]
  /\ loop \in [Conns -> {"read", "subscribe", "confirm", "unsubscribe", "unconfirm",
                         "publish", "reply", "teardown", "closing", "gone"}]
  /\ todo \in [Conns -> Seq(Channels)] /\ channels \in [Conns -> SUBSET Channels]
  /\ sub \in [Conns -> {"nil", "open", "closed"}] /\ requests \in Nat
  /\ \A c \in Conns : mailbox[c] \in Seq(Messages) /\ Len(mailbox[c]) <= subMailboxCap
  /\ deliver \in [Conns -> {"off", "range", "failed", "done"}]
  /\ \A c \in Conns : held[c] \in Seq(Messages) /\ Len(held[c]) <= 1
  /\ client \in [Conns -> {"there", "stuck", "left"}]
  /\ told \in [Conns -> SUBSET Channels] /\ last \in [Conns -> [Conns -> Nat]]

\* Publish never sends on a closed mailbox, which would panic and take the server
\* down: unsubscribeAll leaves the broker before it closes, and no fan-out that
\* has begun still has the subscriber on its list.
NeverSendsOnClosed ==
  \A c, d \in Conns : fanout[c][d] > 0 => sub[d] = "open"

\* A channel that was confirmed to a client, and that the client has not asked to
\* leave since, is registered: every later PUBLISH finds it.
AckedIsLive ==
  \A c \in Conns : loop[c] # "teardown" => \A ch \in told[c] : subs[ch][c] > 0

\* A client gets the messages of one publisher in the order of its PUBLISHes and
\* none twice, whatever the channels, drops, and subscriptions in between.
PublisherOrder ==
  \A c \in Conns : \A i \in 1 .. Len(Pending(c)) :
    LET m == Pending(c)[i]
    IN  /\ last[c][m.from] < m.n
        /\ \A j \in 1 .. i - 1 : Pending(c)[j].from = m.from => Pending(c)[j].n < m.n

\* A subscriber that is slow or stuck never holds up a publisher: its fan-out ends,
\* and with it the read lock that Subscribe and Unsubscribe wait for.
PublishersFinish == \A c \in Publishers : loop[c] = "publish" ~> loop[c] # "publish"

\* A client that stays connected and reads gets everything its mailbox took.
Delivered ==
  \A c \in Subscribers :
    []<>(Pending(c) = <<>> \/ client[c] # "there" \/ loop[c] = "gone")

\* When a subscriber leaves, its connection is torn down completely: it is in no list
\* of the broker any more and both its goroutines end, however stuck it was.
TeardownCompletes ==
  \A c \in Subscribers : client[c] = "left" ~>
    /\ loop[c] = "gone" /\ deliver[c] \in {"off", "failed", "done"}
    /\ \A ch \in Channels : subs[ch][c] = 0
=============================================================================
