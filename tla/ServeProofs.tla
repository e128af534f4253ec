----------------------------- MODULE ServeProofs ----------------------------
(***************************************************************************)
(* Theorems about Serve, for any number of listeners, connections and      *)
(* background goroutines, and whatever the clients send.                   *)
(***************************************************************************)
EXTENDS Serve, RespProofs

-----------------------------------------------------------------------------
(* The inductive invariant.                                                *)

\* The connections that have a handler.
Handling == {"read", "apply", "append", "reply", "closing"}

Handlers == {c \in Conns : conn[c] \in Handling}

\* The types that the proofs need.
Typed ==
  /\ phase \in {"loading", "failed", "serving", "draining", "stopping", "returned"}
  /\ logOpen \in BOOLEAN /\ accepting \subseteq Listeners
  /\ acceptor \in [Listeners -> Conns \cup {None}]
  /\ writeMu \in Conns \cup {Rewriter, None} /\ running \subseteq Background
  /\ conn \in [Conns -> Listeners \cup Stages]

\* A connection in the hands of an accept loop is in no other's and has no handler
\* yet, and the loop runs.
AcceptOK ==
  \A l \in Listeners : acceptor[l] # None =>
    /\ l \in accepting /\ conn[acceptor[l]] = "accepted"
    /\ \A m \in Listeners : m # l => acceptor[m] # acceptor[l]

\* connWG counts the handlers.
CountOK == IsFiniteSet(Handlers) /\ connWG = Cardinality(Handlers)

\* writeMu is held by a handler that appends, or by the rewrite.
LockOK ==
  /\ \A c \in Conns : conn[c] = "append" <=> writeMu = c
  /\ writeMu = Rewriter => Rewriter \in running

\* What has not begun before the log is open, and what has ended when Serve has come
\* past its waits.
PhaseOK ==
  /\ logOpen <=> phase \in {"serving", "draining", "stopping"}
  /\ phase # "serving" => accepting = {}
  /\ phase \in {"loading", "failed", "stopping", "returned"} => Handlers = {}
  /\ phase \in {"loading", "failed", "returned"} => running = {}

Inv == Typed /\ AcceptOK /\ CountOK /\ LockOK /\ PhaseOK

-----------------------------------------------------------------------------
(* Every action keeps it.                                                  *)

\* A handler starts, ends or goes on.
LEMMA HandlersMove ==
  ASSUME Typed, NEW c \in Conns, NEW y, conn' = [conn EXCEPT ![c] = y]
  PROVE  /\ conn'[c] = y /\ \A d \in Conns : d # c => conn'[d] = conn[d]
         /\ (y \in Handling <=> conn[c] \in Handling) => Handlers' = Handlers
         /\ y \in Handling /\ conn[c] \notin Handling => Handlers' = Handlers \cup {c} /\ c \notin Handlers
         /\ y \notin Handling /\ conn[c] \in Handling => Handlers' = Handlers \ {c} /\ c \in Handlers
<1>1. conn'[c] = y /\ \A d \in Conns : d # c => conn'[d] = conn[d]
  BY Zenon DEF Typed
<1> QED
  BY Zenon, <1>1 DEF Handlers

\* A connection in a state of its own is in no backlog.
LEMMA StagesApart ==
  ASSUME NEW x \in Stages PROVE x \notin Listeners
  BY Zenon, ServeAssumption

\* A handler that goes on from x to y, without the lock.
LEMMA GoesOn ==
  ASSUME Inv, NEW c \in Conns, conn[c] \in Handling \ {"append"}, NEW y \in Handling \ {"append"},
         conn' = [conn EXCEPT ![c] = y],
         UNCHANGED <<phase, logOpen, accepting, acceptor, connWG, writeMu, running>>
  PROVE  Inv'
<1>0. Typed /\ AcceptOK /\ CountOK /\ LockOK /\ PhaseOK
  BY Zenon DEF Inv
<1>1. conn'[c] = y /\ (\A d \in Conns : d # c => conn'[d] = conn[d]) /\ Handlers' = Handlers
  BY <1>0, HandlersMove, Zenon
<1>2. Typed'
  <2>1. y \in Stages
    BY Zenon DEF Handling, Stages
  <2>2. conn' \in [Conns -> Listeners \cup Stages]
    BY <1>0, <2>1, Zenon DEF Typed
  <2> QED
    BY <1>0, <2>2, Zenon DEF Typed
<1>3. AcceptOK'
  <2>1. \A d \in Conns : conn[d] = "accepted" => conn'[d] = "accepted"
    BY Zenon, <1>1 DEF Handling
  <2>2. \A l \in Listeners : acceptor[l] # None => acceptor[l] \in Conns
    BY <1>0, Zenon DEF Typed
  <2> QED
    BY <1>0, <2>1, <2>2, Zenon DEF AcceptOK
<1>4. CountOK' /\ PhaseOK'
  BY <1>0, <1>1, Zenon DEF CountOK, PhaseOK
<1>5. LockOK'
  BY Zenon, <1>0, <1>1 DEF LockOK
<1> QED
  BY Zenon, <1>2, <1>3, <1>4, <1>5 DEF Inv

\* What Inv speaks of stays.
LEMMA SameInv ==
  ASSUME Inv, UNCHANGED <<phase, logOpen, accepting, acceptor, connWG, writeMu, running, conn>>
  PROVE  Inv'
<1>1. Handlers' = Handlers
  BY Zenon DEF Handlers
<1> QED
  BY <1>1, Zenon DEF Inv, Typed, AcceptOK, CountOK, LockOK, PhaseOK

\* Those in a backlog are refused, and nobody else.
LEMMA RefuseFacts ==
  ASSUME Typed, NEW ls, ls \subseteq Listeners, Refuse(ls)
  PROVE  /\ conn' \in [Conns -> Listeners \cup Stages] /\ Handlers' = Handlers
         /\ \A c \in Conns : conn[c] = "accepted" => conn'[c] = "accepted"
         /\ \A c \in Conns : conn'[c] = "append" <=> conn[c] = "append"
<1>1. \A c \in Conns : conn'[c] = IF conn[c] \in ls THEN "refused" ELSE conn[c]
  BY Zenon DEF Refuse
<1>2. \A c \in Conns : conn[c] \in Stages => conn'[c] = conn[c]
  BY Zenon, <1>1, StagesApart
<1>3. \A c \in Conns : conn'[c] \in Stages \ {"refused"} => conn'[c] = conn[c]
  BY Zenon, <1>1 DEF Stages
<1>4. conn' \in [Conns -> Listeners \cup Stages]
  <2>1. "refused" \in Stages
    BY Zenon DEF Stages
  <2>2. \A c \in Conns : conn'[c] \in Listeners \cup Stages
    BY Zenon, <1>1, <2>1 DEF Typed
  <2>3. conn' = [c \in Conns |-> conn'[c]]
    BY Zenon DEF Refuse
  <2> QED
    BY <2>2, <2>3, Zenon
<1>5. Handlers' = Handlers
  <2>1. \A c \in Conns : conn'[c] \in Handling <=> conn[c] \in Handling
    BY Zenon, <1>2, <1>3 DEF Handling, Stages
  <2> QED
    BY Zenon, <2>1 DEF Handlers
<1>6. \A c \in Conns : conn[c] = "accepted" => conn'[c] = "accepted"
  BY Zenon, <1>2 DEF Stages
<1>7. \A c \in Conns : conn'[c] = "append" <=> conn[c] = "append"
  BY Zenon, <1>2, <1>3 DEF Stages
<1> QED
  BY Zenon, <1>4, <1>5, <1>6, <1>7

\* The accept loops go on as before, when conn changes like this.
LEMMA SameAccept ==
  ASSUME Typed, AcceptOK, UNCHANGED <<accepting, acceptor>>,
         \A c \in Conns : conn[c] = "accepted" => conn'[c] = "accepted"
  PROVE  AcceptOK'
<1>1. \A l \in Listeners : acceptor[l] # None => acceptor[l] \in Conns
  BY Zenon DEF Typed
<1> QED
  BY <1>1, Zenon DEF AcceptOK

\* The log is loaded, or Serve fails.
LEMMA LoadStep ==
  ASSUME Load, Inv PROVE Inv'
<1>0. Typed /\ AcceptOK /\ CountOK /\ LockOK /\ PhaseOK
  BY Zenon DEF Inv
<1>1. phase = "loading" /\ UNCHANGED <<acceptor, connWG, writeMu>>
  BY Zenon DEF Load
<1>2. accepting = {} /\ running = {} /\ Handlers = {} /\ ~logOpen /\ \A l \in Listeners : acceptor[l] = None
  BY Zenon, <1>0, <1>1 DEF PhaseOK, AcceptOK
<1>3. AcceptOK'
  BY Zenon, <1>1, <1>2 DEF AcceptOK
<1>4. CASE phase' = "serving"
  <2>1. logOpen' = TRUE /\ running' = Background /\ accepting' = Listeners /\ conn' = conn
    BY Zenon, <1>4 DEF Load
  <2>2. Typed'
    BY Zenon, <1>0, <1>1, <1>4, <2>1 DEF Typed
  <2>3. CountOK' /\ Handlers' = Handlers
    BY Zenon, <1>0, <1>1, <2>1 DEF CountOK, Handlers
  <2>4. LockOK'
    BY Zenon, <1>0, <1>1, <2>1, ServeAssumption DEF LockOK
  <2>5. PhaseOK'
    BY Zenon, <1>4, <2>1 DEF PhaseOK
  <2> QED
    BY Zenon, <1>3, <2>2, <2>3, <2>4, <2>5 DEF Inv
<1>5. CASE phase' = "failed"
  <2>1. Refuse(Listeners) /\ UNCHANGED <<logOpen, running, accepting>>
    BY Zenon, <1>5 DEF Load
  <2>2. /\ conn' \in [Conns -> Listeners \cup Stages] /\ Handlers' = Handlers
        /\ \A c \in Conns : conn'[c] = "append" <=> conn[c] = "append"
    BY Zenon, <1>0, <2>1, RefuseFacts
  <2>3. Typed'
    BY Zenon, <1>0, <1>1, <1>5, <2>1, <2>2 DEF Typed
  <2>4. CountOK'
    BY Zenon, <1>0, <1>1, <2>2 DEF CountOK
  <2>5. LockOK'
    BY Zenon, <1>0, <1>1, <2>1, <2>2 DEF LockOK
  <2>6. PhaseOK'
    BY Zenon, <1>2, <1>5, <2>1, <2>2 DEF PhaseOK
  <2> QED
    BY Zenon, <1>3, <2>3, <2>4, <2>5, <2>6 DEF Inv
<1> QED
  BY Zenon, <1>4, <1>5 DEF Load

\* A listener is closed.
LEMMA CloseListenerStep ==
  ASSUME NEW l \in Listeners, CloseListener(l), Inv PROVE Inv'
<1>0. Typed /\ AcceptOK /\ CountOK /\ LockOK /\ PhaseOK
  BY Zenon DEF Inv
<1>1. Refuse({l}) /\ UNCHANGED <<phase, logOpen, acceptor, accepting, connWG, writeMu, running>>
  BY Zenon DEF CloseListener, main, back
<1>2. /\ conn' \in [Conns -> Listeners \cup Stages] /\ Handlers' = Handlers
      /\ \A c \in Conns : conn[c] = "accepted" => conn'[c] = "accepted"
      /\ \A c \in Conns : conn'[c] = "append" <=> conn[c] = "append"
  <2>1. {l} \subseteq Listeners
    BY Zenon
  <2> QED
    BY Zenon, <1>0, <1>1, <2>1, RefuseFacts
<1>3. Typed' /\ CountOK' /\ PhaseOK'
  BY <1>0, <1>1, <1>2, Zenon DEF Typed, CountOK, PhaseOK
<1>4. AcceptOK'
  BY Zenon, <1>0, <1>1, <1>2, SameAccept
<1>5. LockOK'
  BY Zenon, <1>0, <1>1, <1>2 DEF LockOK
<1> QED
  BY Zenon, <1>3, <1>4, <1>5 DEF Inv

\* An accept loop takes a connection.
LEMMA AcceptStep ==
  ASSUME NEW l \in Listeners, NEW c \in Conns, Accept(l, c), Inv PROVE Inv'
<1>0. Typed /\ AcceptOK /\ CountOK /\ LockOK /\ PhaseOK
  BY Zenon DEF Inv
<1>1. /\ l \in accepting /\ acceptor[l] = None /\ conn[c] = l /\ acceptor' = [acceptor EXCEPT ![l] = c]
      /\ conn' = [conn EXCEPT ![c] = "accepted"]
      /\ UNCHANGED <<phase, logOpen, accepting, connWG, writeMu, running>>
  BY Zenon DEF Accept, main, back
<1>2. conn[c] \notin Stages
  BY Zenon, <1>1, StagesApart
<1>3. conn'[c] = "accepted" /\ (\A d \in Conns : d # c => conn'[d] = conn[d]) /\ Handlers' = Handlers
  <2>1. "accepted" \notin Handling /\ conn[c] \notin Handling
    BY Zenon, <1>2 DEF Handling, Stages
  <2> QED
    BY <1>0, <1>1, <2>1, HandlersMove, Zenon
<1>4. acceptor'[l] = c /\ \A m \in Listeners : m # l => acceptor'[m] = acceptor[m]
  BY Zenon, <1>0, <1>1 DEF Typed
<1>5. Typed'
  <2>1. conn' \in [Conns -> Listeners \cup Stages]
    BY Zenon, <1>0, <1>1 DEF Typed, Stages
  <2>2. acceptor' \in [Listeners -> Conns \cup {None}]
    BY Zenon, <1>0, <1>1 DEF Typed
  <2> QED
    BY <1>0, <1>1, <2>1, <2>2, Zenon DEF Typed
<1>6. AcceptOK'
  <2>1. \A m \in Listeners : acceptor[m] # None => acceptor[m] \in Conns /\ conn[acceptor[m]] = "accepted"
    BY <1>0, Zenon DEF Typed, AcceptOK
  <2>2. conn[c] # "accepted"
    BY Zenon, <1>2 DEF Stages
  <2>3. \A m \in Listeners : acceptor[m] # c
    BY Zenon, <2>1, <2>2, ServeAssumption
  <2>4. \A m \in Listeners : acceptor'[m] # None => m \in accepting /\ conn'[acceptor'[m]] = "accepted"
    BY <1>0, <1>1, <1>3, <1>4, <2>1 DEF AcceptOK
  <2>5. \A m, k \in Listeners : acceptor'[m] # None /\ k # m => acceptor'[k] # acceptor'[m]
    BY Zenon, <1>0, <1>4, <2>3 DEF AcceptOK
  <2> QED
    BY Zenon, <1>1, <2>4, <2>5 DEF AcceptOK
<1>7. CountOK' /\ PhaseOK'
  BY <1>0, <1>1, <1>3, Zenon DEF CountOK, PhaseOK
<1>8. LockOK'
  <2>1. conn[c] # "append"
    BY Zenon, <1>2 DEF Stages
  <2> QED
    BY Zenon, <1>0, <1>1, <1>3, <2>1 DEF LockOK
<1> QED
  BY Zenon, <1>5, <1>6, <1>7, <1>8 DEF Inv

\* An accept loop ends: it has no connection in hand.
LEMMA AcceptEndsStep ==
  ASSUME NEW l \in Listeners, AcceptEnds(l), Inv PROVE Inv'
<1>0. Typed /\ AcceptOK /\ CountOK /\ LockOK /\ PhaseOK
  BY Zenon DEF Inv
<1>1. /\ l \in accepting /\ acceptor[l] = None /\ accepting' = accepting \ {l}
      /\ UNCHANGED <<phase, logOpen, acceptor, connWG, writeMu, running, conn>>
  BY Zenon DEF AcceptEnds, main, back
<1>2. Handlers' = Handlers
  BY Zenon, <1>1 DEF Handlers
<1>3. Typed'
  BY Zenon, <1>0, <1>1 DEF Typed
<1>4. AcceptOK'
  BY Zenon, <1>0, <1>1 DEF AcceptOK
<1>5. CountOK' /\ LockOK'
  BY <1>0, <1>1, <1>2, Zenon DEF CountOK, LockOK
<1>6. PhaseOK'
  BY Zenon, <1>0, <1>1, <1>2 DEF PhaseOK
<1> QED
  BY Zenon, <1>3, <1>4, <1>5, <1>6 DEF Inv

\* A background goroutine rewrites the log or ends.
LEMMA BackgroundStep ==
  ASSUME rewriteAOF \/ RewriteEnds \/ \E b \in Background : Stop(b), Inv PROVE Inv'
<1>0. Typed /\ AcceptOK /\ CountOK /\ LockOK /\ PhaseOK
  BY Zenon DEF Inv
<1>1. /\ UNCHANGED <<phase, logOpen, acceptor, accepting, connWG, conn>>
      /\ running' \subseteq running /\ writeMu' \in {writeMu, Rewriter, None}
  BY Zenon DEF rewriteAOF, RewriteEnds, Stop, main, loops
<1>2. Handlers' = Handlers
  BY Zenon, <1>1 DEF Handlers
<1>3. Typed'
  BY Zenon, <1>0, <1>1 DEF Typed
<1>4. AcceptOK' /\ CountOK'
  BY <1>0, <1>1, <1>2, Zenon DEF AcceptOK, CountOK
<1>5. LockOK'
  <2>1. CASE rewriteAOF
    BY Zenon, <1>0, <1>1, <2>1, ServeAssumption DEF LockOK, rewriteAOF
  <2>2. CASE RewriteEnds
    BY Zenon, <1>0, <1>1, <2>2, ServeAssumption DEF LockOK, RewriteEnds
  <2>3. CASE \E b \in Background : Stop(b)
    BY Zenon, <1>0, <1>1, <2>3 DEF LockOK, Stop
  <2> QED
    BY Zenon, <2>1, <2>2, <2>3
<1>6. PhaseOK'
  BY Zenon, <1>0, <1>1, <1>2 DEF PhaseOK
<1> QED
  BY Zenon, <1>3, <1>4, <1>5, <1>6 DEF Inv

\* A handler reads a request, or the end of the stream.
LEMMA ReadStep ==
  ASSUME NEW c \in Conns, Read(c), Inv PROVE Inv'
<1>1. \A v : Route(v) \in {"closing", "apply", "reply"}
  BY Zenon DEF Route
<1>2. PICK y \in {"closing", "apply", "reply"} : conn' = [conn EXCEPT ![c] = y]
  <2>1. CASE Decoded[c][taken[c]][sent[c]].err = "nil"
    BY <1>1, <2>1, Zenon DEF Read
  <2>2. CASE Decoded[c][taken[c]][sent[c]].err # "nil"
    BY <2>2, Zenon DEF Read
  <2> QED
    BY <2>1, <2>2, Zenon
<1>3. /\ conn[c] = "read" /\ UNCHANGED <<phase, logOpen, accepting, acceptor, connWG, writeMu, running>>
  BY Zenon DEF Read, main, loops, back
<1>4. conn[c] \in Handling \ {"append"} /\ y \in Handling \ {"append"}
  BY Zenon, <1>3 DEF Handling
<1> QED
  BY <1>2, <1>3, <1>4, GoesOn, Zenon

\* A read fails.
LEMMA ReadFailsStep ==
  ASSUME NEW c \in Conns, ReadFails(c), Inv PROVE Inv'
<1>1. /\ conn[c] = "read" /\ conn' = [conn EXCEPT ![c] = "closing"]
      /\ UNCHANGED <<phase, logOpen, accepting, acceptor, connWG, writeMu, running>>
  BY Zenon DEF ReadFails, main, loops, back
<1>2. conn[c] \in Handling \ {"append"} /\ "closing" \in Handling \ {"append"}
  BY Zenon, <1>1 DEF Handling
<1> QED
  BY <1>1, <1>2, GoesOn, Zenon

\* A handler takes the lock for its write and gives it back.
LEMMA ApplyStep ==
  ASSUME NEW c \in Conns, Apply(c) \/ Append_(c), Inv PROVE Inv'
<1>0. Typed /\ AcceptOK /\ CountOK /\ LockOK /\ PhaseOK
  BY Zenon DEF Inv
<1>1. PICK y \in {"append", "reply"} : conn' = [conn EXCEPT ![c] = y]
  BY Zenon DEF Apply, Append_
<1>2. /\ conn[c] \in {"apply", "append"} /\ writeMu' \in {c, None}
      /\ UNCHANGED <<phase, logOpen, accepting, acceptor, connWG, running>>
  BY Zenon DEF Apply, Append_, main, loops
<1>3. conn'[c] = y /\ (\A d \in Conns : d # c => conn'[d] = conn[d]) /\ Handlers' = Handlers
  <2>1. y \in Handling /\ conn[c] \in Handling
    BY Zenon, <1>1, <1>2 DEF Handling
  <2> QED
    BY <1>0, <1>1, <2>1, HandlersMove, Zenon
<1>4. Typed'
  <2>1. conn' \in [Conns -> Listeners \cup Stages]
    BY <1>0, <1>1, Zenon DEF Typed, Stages
  <2> QED
    BY Zenon, <1>0, <1>2, <2>1 DEF Typed
<1>5. AcceptOK'
  <2>1. \A d \in Conns : conn[d] = "accepted" => conn'[d] = "accepted"
    BY Zenon, <1>2, <1>3
  <2> QED
    BY <1>0, <1>2, <2>1, SameAccept, Zenon
<1>6. CountOK' /\ PhaseOK'
  BY <1>0, <1>2, <1>3, Zenon DEF CountOK, PhaseOK
<1>7. LockOK'
  <2>1. CASE Apply(c)
    <3>1. writeMu = None /\ writeMu' = c /\ conn'[c] = "append"
      BY Zenon, <1>0, <2>1 DEF Apply, Typed
    <3> QED
      BY Zenon, <1>0, <1>2, <1>3, <3>1, ServeAssumption DEF LockOK
  <2>2. CASE Append_(c)
    <3>1. writeMu = c /\ writeMu' = None /\ conn'[c] = "reply"
      BY Zenon, <1>0, <2>2 DEF Append_, Typed, LockOK
    <3> QED
      BY Zenon, <1>0, <1>2, <1>3, <3>1, ServeAssumption DEF LockOK
  <2> QED
    BY Zenon, <2>1, <2>2
<1> QED
  BY Zenon, <1>4, <1>5, <1>6, <1>7 DEF Inv

\* A handler replies.
LEMMA ReplyStep ==
  ASSUME NEW c \in Conns, Reply(c), Inv PROVE Inv'
<1>1. PICK y \in {"read", "closing"} : conn' = [conn EXCEPT ![c] = y]
  BY Zenon DEF Reply
<1>2. /\ conn[c] = "reply" /\ UNCHANGED <<phase, logOpen, accepting, acceptor, connWG, writeMu, running>>
  BY Zenon DEF Reply, main, loops, back
<1>3. conn[c] \in Handling \ {"append"} /\ y \in Handling \ {"append"}
  BY Zenon, <1>2 DEF Handling
<1> QED
  BY <1>1, <1>2, <1>3, GoesOn, Zenon

\* A client dials a listener.
LEMMA ConnectStep ==
  ASSUME NEW c \in Conns, Connect(c), Inv PROVE Inv'
<1>0. Typed /\ AcceptOK /\ CountOK /\ LockOK /\ PhaseOK
  BY Zenon DEF Inv
<1> DEFINE l == Script[c].dials
<1>1. /\ conn[c] = "none" /\ conn' = [conn EXCEPT ![c] = l]
      /\ UNCHANGED <<phase, logOpen, accepting, acceptor, connWG, writeMu, running>>
  BY Zenon DEF Connect, main, loops, back
<1>2. l \in Listeners /\ l \notin Stages
  BY Zenon, ServeAssumption
<1> HIDE DEF l
<1>3. conn'[c] = l /\ (\A d \in Conns : d # c => conn'[d] = conn[d]) /\ Handlers' = Handlers
  <2>1. l \notin Handling /\ conn[c] \notin Handling
    BY Zenon, <1>1, <1>2 DEF Handling, Stages
  <2> QED
    BY <1>0, <1>1, <2>1, HandlersMove, Zenon
<1>4. Typed'
  <2>1. conn' \in [Conns -> Listeners \cup Stages]
    BY <1>0, <1>1, <1>2, Zenon DEF Typed
  <2> QED
    BY <1>0, <1>1, <2>1, Zenon DEF Typed
<1>5. AcceptOK'
  <2>1. \A d \in Conns : conn[d] = "accepted" => conn'[d] = "accepted"
    BY Zenon, <1>1, <1>3
  <2> QED
    BY <1>0, <1>1, <2>1, SameAccept, Zenon
<1>6. CountOK' /\ PhaseOK'
  BY <1>0, <1>1, <1>3, Zenon DEF CountOK, PhaseOK
<1>7. LockOK'
  <2>1. conn[c] # "append" /\ l # "append"
    BY Zenon, <1>1, <1>2 DEF Stages
  <2> QED
    BY Zenon, <1>0, <1>1, <1>3, <2>1 DEF LockOK
<1> QED
  BY Zenon, <1>4, <1>5, <1>6, <1>7 DEF Inv

-----------------------------------------------------------------------------
(* The bytes of a connection.                                              *)

\* What is known of a connection that is at this point, with this peer, so many bytes
\* sent and taken, these requests served, and this end.  What was taken are whole
\* frames, and those were served.
Proper(c, at, peer, out, in, reqs, why) ==
  /\ peer \in {"there", "left"} /\ out \in Nat /\ in \in Nat /\ in <= out /\ out <= Len(Bytes[c])
  /\ why \in {"no", "EOF", "ErrUnexpectedEOF", "protocol", "readError", "QUIT", "write"}
  /\ at \notin Handling => in = 0 /\ reqs = <<>>
  /\ why # "no" => at = "closing"
  /\ why \in {"EOF", "ErrUnexpectedEOF", "readError"} => peer = "left"
  /\ \E n \in 0 .. Len(Script[c].frames) :
       /\ reqs = SubSeq(Script[c].frames, 1, n) /\ in = FrameEnd[c][n]
       /\ why = "EOF" => out = in
       /\ why = "protocol" => n = Len(Script[c].frames) /\ out > in
       /\ why = "ErrUnexpectedEOF" =>
            out > in /\ (n < Len(Script[c].frames) => out < FrameEnd[c][n + 1])

\* The types of the variables that Typed leaves out.
IoTyped ==
  /\ cancelled \in BOOLEAN /\ open \subseteq Listeners /\ rewrites \in Nat
  /\ DOMAIN client = Conns /\ DOMAIN sent = Conns /\ DOMAIN taken = Conns
  /\ DOMAIN served = Conns /\ DOMAIN ended = Conns

\* Every connection is as it should be.
StreamOK ==
  \A c \in Conns : Proper(c, conn[c], client[c], sent[c], taken[c], served[c], ended[c])

\* Where the frames of a connection end.
LEMMA FrameEnds ==
  ASSUME NEW c \in Conns
  PROVE  /\ Len(Script[c].frames) \in Nat /\ FrameEnd[c][0] = 0
         /\ \A i \in 1 .. Len(Script[c].frames) :
              IsFrame(Script[c].frames[i]) /\ Encoded[c][i] = Encode(Script[c].frames[i])
         /\ \A n \in 0 .. Len(Script[c].frames) :
              FrameEnd[c][n] \in Nat /\ FrameEnd[c][n] = Len(Concat(Encoded[c], n))
<1> DEFINE vs == Script[c].frames
<1>1. IsSeq(vs) /\ \A i \in DOMAIN vs : IsFrame(vs[i])
  BY Zenon, ServeAssumption
<1> HIDE DEF vs
<1>2. Len(vs) \in Nat /\ DOMAIN vs = 1 .. Len(vs)
  BY Zenon, <1>1, SeqLen DEF IsSeq
<1>3. PICK N \in Nat : N = Len(vs)
  BY Zenon, <1>2
<1> DEFINE E == Encoded[c]
<1>4. \A i \in 1 .. N : IsFrame(vs[i]) /\ E[i] = Encode(vs[i])
  BY Zenon, <1>1, <1>2, <1>3 DEF Encoded, vs
<1>5. \A n \in 0 .. N : FrameEnd[c][n] = Len(Concat(E, n))
  BY Zenon, <1>3 DEF FrameEnd, vs
<1> HIDE DEF E
<1>6. \A i \in 1 .. N : E[i] \in Seq(Byte)
  BY Zenon, <1>4, CodedFrames DEF CodedFrame
<1>7. Len(Concat(E, 0)) = 0 /\ \A n \in 0 .. N : Len(Concat(E, n)) \in Nat
  BY Zenon, <1>6, ConcatLen
<1>8. 0 \in 0 .. N
  OBVIOUS
<1> QED
  BY Zenon, <1>2, <1>3, <1>4, <1>5, <1>7, <1>8 DEF vs, E

\* What a client sends are bytes.
LEMMA BytesType ==
  ASSUME NEW c \in Conns
  PROVE  Bytes[c] \in Seq(Byte) /\ Len(Bytes[c]) \in Nat
<1> DEFINE vs == Script[c].frames
           E == Encoded[c]
           junk == Script[c].junk
<1>1. PICK N \in Nat : N = Len(vs)
  BY Zenon, FrameEnds
<1>2. \A i \in 1 .. N : E[i] \in Seq(Byte)
  <2>1. \A i \in 1 .. N : IsFrame(vs[i]) /\ E[i] = Encode(vs[i])
    BY Zenon, <1>1, FrameEnds
  <2> QED
    BY Zenon, <2>1, CodedFrames DEF CodedFrame
<1>3. N \in 0 .. N
  OBVIOUS
<1>4. Concat(E, N) \in Seq(Byte) /\ junk \in Seq(Byte)
  BY Zenon, <1>2, <1>3, ConcatType, ServeAssumption
<1>5. Bytes[c] = Concat(E, N) \o junk
  BY Zenon, <1>1 DEF Bytes
<1> HIDE DEF E, junk
<1> QED
  BY <1>4, <1>5

\* What reading behind the first n frames, from a on, gives when bytes up to j are there:
\* the next frame if it is whole, and else the error that fits.
ReadAs(c, n, a, j, r) ==
  /\ n < Len(Script[c].frames) /\ FrameEnd[c][n + 1] <= j =>
       r = Ok(Script[c].frames[n + 1], FrameEnd[c][n + 1] - a + 1)
  /\ n < Len(Script[c].frames) /\ ~(FrameEnd[c][n + 1] <= j) =>
       r = Err(IF j = a THEN "EOF" ELSE "ErrUnexpectedEOF")
  /\ n = Len(Script[c].frames) => r = Err(IF j = a THEN "EOF" ELSE "protocol")

\* What Decode makes of the bytes behind a frame.
LEMMA Reading ==
  ASSUME NEW c \in Conns, NEW n \in 0 .. Len(Script[c].frames), NEW a \in Nat, a = FrameEnd[c][n],
         NEW j \in Nat, a <= j, j <= Len(Bytes[c])
  PROVE  ReadAs(c, n, a, j, Decoded[c][a][j])
<1> DEFINE vs == Script[c].frames
           E == Encoded[c]
           junk == Script[c].junk
           b == Bytes[c]
<1>1. PICK N \in Nat : N = Len(vs)
  BY Zenon, FrameEnds
<1>2. /\ \A i \in 1 .. N : IsFrame(vs[i]) /\ E[i] = Encode(vs[i])
      /\ \A k \in 0 .. N : FrameEnd[c][k] = Len(Concat(E, k))
  BY Zenon, <1>1, FrameEnds
<1>3. junk \in Seq(Byte) /\ (junk # <<>> => junk[1] \notin {"+", "-", ":", "$", "*"})
  BY Zenon, ServeAssumption
<1>4. b = Concat(E, N) \o junk
  BY Zenon, <1>1 DEF Bytes
<1>5. Decoded[c][a][j] = Decode(SubSeq(b, a + 1, j))
  <2>1. b \in Seq(Byte)
    BY Zenon, BytesType
  <2>2. a \in 0 .. Len(b) /\ j \in 0 .. Len(b)
    <3>1. j <= Len(b)
      BY Zenon
    <3> HIDE DEF b
    <3> QED
      BY <2>1, <3>1
  <2> QED
    BY Zenon, <2>2 DEF Decoded
<1>6. a = Len(Concat(E, n)) /\ n \in 0 .. N /\ j <= Len(b) /\ Stream(b, vs, N, E, junk)
  BY Zenon, <1>1, <1>2, <1>3, <1>4 DEF Stream
<1> DEFINE D == Decode(SubSeq(b, a + 1, j))
<1>7. /\ n < N /\ Len(Concat(E, n + 1)) <= j => D = Ok(vs[n + 1], Len(Concat(E, n + 1)) - a + 1)
      /\ n < N /\ ~(Len(Concat(E, n + 1)) <= j) => D = Err(IF j = a THEN "EOF" ELSE "ErrUnexpectedEOF")
      /\ n = N => D = Err(IF j = a THEN "EOF" ELSE "protocol")
  <2> HIDE DEF vs, E, junk, b
  <2> QED
    BY <1>6, Framing
<1>8. n < N => n + 1 \in 0 .. N
  BY <1>6
<1>9. n < N => FrameEnd[c][n + 1] = Len(Concat(E, n + 1))
  BY Zenon, <1>2, <1>8
<1> HIDE DEF D
<1>10. Decoded[c][a][j] = D
  BY Zenon, <1>5 DEF D
<1> QED
  BY Zenon, <1>1, <1>7, <1>9, <1>10 DEF ReadAs

\* The number of a frame that is not the last, and of the next one.
LEMMA NextIndex ==
  ASSUME NEW N \in Nat, NEW n \in 0 .. N
  PROVE  (n < N \/ n = N) /\ (n < N => n \in 0 .. N - 1 /\ n + 1 \in 0 .. N)
  OBVIOUS

\* Positions in a stream: from a frame's length to its end, and which comes first.
LEMMA PositionFacts ==
  ASSUME NEW a \in Nat, NEW b \in Nat
  PROVE  a + (b - a + 1) - 1 = b /\ (~(b <= a) => a < b)
  OBVIOUS

\* An error that Decode returns.
LEMMA ErrPart ==
  \A e : Err(e).err = e
  BY Zenon DEF Err

\* The frames of a connection, one after the other.
LEMMA FramesGrow ==
  ASSUME NEW c \in Conns
  PROVE  /\ SubSeq(Script[c].frames, 1, 0) = <<>>
         /\ \A n \in 0 .. Len(Script[c].frames) : Len(SubSeq(Script[c].frames, 1, n)) = n
         /\ \A n \in 0 .. Len(Script[c].frames) - 1 :
              SubSeq(Script[c].frames, 1, n + 1) = Append(SubSeq(Script[c].frames, 1, n), Script[c].frames[n + 1])
<1> DEFINE vs == Script[c].frames
<1>1. PICK S : vs \in Seq(S)
  BY Zenon, ServeAssumption DEF IsSeq
<1> HIDE DEF vs
<1>2. SubSeq(vs, 1, 0) = <<>>
  BY <1>1
<1>3. ASSUME NEW n \in 0 .. Len(vs) - 1 PROVE SubSeq(vs, 1, n + 1) = Append(SubSeq(vs, 1, n), vs[n + 1])
  BY <1>1, <1>3
<1>4. ASSUME NEW n \in 0 .. Len(vs) PROVE Len(SubSeq(vs, 1, n)) = n
  BY <1>1, <1>4
<1> QED
  BY Zenon, <1>2, <1>3, <1>4 DEF vs

\* A connection of which nothing was read.
LEMMA ProperFresh ==
  ASSUME NEW c \in Conns, NEW at, NEW peer \in {"there", "left"}
  PROVE  Proper(c, at, peer, 0, 0, <<>>, "no")
<1>1. 0 \in 0 .. Len(Script[c].frames) /\ <<>> = SubSeq(Script[c].frames, 1, 0) /\ 0 = FrameEnd[c][0]
  BY FrameEnds, FramesGrow
<1>2. 0 \in Nat /\ 0 <= 0 /\ 0 <= Len(Bytes[c])
  BY BytesType
<1> QED
  BY Zenon, <1>1, <1>2 DEF Proper

\* The handler goes on, or a connection without one moves.
LEMMA ProperMoves ==
  ASSUME NEW c \in Conns, NEW at, NEW peer, NEW out, NEW in, NEW reqs, NEW why,
         Proper(c, at, peer, out, in, reqs, why), why = "no",
         NEW to, at \in Handling => to \in Handling
  PROVE  Proper(c, to, peer, out, in, reqs, why)
  BY Zenon DEF Proper

\* The handler ends for a reason of its own.
LEMMA ProperStops ==
  ASSUME NEW c \in Conns, NEW at \in Handling, NEW peer, NEW out, NEW in, NEW reqs, NEW why,
         Proper(c, at, peer, out, in, reqs, why), NEW end \in {"QUIT", "write"}
  PROVE  Proper(c, "closing", peer, out, in, reqs, end)
<1>1. /\ "closing" \in Handling /\ end # "EOF" /\ end # "protocol"
      /\ end # "ErrUnexpectedEOF" /\ end # "readError"
  BY Zenon DEF Handling
<1> QED
  BY Zenon, <1>1 DEF Proper

\* The handler cannot read any more: its client has left.
LEMMA ProperFails ==
  ASSUME NEW c \in Conns, NEW at \in Handling, NEW out, NEW in, NEW reqs, NEW why,
         Proper(c, at, "left", out, in, reqs, why)
  PROVE  Proper(c, "closing", "left", out, in, reqs, "readError")
<1>1. "closing" \in Handling
  BY Zenon DEF Handling
<1> QED
  BY Zenon, <1>1 DEF Proper

\* The client sends more.
LEMMA ProperSends ==
  ASSUME NEW c \in Conns, NEW at, NEW out, NEW in, NEW reqs, NEW why,
         Proper(c, at, "there", out, in, reqs, why),
         NEW more \in Nat, more > out, more <= Len(Bytes[c])
  PROVE  Proper(c, at, "there", more, in, reqs, why)
<1>1. in \in Nat /\ out \in Nat /\ in <= out /\ in <= more /\ (out > in => more > in)
  BY DEF Proper
<1>2. why # "EOF" /\ why # "ErrUnexpectedEOF"
  BY Zenon DEF Proper
<1> QED
  BY Zenon, <1>1, <1>2 DEF Proper

\* The client leaves.
LEMMA ProperLeaves ==
  ASSUME NEW c \in Conns, NEW at, NEW peer, NEW out, NEW in, NEW reqs, NEW why,
         Proper(c, at, peer, out, in, reqs, why)
  PROVE  Proper(c, at, "left", out, in, reqs, why)
  BY Zenon DEF Proper

\* The handler reads: a request is the next frame, and an end is judged right.
LEMMA ProperReads ==
  ASSUME NEW c \in Conns, NEW peer, NEW out, NEW in, NEW reqs,
         Proper(c, "read", peer, out, in, reqs, "no"),
         NEW r, r = Decoded[c][in][out], r.err \in {"EOF", "ErrUnexpectedEOF"} => peer = "left"
  PROVE  /\ r.err = "nil" =>
              \A at \in Handling : Proper(c, at, peer, out, in + r.next - 1, Append(reqs, r.val), "no")
         /\ r.err # "nil" => Proper(c, "closing", peer, out, in, reqs, r.err)
<1> DEFINE vs == Script[c].frames
           F == FrameEnd[c]
<1>1. /\ peer \in {"there", "left"} /\ out \in Nat /\ in \in Nat /\ in <= out /\ out <= Len(Bytes[c])
  BY Zenon DEF Proper
<1>2. PICK n \in 0 .. Len(vs) : reqs = SubSeq(vs, 1, n) /\ in = F[n]
  BY Zenon DEF Proper
<1>3. PICK N \in Nat : N = Len(vs)
  BY Zenon, FrameEnds
<1>4. \A k \in 0 .. N : F[k] \in Nat
  BY Zenon, <1>3, FrameEnds
<1>5. /\ n < N /\ F[n + 1] <= out => r = Ok(vs[n + 1], F[n + 1] - in + 1)
      /\ n < N /\ ~(F[n + 1] <= out) => r = Err(IF out = in THEN "EOF" ELSE "ErrUnexpectedEOF")
      /\ n = N => r = Err(IF out = in THEN "EOF" ELSE "protocol")
  <2>1. ReadAs(c, n, in, out, r)
    BY Zenon, <1>1, <1>2, Reading
  <2> QED
    BY Zenon, <1>3, <2>1 DEF ReadAs
<1>6. \A k \in 0 .. N - 1 : SubSeq(vs, 1, k + 1) = Append(SubSeq(vs, 1, k), vs[k + 1])
  BY Zenon, <1>3, FramesGrow
<1> HIDE DEF vs, F
<1>7. CASE n < N /\ F[n + 1] <= out
  <2>1. r.err = "nil" /\ r.val = vs[n + 1] /\ r.next = F[n + 1] - in + 1
    <3>1. r = Ok(vs[n + 1], F[n + 1] - in + 1)
      BY Zenon, <1>5, <1>7
    <3> QED
      BY <3>1 DEF Ok
  <2>2. PICK m \in 0 .. N : m = n + 1 /\ n \in 0 .. N - 1
    BY Zenon, <1>2, <1>3, <1>7, NextIndex
  <2>3. F[m] \in Nat /\ F[m] <= out
    BY Zenon, <1>4, <1>7, <2>2
  <2>4. in + r.next - 1 = F[m]
    <3>1. r.next = F[m] - in + 1
      BY Zenon, <2>1, <2>2
    <3>2. in + (F[m] - in + 1) - 1 = F[m]
      BY Zenon, <1>1, <2>3, PositionFacts
    <3> QED
      BY Zenon, <3>1, <3>2
  <2>5. Append(reqs, r.val) = SubSeq(vs, 1, m)
    BY Zenon, <1>2, <1>6, <2>1, <2>2
  <2>6. m \in 0 .. Len(vs)
    BY Zenon, <1>3
  <2>7. \A at \in Handling : Proper(c, at, peer, out, F[m], SubSeq(vs, 1, m), "no")
    BY Zenon, <1>1, <2>3, <2>6 DEF Proper, vs, F
  <2> QED
    BY Zenon, <2>1, <2>4, <2>5, <2>7
<1>8. CASE n < N /\ ~(F[n + 1] <= out)
  <2> DEFINE e == IF out = in THEN "EOF" ELSE "ErrUnexpectedEOF"
  <2>1. r.err = e
    BY Zenon, <1>5, <1>8, ErrPart
  <2>2. /\ e # "nil" /\ e \in {"EOF", "ErrUnexpectedEOF"}
        /\ (e = "EOF" => out = in) /\ (e = "ErrUnexpectedEOF" => out > in)
    BY <1>1
  <2>3. PICK m \in 0 .. N : m = n + 1
    BY Zenon, <1>2, <1>3, <1>8, NextIndex
  <2>4. out < F[n + 1]
    BY Zenon, <1>1, <1>4, <1>8, <2>3, PositionFacts
  <2> HIDE DEF e
  <2>5. Proper(c, "closing", peer, out, in, reqs, e)
    <3>1. /\ e # "protocol" /\ e # "readError"
          /\ e \in {"no", "EOF", "ErrUnexpectedEOF", "protocol", "readError", "QUIT", "write"}
          /\ "closing" \in Handling
      BY Zenon, <2>2 DEF Handling
    <3>2. peer = "left"
      BY Zenon, <2>1, <2>2
    <3> QED
      BY Zenon, <1>1, <1>2, <2>2, <2>4, <3>1, <3>2 DEF Proper, vs, F
  <2> QED
    BY Zenon, <2>1, <2>2, <2>5
<1>9. CASE n = N
  <2> DEFINE e == IF out = in THEN "EOF" ELSE "protocol"
  <2>1. r.err = e
    BY Zenon, <1>5, <1>9, ErrPart
  <2>2. e # "nil" /\ e \in {"EOF", "protocol"} /\ (e = "EOF" => out = in) /\ (e = "protocol" => out > in)
    BY <1>1
  <2> HIDE DEF e
  <2>3. Proper(c, "closing", peer, out, in, reqs, e)
    <3>1. /\ e # "ErrUnexpectedEOF" /\ e # "readError"
          /\ e \in {"no", "EOF", "ErrUnexpectedEOF", "protocol", "readError", "QUIT", "write"}
          /\ "closing" \in Handling
      BY Zenon, <2>2 DEF Handling
    <3>2. e = "EOF" => peer = "left"
      BY Zenon, <2>1
    <3> QED
      BY Zenon, <1>1, <1>2, <1>3, <1>9, <2>2, <3>1, <3>2 DEF Proper, vs, F
  <2> QED
    BY Zenon, <2>1, <2>2, <2>3
<1>10. n < N \/ n = N
  BY Zenon, <1>2, <1>3, NextIndex
<1> QED
  BY Zenon, <1>7, <1>8, <1>9, <1>10

-----------------------------------------------------------------------------
(* Every action keeps what is known of the connections.                    *)

\* Both together.
IoInv == IoTyped /\ StreamOK

\* Only one connection changes.
LEMMA OneConn ==
  ASSUME StreamOK, NEW c \in Conns,
         \A d \in Conns : d # c =>
           /\ conn'[d] = conn[d] /\ client'[d] = client[d] /\ sent'[d] = sent[d]
           /\ taken'[d] = taken[d] /\ served'[d] = served[d] /\ ended'[d] = ended[d],
         Proper(c, conn'[c], client'[c], sent'[c], taken'[c], served'[c], ended'[c])
  PROVE  StreamOK'
  BY Zenon DEF StreamOK

\* A connection goes to another state, and nothing else of it changes.
LEMMA ConnMoves ==
  ASSUME Typed, IoInv, NEW c \in Conns, NEW y, conn' = [conn EXCEPT ![c] = y], UNCHANGED io,
         conn[c] # "closing", conn[c] \in Handling => y \in Handling
  PROVE  StreamOK'
<1>1. conn'[c] = y /\ \A d \in Conns : d # c => conn'[d] = conn[d]
  BY Zenon DEF Typed
<1>2. Proper(c, conn[c], client[c], sent[c], taken[c], served[c], ended[c])
  BY Zenon DEF IoInv, StreamOK
<1>3. ended[c] = "no"
  BY Zenon, <1>2 DEF Proper
<1>4. Proper(c, y, client[c], sent[c], taken[c], served[c], ended[c])
  BY Zenon, <1>2, <1>3, ProperMoves
<1>5. StreamOK
  BY Zenon DEF IoInv
<1>6. client' = client /\ sent' = sent /\ taken' = taken /\ served' = served /\ ended' = ended
  BY Zenon DEF io
<1> QED
  BY Zenon, <1>1, <1>4, <1>5, <1>6, OneConn

\* Nothing was read of those in a backlog.
LEMMA RefuseIo ==
  ASSUME Typed, IoInv, NEW ls, ls \subseteq Listeners, Refuse(ls), UNCHANGED <<taken, served, ended>>
  PROVE  StreamOK' /\ DOMAIN client' = Conns /\ DOMAIN sent' = Conns
<1>1. ASSUME NEW c \in Conns
      PROVE  Proper(c, conn'[c], client'[c], sent'[c], taken'[c], served'[c], ended'[c])
  <2>1. Proper(c, conn[c], client[c], sent[c], taken[c], served[c], ended[c])
    BY Zenon DEF IoInv, StreamOK
  <2>2. CASE conn[c] \in ls
    <3>1. conn[c] \notin Handling /\ conn[c] # "closing"
      BY Zenon, <2>2, StagesApart DEF Handling, Stages
    <3>2. taken[c] = 0 /\ served[c] = <<>> /\ ended[c] = "no"
      BY Zenon, <2>1, <3>1 DEF Proper
    <3>3. conn'[c] = "refused" /\ client'[c] = "left" /\ sent'[c] = 0
      BY Zenon, <2>2 DEF Refuse
    <3>4. Proper(c, "refused", "left", 0, 0, <<>>, "no")
      BY Zenon, ProperFresh
    <3> QED
      BY Zenon, <3>2, <3>3, <3>4
  <2>3. CASE conn[c] \notin ls
    <3>1. conn'[c] = conn[c] /\ client'[c] = client[c] /\ sent'[c] = sent[c]
      BY Zenon, <2>3 DEF Refuse
    <3> QED
      BY Zenon, <2>1, <3>1
  <2> QED
    BY Zenon, <2>2, <2>3
<1>2. DOMAIN client' = Conns /\ DOMAIN sent' = Conns
  BY Zenon DEF Refuse
<1> QED
  BY Zenon, <1>1, <1>2 DEF StreamOK

\* Serve loads the log or fails.
LEMMA LoadIo ==
  ASSUME Load, Inv, IoInv PROVE IoInv'
<1>0. Typed /\ IoTyped /\ StreamOK
  BY Zenon DEF Inv, IoInv
<1>1. UNCHANGED <<cancelled, rewrites, taken, served, ended>>
  BY Zenon DEF Load
<1>2. CASE UNCHANGED <<open, conn, sent, client>>
  BY Zenon, <1>0, <1>1, <1>2 DEF IoInv, IoTyped, StreamOK
<1>3. CASE open' = {} /\ Refuse(Listeners)
  <2>1. StreamOK' /\ DOMAIN client' = Conns /\ DOMAIN sent' = Conns
    BY Zenon, <1>0, <1>1, <1>3, RefuseIo
  <2>2. IoTyped'
    BY Zenon, <1>0, <1>1, <1>3, <2>1 DEF IoTyped
  <2> QED
    BY Zenon, <2>1, <2>2 DEF IoInv
<1> QED
  BY Zenon, <1>2, <1>3 DEF Load

\* A listener is closed.
LEMMA CloseListenerIo ==
  ASSUME NEW l \in Listeners, CloseListener(l), Inv, IoInv PROVE IoInv'
<1>0. Typed /\ IoTyped /\ StreamOK
  BY Zenon DEF Inv, IoInv
<1>1. UNCHANGED <<cancelled, rewrites, taken, served, ended>> /\ open' = open \ {l} /\ Refuse({l})
  BY Zenon DEF CloseListener, back
<1>2. {l} \subseteq Listeners
  BY Zenon
<1>3. StreamOK' /\ DOMAIN client' = Conns /\ DOMAIN sent' = Conns
  BY Zenon, <1>0, <1>1, <1>2, RefuseIo
<1>4. IoTyped'
  BY Zenon, <1>0, <1>1, <1>3 DEF IoTyped
<1> QED
  BY Zenon, <1>3, <1>4 DEF IoInv

\* A connection is accepted, gets its handler, writes, is answered, or dials.
LEMMA MoveIo ==
  ASSUME NEW c \in Conns, NEW l \in Listeners, Inv, IoInv,
         \/ Accept(l, c) \/ Apply(c) \/ Append_(c) \/ Connect(c)
         \/ Spawn(l) /\ c = acceptor[l]
         \/ Reply(c) /\ conn' = [conn EXCEPT ![c] = "read"] /\ UNCHANGED ended
  PROVE  IoInv'
<1>0. Typed /\ IoTyped
  BY Zenon DEF Inv, IoInv
<1>1. UNCHANGED io /\ UNCHANGED <<cancelled, open, rewrites>>
  BY Zenon DEF Accept, Spawn, Apply, Append_, Connect, Reply, io, loops, back
<1>2. PICK y : /\ conn' = [conn EXCEPT ![c] = y] /\ conn[c] # "closing"
               /\ conn[c] \in Handling => y \in Handling
  <2>1. CASE Accept(l, c)
    <3>1. conn[c] = l /\ conn[c] \notin Handling /\ conn[c] # "closing"
      BY Zenon, <2>1, StagesApart DEF Accept, Handling, Stages
    <3> QED
      BY Zenon, <2>1, <3>1 DEF Accept
  <2>2. CASE Spawn(l) /\ c = acceptor[l]
    <3>1. conn[c] = "accepted"
      BY Zenon, <2>2 DEF Inv, AcceptOK, Spawn
    <3>2. conn' = [conn EXCEPT ![c] = "read"] /\ "read" \in Handling
      BY Zenon, <2>2 DEF Spawn, Handling
    <3> QED
      BY Zenon, <3>1, <3>2
  <2>3. CASE Apply(c) \/ Append_(c)
    BY Zenon, <2>3 DEF Apply, Append_, Handling
  <2>4. CASE Connect(c)
    BY Zenon, <2>4 DEF Connect, Handling
  <2>5. CASE Reply(c) /\ conn' = [conn EXCEPT ![c] = "read"]
    BY Zenon, <2>5 DEF Reply, Handling
  <2> QED
    BY Zenon, <2>1, <2>2, <2>3, <2>4, <2>5
<1>3. StreamOK'
  BY Zenon, <1>0, <1>1, <1>2, ConnMoves
<1>4. IoTyped'
  BY Zenon, <1>0, <1>1 DEF IoTyped, io
<1> QED
  BY Zenon, <1>3, <1>4 DEF IoInv

\* A handler ends.
LEMMA EndIo ==
  ASSUME NEW c \in Conns, Inv, IoInv, NEW end,
         conn' = [conn EXCEPT ![c] = "closing"], ended' = [ended EXCEPT ![c] = end],
         UNCHANGED <<client, sent, taken, served, cancelled, open, rewrites>>,
         Proper(c, "closing", client[c], sent[c], taken[c], served[c], end)
  PROVE  IoInv'
<1>0. Typed /\ IoTyped /\ StreamOK
  BY Zenon DEF Inv, IoInv
<1>1. /\ conn'[c] = "closing" /\ ended'[c] = end /\ DOMAIN ended' = Conns
      /\ \A d \in Conns : d # c => conn'[d] = conn[d] /\ ended'[d] = ended[d]
  BY Zenon, <1>0 DEF Typed, IoTyped
<1>2. client' = client /\ sent' = sent /\ taken' = taken /\ served' = served
  BY Zenon
<1>3. Proper(c, conn'[c], client'[c], sent'[c], taken'[c], served'[c], ended'[c])
  BY Zenon, <1>1, <1>2
<1>4. StreamOK'
  BY Zenon, <1>0, <1>1, <1>2, <1>3, OneConn
<1>5. IoTyped'
  BY Zenon, <1>0, <1>1 DEF IoTyped
<1> QED
  BY Zenon, <1>4, <1>5 DEF IoInv

\* A handler replies, or cannot.
LEMMA ReplyIo ==
  ASSUME NEW c \in Conns, Reply(c), Inv, IoInv PROVE IoInv'
<1>0. Typed /\ IoTyped /\ StreamOK
  BY Zenon DEF Inv, IoInv
<1>1. CASE conn' = [conn EXCEPT ![c] = "read"] /\ UNCHANGED ended
  <2>1. Script[c].dials \in Listeners
    BY Zenon, ServeAssumption
  <2> QED
    BY Zenon, <1>1, <2>1, MoveIo
<1>2. CASE conn' = [conn EXCEPT ![c] = "closing"] /\ ended' = [ended EXCEPT ![c] = "write"]
  <2>1. conn[c] = "reply" /\ UNCHANGED <<client, sent, taken, served, cancelled, open, rewrites>>
    BY Zenon DEF Reply, loops, back
  <2>2. Proper(c, conn[c], client[c], sent[c], taken[c], served[c], ended[c])
    BY Zenon, <1>0 DEF StreamOK
  <2>3. conn[c] \in Handling /\ "write" \in {"QUIT", "write"}
    BY Zenon, <2>1 DEF Handling
  <2>4. Proper(c, "closing", client[c], sent[c], taken[c], served[c], "write")
    BY Zenon, <2>2, <2>3, ProperStops
  <2> QED
    BY Zenon, <1>2, <2>1, <2>4, EndIo
<1> QED
  BY Zenon, <1>1, <1>2 DEF Reply

\* A read fails.
LEMMA ReadFailsIo ==
  ASSUME NEW c \in Conns, ReadFails(c), Inv, IoInv PROVE IoInv'
<1>1. /\ conn[c] = "read" /\ client[c] = "left" /\ conn' = [conn EXCEPT ![c] = "closing"]
      /\ ended' = [ended EXCEPT ![c] = "readError"]
      /\ UNCHANGED <<client, sent, taken, served, cancelled, open, rewrites>>
  BY Zenon DEF ReadFails, loops, back
<1>2. Proper(c, conn[c], client[c], sent[c], taken[c], served[c], ended[c])
  BY Zenon DEF IoInv, StreamOK
<1>3. conn[c] \in Handling
  BY Zenon, <1>1 DEF Handling
<1>4. Proper(c, "closing", client[c], sent[c], taken[c], served[c], "readError")
  BY Zenon, <1>1, <1>2, <1>3, ProperFails
<1> QED
  BY Zenon, <1>1, <1>4, EndIo

\* A handler reads.
LEMMA ReadIo ==
  ASSUME NEW c \in Conns, Read(c), Inv, IoInv PROVE IoInv'
<1>0. Typed /\ IoTyped /\ StreamOK
  BY Zenon DEF Inv, IoInv
<1> DEFINE r == Decoded[c][taken[c]][sent[c]]
<1>1. /\ conn[c] = "read" /\ UNCHANGED <<client, sent, cancelled, open, rewrites>>
      /\ r.err \in {"EOF", "ErrUnexpectedEOF"} => client[c] = "left"
  BY Zenon DEF Read, loops, back
<1>2. Proper(c, "read", client[c], sent[c], taken[c], served[c], "no")
  <2>1. Proper(c, conn[c], client[c], sent[c], taken[c], served[c], ended[c])
    BY Zenon, <1>0 DEF StreamOK
  <2>2. conn[c] # "closing"
    BY Zenon, <1>1
  <2>3. ended[c] = "no"
    BY Zenon, <2>1, <2>2 DEF Proper
  <2> QED
    BY Zenon, <1>1, <2>1, <2>3
<1>a. ended[c] = "no"
  <2>1. conn[c] # "closing"
    BY Zenon, <1>1
  <2> QED
    BY Zenon, <1>0, <2>1 DEF StreamOK, Proper
<1>3. /\ r.err = "nil" => \A at \in Handling :
           Proper(c, at, client[c], sent[c], taken[c] + r.next - 1, Append(served[c], r.val), "no")
      /\ r.err # "nil" => Proper(c, "closing", client[c], sent[c], taken[c], served[c], r.err)
  BY Zenon, <1>1, <1>2, ProperReads
<1>4. \A v : Route(v) \in Handling
  BY Zenon DEF Route, Handling
<1>5. CASE r.err = "nil"
  <2> DEFINE at == Route(r.val)
             why == IF at = "closing" THEN "QUIT" ELSE "no"
             in == taken[c] + r.next - 1
             reqs == Append(served[c], r.val)
  <2>1. /\ taken' = [taken EXCEPT ![c] = in] /\ served' = [served EXCEPT ![c] = reqs]
        /\ conn' = [conn EXCEPT ![c] = at]
        /\ ended' = [ended EXCEPT ![c] = IF at = "closing" THEN "QUIT" ELSE ended[c]]
    BY Zenon, <1>5 DEF Read
  <2>2. Proper(c, at, client[c], sent[c], in, reqs, "no")
    BY Zenon, <1>3, <1>4, <1>5
  <2>a. at \in Handling
    BY Zenon, <1>4
  <2> HIDE DEF at, in, reqs, r
  <2>3. /\ taken'[c] = in /\ served'[c] = reqs /\ conn'[c] = at /\ ended'[c] = why
        /\ DOMAIN taken' = Conns /\ DOMAIN served' = Conns /\ DOMAIN ended' = Conns
        /\ \A d \in Conns : d # c =>
             conn'[d] = conn[d] /\ taken'[d] = taken[d] /\ served'[d] = served[d] /\ ended'[d] = ended[d]
    BY Zenon, <1>0, <1>a, <2>1 DEF Typed, IoTyped
  <2>4. Proper(c, at, client[c], sent[c], in, reqs, why)
    <3>1. CASE at = "closing"
      <4>1. "QUIT" \in {"QUIT", "write"} /\ why = "QUIT"
        BY Zenon, <3>1
      <4>2. Proper(c, "closing", client[c], sent[c], in, reqs, "QUIT")
        BY Zenon, <2>2, <2>a, <4>1, ProperStops
      <4> QED
        BY Zenon, <3>1, <4>1, <4>2
    <3>2. CASE at # "closing"
      BY Zenon, <2>2, <3>2
    <3> QED
      BY Zenon, <3>1, <3>2
  <2>5. StreamOK'
    BY Zenon, <1>0, <1>1, <2>3, <2>4, OneConn
  <2>6. IoTyped'
    BY Zenon, <1>0, <1>1, <2>3 DEF IoTyped
  <2> QED
    BY Zenon, <2>5, <2>6 DEF IoInv
<1>6. CASE r.err # "nil"
  <2>1. /\ conn' = [conn EXCEPT ![c] = "closing"] /\ ended' = [ended EXCEPT ![c] = r.err]
        /\ UNCHANGED <<taken, served>>
    BY Zenon, <1>6 DEF Read
  <2> HIDE DEF r
  <2>2. Proper(c, "closing", client[c], sent[c], taken[c], served[c], r.err)
    BY Zenon, <1>3, <1>6
  <2>3. UNCHANGED <<client, sent, taken, served, cancelled, open, rewrites>>
    BY Zenon, <1>1, <2>1
  <2> QED
    BY Zenon, <2>1, <2>2, <2>3, EndIo
<1> QED
  BY Zenon, <1>5, <1>6

\* A handler ends, and nothing of its connection is kept.
LEMMA CloseIo ==
  ASSUME NEW c \in Conns, Close(c), Inv, IoInv PROVE IoInv'
<1>0. Typed /\ IoTyped /\ StreamOK
  BY Zenon DEF Inv, IoInv
<1>1. /\ conn' = [conn EXCEPT ![c] = "closed"] /\ client' = [client EXCEPT ![c] = "left"]
      /\ sent' = [sent EXCEPT ![c] = 0] /\ taken' = [taken EXCEPT ![c] = 0]
      /\ served' = [served EXCEPT ![c] = <<>>] /\ ended' = [ended EXCEPT ![c] = "no"]
      /\ UNCHANGED <<cancelled, open, rewrites>>
  BY Zenon DEF Close, back
<1>2. /\ conn'[c] = "closed" /\ client'[c] = "left" /\ sent'[c] = 0 /\ taken'[c] = 0
      /\ served'[c] = <<>> /\ ended'[c] = "no"
  BY Zenon, <1>0, <1>1 DEF Typed, IoTyped
<1>3. \A d \in Conns : d # c =>
        /\ conn'[d] = conn[d] /\ client'[d] = client[d] /\ sent'[d] = sent[d]
        /\ taken'[d] = taken[d] /\ served'[d] = served[d] /\ ended'[d] = ended[d]
  BY Zenon, <1>0, <1>1 DEF Typed, IoTyped
<1>4. Proper(c, "closed", "left", 0, 0, <<>>, "no")
  BY Zenon, ProperFresh
<1>5. StreamOK'
  BY Zenon, <1>0, <1>2, <1>3, <1>4, OneConn
<1>6. IoTyped'
  BY Zenon, <1>0, <1>1 DEF IoTyped
<1> QED
  BY Zenon, <1>5, <1>6 DEF IoInv

\* The client sends some more.
LEMMA SendIo ==
  ASSUME NEW c \in Conns, Send(c), Inv, IoInv PROVE IoInv'
<1>0. Typed /\ IoTyped /\ StreamOK
  BY Zenon DEF Inv, IoInv
<1>1. PICK n \in Script[c].cuts : n > sent[c] /\ sent' = [sent EXCEPT ![c] = n]
  BY Zenon DEF Send
<1>2. client[c] = "there" /\ UNCHANGED <<cancelled, open, rewrites, conn, client, taken, served, ended>>
  BY Zenon DEF Send, loops, back
<1>3. n \in Nat /\ n <= Len(Bytes[c])
  BY ServeAssumption, BytesType
<1>4. sent'[c] = n /\ (\A d \in Conns : d # c => sent'[d] = sent[d]) /\ DOMAIN sent' = Conns
  BY Zenon, <1>0, <1>1 DEF IoTyped
<1>5. Proper(c, conn[c], "there", sent[c], taken[c], served[c], ended[c])
  BY Zenon, <1>0, <1>2 DEF StreamOK
<1>6. Proper(c, conn[c], "there", n, taken[c], served[c], ended[c])
  BY Zenon, <1>1, <1>3, <1>5, ProperSends
<1>7. StreamOK'
  BY Zenon, <1>0, <1>2, <1>4, <1>6, OneConn
<1>8. IoTyped'
  BY Zenon, <1>0, <1>2, <1>4 DEF IoTyped
<1> QED
  BY Zenon, <1>7, <1>8 DEF IoInv

\* The client hangs up.
LEMMA HangUpIo ==
  ASSUME NEW c \in Conns, HangUp(c), Inv, IoInv PROVE IoInv'
<1>0. Typed /\ IoTyped /\ StreamOK
  BY Zenon DEF Inv, IoInv
<1>1. /\ client' = [client EXCEPT ![c] = "left"]
      /\ UNCHANGED <<cancelled, open, rewrites, conn, sent, taken, served, ended>>
  BY Zenon DEF HangUp, loops, back
<1>2. client'[c] = "left" /\ (\A d \in Conns : d # c => client'[d] = client[d]) /\ DOMAIN client' = Conns
  BY Zenon, <1>0, <1>1 DEF IoTyped
<1>3. Proper(c, conn[c], client[c], sent[c], taken[c], served[c], ended[c])
  BY Zenon, <1>0 DEF StreamOK
<1>4. Proper(c, conn[c], "left", sent[c], taken[c], served[c], ended[c])
  BY Zenon, <1>3, ProperLeaves
<1>5. StreamOK'
  BY Zenon, <1>0, <1>1, <1>2, <1>4, OneConn
<1>6. IoTyped'
  BY Zenon, <1>0, <1>1, <1>2 DEF IoTyped
<1> QED
  BY Zenon, <1>5, <1>6 DEF IoInv

\* The other steps leave the connections alone.
LEMMA SameIo ==
  ASSUME Inv, IoInv, UNCHANGED <<conn, io>>, cancelled' \in BOOLEAN, open' = open, rewrites' \in Nat
  PROVE  IoInv'
<1>1. StreamOK'
  BY Zenon DEF IoInv, StreamOK, io
<1>2. IoTyped'
  BY Zenon DEF IoInv, IoTyped, io
<1> QED
  BY Zenon, <1>1, <1>2 DEF IoInv

\* These are all the steps that do.
LEMMA QuietIo ==
  ASSUME Inv, IoInv,
         \/ Signal \/ AcceptWait \/ ConnWait \/ Return \/ rewriteAOF \/ RewriteEnds \/ UNCHANGED vars
         \/ \E b \in Background : Stop(b)
         \/ \E l \in Listeners : AcceptEnds(l)
  PROVE  IoInv'
<1>0. cancelled \in BOOLEAN /\ rewrites \in Nat
  BY Zenon DEF IoInv, IoTyped
<1>1. UNCHANGED <<conn, io, open>>
  BY Zenon DEF Signal, AcceptWait, ConnWait, Return, rewriteAOF, RewriteEnds, Stop, AcceptEnds, vars, loops
<1>2. cancelled' \in BOOLEAN
  BY Zenon, <1>0 DEF Signal, AcceptWait, ConnWait, Return, rewriteAOF, RewriteEnds, Stop, AcceptEnds, vars
<1>3. rewrites' = rewrites \/ rewrites' = rewrites + 1
  BY Zenon DEF Signal, AcceptWait, ConnWait, Return, rewriteAOF, RewriteEnds, Stop, AcceptEnds, vars, back
<1>4. rewrites' \in Nat
  BY <1>0, <1>3
<1> QED
  BY Zenon, <1>1, <1>2, <1>4, SameIo

\* Every step keeps it.
LEMMA StepIo == Inv /\ IoInv /\ [Next]_vars => IoInv'
<1> SUFFICES ASSUME Inv, IoInv, [Next]_vars PROVE IoInv'
  BY Zenon
<1>1. CASE Main
  BY Zenon, <1>1, LoadIo, QuietIo DEF Main
<1>2. ASSUME NEW l \in Listeners, Loop(l) PROVE IoInv'
  <2>1. CASE Spawn(l)
    <3>1. acceptor[l] \in Conns
      BY Zenon, <2>1 DEF Spawn, Inv, Typed
    <3> QED
      BY Zenon, <2>1, <3>1, MoveIo
  <2> QED
    BY Zenon, <1>2, <2>1, CloseListenerIo, MoveIo, QuietIo DEF Loop
<1>3. ASSUME NEW c \in Conns, handle(c) \/ Connect(c) PROVE IoInv'
  <2>1. Script[c].dials \in Listeners
    BY Zenon, ServeAssumption
  <2> QED
    BY Zenon, <1>3, <2>1, ReadIo, ReadFailsIo, MoveIo, ReplyIo, CloseIo DEF handle
<1>4. ASSUME NEW c \in Conns, Send(c) \/ HangUp(c) PROVE IoInv'
  BY Zenon, <1>4, SendIo, HangUpIo
<1> QED
  BY Zenon, <1>1, <1>2, <1>3, <1>4, QuietIo DEF Next

\* It holds at the start.
LEMMA InitIo == Init => IoInv
<1> SUFFICES ASSUME Init PROVE IoInv
  BY Zenon
<1>1. IoTyped
  BY Zenon DEF Init, IoTyped
<1>2. ASSUME NEW c \in Conns PROVE Proper(c, conn[c], client[c], sent[c], taken[c], served[c], ended[c])
  <2>1. /\ client[c] = "there" /\ sent[c] = 0 /\ taken[c] = 0 /\ served[c] = <<>> /\ ended[c] = "no"
    BY Zenon DEF Init
  <2>2. Proper(c, conn[c], "there", 0, 0, <<>>, "no")
    BY Zenon, ProperFresh
  <2> QED
    BY Zenon, <2>1, <2>2
<1> QED
  BY Zenon, <1>1, <1>2 DEF IoInv, StreamOK

-----------------------------------------------------------------------------
(* The steps that count handlers in and out or wait for them, and all of   *)
(* them together.                                                          *)

INSTANCE FiniteSetTheorems

\* A handler is counted and started.
LEMMA SpawnStep ==
  ASSUME NEW l \in Listeners, Spawn(l), Inv PROVE Inv'
<1>0. Typed /\ AcceptOK /\ CountOK /\ LockOK /\ PhaseOK
  BY Zenon DEF Inv
<1> DEFINE c == acceptor[l]
<1>1. /\ c # None /\ connWG' = connWG + 1 /\ acceptor' = [acceptor EXCEPT ![l] = None]
      /\ conn' = [conn EXCEPT ![c] = "read"]
      /\ UNCHANGED <<phase, logOpen, accepting, writeMu, running>>
  BY Zenon DEF Spawn, main, back
<1>2. /\ c \in Conns /\ l \in accepting /\ conn[c] = "accepted"
      /\ \A m \in Listeners : m # l => acceptor[m] # c
  BY Zenon, <1>0, <1>1 DEF Typed, AcceptOK
<1>3. acceptor'[l] = None /\ \A m \in Listeners : m # l => acceptor'[m] = acceptor[m]
  BY <1>0, <1>1, Zenon DEF Typed
<1>a. \A m \in Listeners : acceptor[m] \in Conns \cup {None}
  BY Zenon, <1>0 DEF Typed
<1> HIDE DEF c
<1>4. /\ conn'[c] = "read" /\ (\A d \in Conns : d # c => conn'[d] = conn[d])
      /\ Handlers' = Handlers \cup {c} /\ c \notin Handlers
  <2>1. "read" \in Handling /\ conn[c] \notin Handling
    BY Zenon, <1>2 DEF Handling
  <2> QED
    BY <1>0, <1>1, <1>2, <2>1, HandlersMove, Zenon
<1>5. Typed'
  <2>1. conn' \in [Conns -> Listeners \cup Stages]
    BY <1>0, <1>1, Zenon DEF Typed, Stages
  <2>2. acceptor' \in [Listeners -> Conns \cup {None}]
    BY Zenon, <1>0, <1>1 DEF Typed
  <2> QED
    BY <1>0, <1>1, <2>1, <2>2, Zenon DEF Typed
<1>6. AcceptOK'
  <2>1. ASSUME NEW m \in Listeners, acceptor'[m] # None
        PROVE  /\ m # l /\ m \in accepting /\ conn'[acceptor'[m]] = "accepted"
               /\ \A k \in Listeners : k # m => acceptor'[k] # acceptor'[m]
    <3>1. m # l /\ acceptor'[m] = acceptor[m] /\ acceptor[m] # c /\ acceptor[m] \in Conns
      BY Zenon, <1>2, <1>3, <1>a, <2>1
    <3>2. m \in accepting /\ conn'[acceptor'[m]] = "accepted"
      BY Zenon, <1>0, <1>4, <2>1, <3>1 DEF AcceptOK
    <3>3. \A k \in Listeners : k # m => acceptor'[k] # acceptor'[m]
      BY Zenon, <1>0, <1>3, <2>1, <3>1 DEF AcceptOK
    <3> QED
      BY Zenon, <3>1, <3>2, <3>3
  <2> QED
    BY Zenon, <1>1, <2>1 DEF AcceptOK
<1>7. CountOK'
  BY Zenon, <1>0, <1>1, <1>4, FS_AddElement DEF CountOK
<1>8. LockOK'
  BY Zenon, <1>0, <1>1, <1>2, <1>4 DEF LockOK
<1>9. PhaseOK'
  <2>1. phase = "serving"
    BY Zenon, <1>0, <1>2 DEF PhaseOK
  <2> QED
    BY Zenon, <1>0, <1>1, <2>1 DEF PhaseOK
<1> QED
  BY Zenon, <1>5, <1>6, <1>7, <1>8, <1>9 DEF Inv

\* Serve comes past one of its waits.
LEMMA WaitStep ==
  ASSUME AcceptWait \/ ConnWait \/ Return, Inv PROVE Inv'
<1>0. Typed /\ AcceptOK /\ CountOK /\ LockOK /\ PhaseOK
  BY Zenon DEF Inv
<1>1. /\ UNCHANGED <<acceptor, accepting, connWG, writeMu, running, conn>>
      /\ phase' \in {"draining", "stopping", "returned"} /\ logOpen' \in BOOLEAN
  BY <1>0, Zenon DEF AcceptWait, ConnWait, Return, loops, back, Typed
<1>2. Handlers' = Handlers
  BY Zenon, <1>1 DEF Handlers
<1>3. Typed'
  BY Zenon, <1>0, <1>1 DEF Typed
<1>4. AcceptOK' /\ CountOK' /\ LockOK'
  BY <1>0, <1>1, <1>2, Zenon DEF AcceptOK, CountOK, LockOK
<1>5. PhaseOK'
  <2>1. CASE AcceptWait
    BY Zenon, <1>0, <1>1, <1>2, <2>1 DEF PhaseOK, AcceptWait
  <2>2. CASE ConnWait
    <3>1. Handlers = {}
      BY <1>0, <2>2, FS_EmptySet, Zenon DEF CountOK, ConnWait
    <3> QED
      BY Zenon, <1>0, <1>1, <1>2, <2>2, <3>1 DEF PhaseOK, ConnWait
  <2>3. CASE Return
    BY Zenon, <1>0, <1>1, <1>2, <2>3 DEF PhaseOK, Return
  <2> QED
    BY Zenon, <2>1, <2>2, <2>3
<1> QED
  BY Zenon, <1>3, <1>4, <1>5 DEF Inv

\* A handler ends and is counted out.
LEMMA CloseStep ==
  ASSUME NEW c \in Conns, Close(c), Inv PROVE Inv'
<1>0. Typed /\ AcceptOK /\ CountOK /\ LockOK /\ PhaseOK
  BY Zenon DEF Inv
<1>1. /\ conn[c] = "closing" /\ conn' = [conn EXCEPT ![c] = "closed"] /\ connWG' = connWG - 1
      /\ UNCHANGED <<phase, logOpen, accepting, acceptor, writeMu, running>>
  BY Zenon DEF Close, main, back
<1>2. /\ conn'[c] = "closed" /\ (\A d \in Conns : d # c => conn'[d] = conn[d])
      /\ Handlers' = Handlers \ {c} /\ c \in Handlers
  <2>1. "closed" \notin Handling /\ conn[c] \in Handling
    BY Zenon, <1>1 DEF Handling
  <2> QED
    BY <1>0, <1>1, <2>1, HandlersMove, Zenon
<1>3. Typed'
  <2>1. conn' \in [Conns -> Listeners \cup Stages]
    BY <1>0, <1>1, Zenon DEF Typed, Stages
  <2> QED
    BY <1>0, <1>1, <2>1, Zenon DEF Typed
<1>4. AcceptOK'
  <2>1. \A d \in Conns : conn[d] = "accepted" => conn'[d] = "accepted"
    BY Zenon, <1>1, <1>2
  <2> QED
    BY <1>0, <1>1, <2>1, SameAccept, Zenon
<1>5. CountOK'
  BY Zenon, <1>0, <1>1, <1>2, FS_RemoveElement DEF CountOK
<1>6. LockOK'
  BY Zenon, <1>0, <1>1, <1>2 DEF LockOK
<1>7. PhaseOK'
  BY Zenon, <1>0, <1>1, <1>2 DEF PhaseOK
<1> QED
  BY Zenon, <1>3, <1>4, <1>5, <1>6, <1>7 DEF Inv

\* Every step keeps the invariant.
LEMMA StepInv == Inv /\ [Next]_vars => Inv'
<1> SUFFICES ASSUME Inv, [Next]_vars PROVE Inv'
  BY Zenon
<1>1. CASE Signal \/ UNCHANGED vars
  BY <1>1, SameInv, Zenon DEF Signal, vars, main, loops, back
<1>2. CASE Main
  BY <1>2, LoadStep, WaitStep, Zenon DEF Main
<1>3. ASSUME NEW l \in Listeners, Loop(l) PROVE Inv'
  BY <1>3, CloseListenerStep, AcceptStep, SpawnStep, AcceptEndsStep, Zenon DEF Loop
<1>4. ASSUME NEW c \in Conns, handle(c) PROVE Inv'
  BY <1>4, ReadStep, ReadFailsStep, ApplyStep, ReplyStep, CloseStep, Zenon DEF handle
<1>5. ASSUME NEW c \in Conns, Send(c) \/ HangUp(c) PROVE Inv'
  BY <1>5, SameInv, Zenon DEF Send, HangUp, main, loops, back
<1> QED
  BY <1>1, <1>2, <1>3, <1>4, <1>5, BackgroundStep, ConnectStep, Zenon DEF Next

\* The invariant holds at the start.
LEMMA InitInv == Init => Inv
<1> SUFFICES ASSUME Init PROVE Inv
  BY Zenon
<1>1. Handlers = {}
  BY Zenon DEF Init, Handlers, Handling
<1>2. Typed
  BY Zenon DEF Init, Typed, Stages
<1>3. AcceptOK /\ LockOK /\ PhaseOK
  BY Zenon, <1>1, ServeAssumption DEF Init, AcceptOK, LockOK, PhaseOK
<1>4. CountOK
  BY Zenon, <1>1, FS_EmptySet DEF Init, CountOK
<1> QED
  BY Zenon, <1>2, <1>3, <1>4 DEF Inv

\* The invariant holds throughout.
LEMMA InvHolds == Spec => []Inv
  BY InitInv, StepInv, PTL DEF Spec

\* The invariants hold throughout.
LEMMA IoHolds == Spec => [](Inv /\ IoInv)
  BY InitInv, InitIo, StepInv, StepIo, PTL DEF Spec

-----------------------------------------------------------------------------
(* The theorems.                                                           *)

\* The log is open whenever a handler or the rewriter is about to use it.
THEOREM LogStaysOpen == Spec => []LogOutlivesItsUsers
<1>1. ASSUME Inv PROVE LogOutlivesItsUsers
  <2> SUFFICES ASSUME ~logOpen
               PROVE  /\ \A c \in Conns : conn[c] \notin {"apply", "append"}
                      /\ writeMu = None /\ Rewriter \notin running
    BY Zenon DEF LogOutlivesItsUsers
  <2>1. Handlers = {} /\ running = {}
    BY Zenon, <1>1 DEF Inv, Typed, PhaseOK
  <2>2. \A c \in Conns : conn[c] \notin {"apply", "append"}
    BY Zenon, <2>1 DEF Handlers, Handling
  <2>3. writeMu = None
    BY Zenon, <1>1, <2>1, <2>2 DEF Inv, Typed, LockOK
  <2> QED
    BY Zenon, <2>1, <2>2, <2>3
<1> QED
  BY <1>1, InvHolds, PTL

\* connWG is never negative, and Serve has come past its wait for the connections
\* only when no handler runs and none will: no accept loop is left.
THEOREM WaitsAreSound ==
  Spec => [](connWG \in Nat /\ (phase \in {"stopping", "returned"} => Handlers = {} /\ accepting = {}))
<1>1. ASSUME Inv
      PROVE  connWG \in Nat /\ (phase \in {"stopping", "returned"} => Handlers = {} /\ accepting = {})
  BY Zenon, <1>1, FS_CardinalityType DEF Inv, CountOK, PhaseOK
<1> QED
  BY <1>1, InvHolds, PTL

\* Serve keeps its types: the counter of connWG never goes below zero, a handler never
\* takes more bytes than were sent, and it returns for one of the reasons that handle
\* knows.
THEOREM TypesHold == Spec => []TypeOK
<1>1. ASSUME Inv, IoInv PROVE TypeOK
  <2>1. Typed /\ CountOK /\ IoTyped
    BY Zenon, <1>1 DEF Inv, IoInv
  <2>2. connWG \in Nat
    BY Zenon, <2>1, FS_CardinalityType DEF CountOK
  <2>3. ASSUME NEW c \in Conns
        PROVE  /\ conn[c] \in Listeners \cup Stages /\ client[c] \in {"there", "left"}
               /\ 0 <= taken[c] /\ taken[c] <= sent[c] /\ sent[c] <= Len(Bytes[c])
               /\ ended[c] \in {"no", "EOF", "ErrUnexpectedEOF", "protocol", "readError", "QUIT", "write"}
    <3>1. Proper(c, conn[c], client[c], sent[c], taken[c], served[c], ended[c])
      BY Zenon, <1>1 DEF IoInv, StreamOK
    <3>2. taken[c] \in Nat
      BY Zenon, <3>1 DEF Proper
    <3>3. 0 <= taken[c]
      BY <3>2
    <3> QED
      BY Zenon, <2>1, <3>1, <3>3 DEF Typed, Proper
  <2> QED
    BY Zenon, <2>1, <2>2, <2>3 DEF TypeOK, Typed, IoTyped
<1> QED
  BY <1>1, IoHolds, PTL

\* What is served on a connection are the frames its client sent, in order, however
\* the bytes are cut: handle loses, repeats and invents none.
THEOREM ServedIsSent == Spec => []ServedAsSent
<1>1. ASSUME IoInv PROVE ServedAsSent
  BY Zenon, <1>1 DEF IoInv, StreamOK, Proper, ServedAsSent
<1> QED
  BY <1>1, IoHolds, PTL

\* handle takes a connection for closed or cut off only where it is, Decode reports a
\* protocol error only where what follows is not RESP, both after the last complete
\* request was served, and a read fails only after the client left.
THEOREM EndsAreJudged == Spec => []EndIsJudgedRight
<1>1. ASSUME IoInv PROVE EndIsJudgedRight
  <2> SUFFICES ASSUME NEW c \in Conns
               PROVE  LET n == Len(served[c])
                          frames == Len(Script[c].frames)
                          after == sent[c] - FrameEnd[c][n]
                      IN  /\ ended[c] \in {"EOF", "ErrUnexpectedEOF", "readError"} => client[c] = "left"
                          /\ ended[c] = "EOF" => after = 0
                          /\ ended[c] = "ErrUnexpectedEOF" =>
                               after > 0 /\ (n < frames => sent[c] < FrameEnd[c][n + 1])
                          /\ ended[c] = "protocol" => n = frames /\ after > 0
    BY Zenon DEF EndIsJudgedRight
  <2>1. Proper(c, conn[c], client[c], sent[c], taken[c], served[c], ended[c])
    BY Zenon, <1>1 DEF IoInv, StreamOK
  <2>2. PICK n \in 0 .. Len(Script[c].frames) :
          /\ served[c] = SubSeq(Script[c].frames, 1, n) /\ taken[c] = FrameEnd[c][n]
          /\ ended[c] = "EOF" => sent[c] = taken[c]
          /\ ended[c] = "protocol" => n = Len(Script[c].frames) /\ sent[c] > taken[c]
          /\ ended[c] = "ErrUnexpectedEOF" =>
               sent[c] > taken[c] /\ (n < Len(Script[c].frames) => sent[c] < FrameEnd[c][n + 1])
    BY Zenon, <2>1 DEF Proper
  <2>3. /\ sent[c] \in Nat /\ taken[c] \in Nat
        /\ ended[c] \in {"EOF", "ErrUnexpectedEOF", "readError"} => client[c] = "left"
    BY Zenon, <2>1 DEF Proper
  <2>4. Len(served[c]) = n
    BY Zenon, <2>2, FramesGrow
  <2>5. /\ sent[c] = taken[c] => sent[c] - taken[c] = 0
        /\ sent[c] > taken[c] => sent[c] - taken[c] > 0
    BY <2>3
  <2> QED
    BY Zenon, <2>2, <2>3, <2>4, <2>5
<1> QED
  BY <1>1, IoHolds, PTL
=============================================================================
