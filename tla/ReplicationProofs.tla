-------------------------- MODULE ReplicationProofs -------------------------
(***************************************************************************)
(* Theorems about Replication, for any number of writers, replicas,        *)
(* sessions and writes and any capacity of the queues: the inductive       *)
(* invariant, that the actions of the primary and of the replica keep it,  *)
(* and what follows.                                                       *)
(***************************************************************************)
EXTENDS Replication, TLAPS

-----------------------------------------------------------------------------
(* Sequences of frames, as they stand in a feed's queue, on the wire and   *)
(* in a replica's store: which frames they hold and in what order the      *)
(* writes among them, the positive ones, come.                             *)

\* A frame put at the end of a queue is its last element, and the rest stays.
LEMMA AppendFacts ==
  ASSUME NEW q \in Seq(Int), NEW f \in Int
  PROVE  /\ Append(q, f) \in Seq(Int) /\ Len(Append(q, f)) = Len(q) + 1
         /\ \A i \in 1 .. Len(q) : Append(q, f)[i] = q[i]
         /\ Append(q, f)[Len(q) + 1] = f
  OBVIOUS

\* Taking the first frame of a queue moves the others up.
LEMMA TailFacts ==
  ASSUME NEW q \in Seq(Int), q # <<>>
  PROVE  /\ Tail(q) \in Seq(Int) /\ Len(q) \in Nat \ {0} /\ Len(Tail(q)) = Len(q) - 1
         /\ \A i \in 1 .. Len(Tail(q)) : i + 1 # 1 /\ i + 1 \in 1 .. Len(q) /\ Tail(q)[i] = q[i + 1]
         /\ Head(q) = q[1] /\ Head(q) \in Int /\ 1 \in 1 .. Len(q)
  OBVIOUS

\* The frames in a queue.
Vals(q) == {q[i] : i \in 1 .. Len(q)}

\* The writes among the frames of q grow.
Grows(q) == \A i, j \in 1 .. Len(q) : i < j /\ q[i] > 0 /\ q[j] > 0 => q[i] < q[j]

\* Every write in p is before every write in q.
Before(p, q) == \A f \in Vals(p), g \in Vals(q) : f > 0 /\ g > 0 => f < g

-----------------------------------------------------------------------------
\* The frames after Append and Tail.
LEMMA ValsFacts ==
  ASSUME NEW q \in Seq(Int)
  PROVE  /\ Vals(<<>>) = {} /\ Vals(q) \subseteq Int
         /\ \A f \in Int : Vals(Append(q, f)) = Vals(q) \cup {f}
         /\ q # <<>> => Vals(Tail(q)) \subseteq Vals(q) /\ Head(q) \in Vals(q)
<1>1. Vals(<<>>) = {} /\ Vals(q) \subseteq Int
  BY DEF Vals
<1>2. ASSUME NEW f \in Int PROVE Vals(Append(q, f)) = Vals(q) \cup {f}
  <2> DEFINE a == Append(q, f)
  <2>1. Len(a) = Len(q) + 1 /\ Len(q) \in Nat /\ a[Len(q) + 1] = f /\ \A i \in 1 .. Len(q) : a[i] = q[i]
    BY AppendFacts
  <2> HIDE DEF a
  <2>2. ASSUME NEW i \in 1 .. Len(a) PROVE a[i] \in Vals(q) \cup {f}
    <3>1. CASE i = Len(q) + 1
      BY <2>1, <3>1
    <3>2. CASE i \in 1 .. Len(q)
      BY <2>1, <3>2 DEF Vals
    <3> QED
      BY <2>1, <3>1, <3>2
  <2>3. ASSUME NEW i \in 1 .. Len(q) PROVE q[i] \in Vals(a)
    <3>1. i \in 1 .. Len(a) /\ q[i] = a[i]
      BY <2>1
    <3> QED
      BY <3>1 DEF Vals
  <2>4. f \in Vals(a)
    <3>1. Len(q) + 1 \in 1 .. Len(a)
      BY <2>1
    <3> QED
      BY <2>1, <3>1 DEF Vals
  <2>5. Vals(a) = Vals(q) \cup {f}
    BY <2>2, <2>3, <2>4, Zenon DEF Vals
  <2> QED
    BY <2>5 DEF a
<1>3. ASSUME q # <<>> PROVE Vals(Tail(q)) \subseteq Vals(q) /\ Head(q) \in Vals(q)
  <2> DEFINE t == Tail(q)
  <2>1. /\ Len(q) \in Nat \ {0} /\ Head(q) = q[1]
        /\ \A i \in 1 .. Len(t) : i + 1 \in 1 .. Len(q) /\ t[i] = q[i + 1]
    BY <1>3, TailFacts
  <2> HIDE DEF t
  <2>2. Vals(t) \subseteq Vals(q)
    BY <2>1 DEF Vals
  <2>3. 1 \in 1 .. Len(q)
    BY <2>1
  <2> QED
    BY <2>1, <2>2, <2>3 DEF Vals, t
<1> QED
  BY <1>1, <1>2, <1>3

\* A write newer than all others may go to the end of a queue in order; taking the
\* first frame leaves it in order, with that frame before the rest.
LEMMA GrowsFacts ==
  ASSUME NEW q \in Seq(Int)
  PROVE  /\ Grows(<<>>)
         /\ \A f \in Int : Grows(q) /\ (f > 0 => \A g \in Vals(q) : g > 0 => g < f) => Grows(Append(q, f))
         /\ q # <<>> /\ Grows(q) =>
              Grows(Tail(q)) /\ (Head(q) > 0 => \A g \in Vals(Tail(q)) : g > 0 => Head(q) < g)
<1>1. Grows(<<>>)
  BY DEF Grows
<1>2. ASSUME NEW f \in Int, Grows(q), f > 0 => \A g \in Vals(q) : g > 0 => g < f PROVE Grows(Append(q, f))
  <2> DEFINE a == Append(q, f)
  <2>1. Len(a) = Len(q) + 1 /\ Len(q) \in Nat /\ a[Len(q) + 1] = f /\ \A i \in 1 .. Len(q) : a[i] = q[i]
    BY AppendFacts
  <2> HIDE DEF a
  <2>2. ASSUME NEW i \in 1 .. Len(a), NEW j \in 1 .. Len(a), i < j, a[i] > 0, a[j] > 0 PROVE a[i] < a[j]
    <3>1. i \in 1 .. Len(q) /\ a[i] = q[i] /\ q[i] \in Vals(q)
      BY <2>1, <2>2 DEF Vals
    <3>2. CASE j = Len(q) + 1
      BY <1>2, <2>1, <2>2, <3>1, <3>2
    <3>3. CASE j \in 1 .. Len(q)
      BY <1>2, <2>1, <2>2, <3>1, <3>3 DEF Grows
    <3> QED
      BY <2>1, <3>2, <3>3
  <2>3. Grows(a)
    BY <2>2 DEF Grows
  <2> QED
    BY <2>3 DEF a
<1>3. ASSUME q # <<>>, Grows(q)
      PROVE  Grows(Tail(q)) /\ (Head(q) > 0 => \A g \in Vals(Tail(q)) : g > 0 => Head(q) < g)
  <2> DEFINE t == Tail(q)
             h == Head(q)
  <2>1. /\ Len(q) \in Nat \ {0} /\ h = q[1] /\ Len(t) = Len(q) - 1
        /\ \A i \in 1 .. Len(t) : i + 1 \in 1 .. Len(q) /\ t[i] = q[i + 1]
    BY <1>3, TailFacts
  <2> HIDE DEF t, h
  <2>2. ASSUME NEW i \in 1 .. Len(t), NEW j \in 1 .. Len(t), i < j, t[i] > 0, t[j] > 0 PROVE t[i] < t[j]
    <3>1. i + 1 \in 1 .. Len(q) /\ j + 1 \in 1 .. Len(q) /\ i + 1 < j + 1 /\ t[i] = q[i + 1] /\ t[j] = q[j + 1]
      BY <2>1, <2>2
    <3> QED
      BY <1>3, <2>2, <3>1 DEF Grows
  <2>3. ASSUME NEW i \in 1 .. Len(t), h > 0, t[i] > 0 PROVE h < t[i]
    <3>1. i \in Nat \ {0} /\ 1 \in 1 .. Len(q)
      BY <2>1
    <3>2. i + 1 \in 1 .. Len(q) /\ 1 < i + 1 /\ t[i] = q[i + 1]
      BY <2>1, <3>1
    <3> QED
      BY <1>3, <2>1, <2>3, <3>1, <3>2, Zenon DEF Grows
  <2>4. Grows(t) /\ (h > 0 => \A g \in Vals(t) : g > 0 => h < g)
    BY Zenon, <2>2, <2>3 DEF Grows, Vals
  <2> QED
    BY <2>4 DEF t, h
<1> QED
  BY <1>1, <1>2, <1>3

\* Order between two queues survives Append at either end.
LEMMA BeforeAppend ==
  ASSUME NEW p \in Seq(Int), NEW q \in Seq(Int), NEW f \in Int, Before(p, q)
  PROVE  /\ (f > 0 => \A g \in Vals(p) : g > 0 => g < f) => Before(p, Append(q, f))
         /\ (f > 0 => \A g \in Vals(q) : g > 0 => f < g) => Before(Append(p, f), q)
<1>1. Vals(Append(q, f)) = Vals(q) \cup {f} /\ Vals(Append(p, f)) = Vals(p) \cup {f}
  BY ValsFacts
<1> QED
  BY <1>1 DEF Before

\* Order between two queues survives Tail at either end, and holds for the frame taken.
LEMMA BeforeTail ==
  ASSUME NEW p \in Seq(Int), NEW q \in Seq(Int), Before(p, q)
  PROVE  /\ q # <<>> => Before(p, Tail(q)) /\ (Head(q) > 0 => \A g \in Vals(p) : g > 0 => g < Head(q))
         /\ p # <<>> => Before(Tail(p), q) /\ (Head(p) > 0 => \A g \in Vals(q) : g > 0 => Head(p) < g)
<1>1. /\ q # <<>> => Vals(Tail(q)) \subseteq Vals(q) /\ Head(q) \in Vals(q)
      /\ p # <<>> => Vals(Tail(p)) \subseteq Vals(p) /\ Head(p) \in Vals(p)
  BY ValsFacts
<1> QED
  BY <1>1 DEF Before

\* An empty queue is before and behind everything.
LEMMA BeforeEmpty == \A q : Before(q, <<>>) /\ Before(<<>>, q)
  BY DEF Before, Vals

\* A new write goes to the end of queue q, behind what is on the wire w and what
\* has been applied in a.
LEMMA EnqueueOrder ==
  ASSUME NEW a \in Seq(Int), NEW w \in Seq(Int), NEW q \in Seq(Int), NEW f \in Int,
         Grows(q), f > 0 => \A g \in Vals(a) \cup Vals(w) \cup Vals(q) : g < f
  PROVE  /\ Grows(Append(q, f))
         /\ Before(w, q) => Before(w, Append(q, f))
         /\ Before(a, q) => Before(a, Append(q, f))
<1>1. Grows(Append(q, f))
  BY GrowsFacts
<1>2. Before(w, q) => Before(w, Append(q, f))
  BY BeforeAppend
<1>3. Before(a, q) => Before(a, Append(q, f))
  BY BeforeAppend
<1> QED
  BY <1>1, <1>2, <1>3

\* A frame goes from the head of queue q to the end of wire w.
LEMMA ShipOrder ==
  ASSUME NEW a \in Seq(Int), NEW w \in Seq(Int), NEW q \in Seq(Int), q # <<>>,
         Grows(w), Grows(q), Before(w, q)
  PROVE  /\ Grows(Append(w, Head(q))) /\ Grows(Tail(q)) /\ Before(Append(w, Head(q)), Tail(q))
         /\ Before(a, w) /\ Before(a, q) => Before(a, Append(w, Head(q))) /\ Before(a, Tail(q))
<1> DEFINE f == Head(q)
           t == Tail(q)
<1>1. f \in Int /\ t \in Seq(Int)
  BY TailFacts
<1>2. Grows(t) /\ (f > 0 => \A g \in Vals(t) : g > 0 => f < g)
  BY GrowsFacts
<1>3. Before(w, t) /\ (f > 0 => \A g \in Vals(w) : g > 0 => g < f)
  BY BeforeTail
<1>4. Before(a, q) => Before(a, t) /\ (f > 0 => \A g \in Vals(a) : g > 0 => g < f)
  BY BeforeTail
<1> HIDE DEF f, t
<1>5. Grows(Append(w, f))
  BY <1>1, <1>3, GrowsFacts
<1>6. Before(Append(w, f), t)
  BY <1>1, <1>2, <1>3, BeforeAppend
<1>7. Before(a, w) /\ Before(a, q) => Before(a, Append(w, f))
  BY <1>1, <1>4, BeforeAppend
<1> QED
  BY <1>2, <1>4, <1>5, <1>6, <1>7 DEF f, t

\* A write goes from the head of wire w to the end of what has been applied.
LEMMA ApplyOrder ==
  ASSUME NEW a \in Seq(Int), NEW w \in Seq(Int), NEW q \in Seq(Int), w # <<>>,
         Grows(a), Grows(w), Before(w, q), Before(a, w), Before(a, q)
  PROVE  /\ Grows(Tail(w)) /\ Before(Tail(w), q) /\ Before(a, Tail(w))
         /\ /\ Grows(Append(a, Head(w))) /\ Before(Append(a, Head(w)), Tail(w))
            /\ Before(Append(a, Head(w)), q)
<1> DEFINE f == Head(w)
           t == Tail(w)
<1>1. f \in Int /\ t \in Seq(Int)
  BY TailFacts
<1>2. Grows(t) /\ (f > 0 => \A g \in Vals(t) : g > 0 => f < g)
  BY GrowsFacts
<1>3. Before(t, q) /\ (f > 0 => \A g \in Vals(q) : g > 0 => f < g)
  BY BeforeTail
<1>4. Before(a, t) /\ (f > 0 => \A g \in Vals(a) : g > 0 => g < f)
  BY BeforeTail
<1> HIDE DEF f, t
<1>5. Grows(Append(a, f))
  BY <1>1, <1>4, GrowsFacts
<1>6. Before(Append(a, f), t)
  BY <1>1, <1>2, <1>4, BeforeAppend
<1>7. Before(Append(a, f), q)
  BY <1>1, <1>3, BeforeAppend
<1> QED
  BY <1>2, <1>3, <1>4, <1>5, <1>6, <1>7 DEF f, t

\* Where frame k stands after Append and Tail.
LEMMA AppendOther ==
  ASSUME NEW q \in Seq(Int), NEW f \in Int, NEW k \in Int, f # k, NEW a, a = Append(q, f)
  PROVE  /\ a # <<>> /\ (q # <<>> => a[1] = q[1])
         /\ \A i \in 1 .. Len(a) : a[i] = k => i \in 1 .. Len(q) /\ q[i] = k
<1>1. Len(a) = Len(q) + 1 /\ Len(q) \in Nat /\ a[Len(q) + 1] = f /\ \A i \in 1 .. Len(q) : a[i] = q[i]
  BY AppendFacts
<1>2. a # <<>> /\ (q # <<>> => Len(q) > 0)
  BY <1>1
<1>3. q # <<>> => a[1] = q[1]
  BY <1>1, <1>2
<1>4. ASSUME NEW i \in 1 .. Len(a), a[i] = k PROVE i \in 1 .. Len(q) /\ q[i] = k
  BY <1>1, <1>4
<1> QED
  BY <1>2, <1>3, <1>4

-----------------------------------------------------------------------------
(* The inductive invariant.                                                *)

\* The types that the proofs need.
Typed ==
  /\ writes \in Nat /\ writeMu \in Writers \cup {None}
  /\ pc \in [Writers -> {"idle", "fast", "wait", "applied"}] /\ op \in [Writers -> Int]
  /\ reps \subseteq Sessions /\ owner \in [Sessions -> Replicas \cup {None}]
  /\ link \in [Sessions -> {"none", "up", "down"}]
  /\ handler \in [Sessions -> {"none", "accepted", "acked", "serving", "removed", "gone"}]
  /\ queue \in [Sessions -> Seq(Int)] /\ wire \in [Sessions -> Seq(Int)]
  /\ closed \in [Sessions -> BOOLEAN] /\ deliver \in [Sessions -> {"off", "running", "done"}]
  /\ mode \in [Replicas -> {"idle", "handshake", "stream", "stuck"}]
  /\ session \in [Replicas -> Sessions \cup {0}] /\ applied \in [Replicas -> Seq(Int)]

\* A feed is registered while its handler serves it, and closed only at the end.
FeedsOK ==
  \A s \in Sessions :
    /\ s \in reps => handler[s] = "serving"
    /\ closed[s] => handler[s] = "gone"
    /\ deliver[s] # "off" => handler[s] \in {"serving", "removed", "gone"}

\* A session that nobody has opened yet is empty.
UnusedOK ==
  \A s \in Sessions : owner[s] = None =>
    /\ handler[s] = "none" /\ queue[s] = <<>> /\ wire[s] = <<>>
    /\ deliver[s] = "off" /\ s \notin reps

\* A replica that is not idle is on a session of its own.
SessionOK ==
  \A r \in Replicas : mode[r] # "idle" => session[r] \in Sessions /\ owner[session[r]] = r

\* Writers under the lock: only its holder is between store and queues, with a
\* number that the store has given out.
LockOK ==
  \A w \in Writers : pc[w] = "applied" => writeMu = w /\ op[w] \in 1 .. writes

\* A frame that has been queued: no handshake, no write the store has not seen,
\* and none that is as new as the write about to be queued.
Past(f) == f \in Int /\ f <= writes /\ \A w \in Writers : pc[w] = "applied" => f < op[w]

PastOK ==
  /\ \A s \in Sessions : \A f \in Vals(queue[s]) : f >= 0 /\ Past(f)
  /\ \A s \in Sessions : \A f \in Vals(wire[s]) : Past(f) /\ (f = OK \/ f >= 0)
  /\ \A r \in Replicas : \A f \in Vals(applied[r]) : f > 0 /\ Past(f)

\* The +OK is the first frame of a session, and read in the handshake.
HandshakeOf(r) ==
  LET s == session[r]
  IN  /\ mode[r] = "handshake" /\ wire[s] = <<>> =>
           handler[s] \in {"accepted", "gone"} /\ deliver[s] = "off"
      /\ mode[r] = "handshake" /\ wire[s] # <<>> => handler[s] # "accepted" /\ wire[s][1] = OK
      /\ mode[r] \in {"stream", "stuck"} => handler[s] # "accepted"
      /\ mode[r] # "idle" => \A i \in 1 .. Len(wire[s]) :
           wire[s][i] = OK => mode[r] = "handshake" /\ i = 1

HandshakeOK == \A r \in Replicas : HandshakeOf(r)

\* On a session the writes grow from the wire to the end of the queue, and start
\* behind what its replica has applied.
OrderOK ==
  /\ \A s \in Sessions : Grows(queue[s]) /\ Grows(wire[s]) /\ Before(wire[s], queue[s])
  /\ \A r \in Replicas :
       /\ Grows(applied[r])
       /\ mode[r] # "idle" =>
            Before(applied[r], wire[session[r]]) /\ Before(applied[r], queue[session[r]])

Inv == Typed /\ FeedsOK /\ UnusedOK /\ SessionOK /\ LockOK /\ PastOK /\ HandshakeOK /\ OrderOK

-----------------------------------------------------------------------------
(* The actions of the primary keep it, and so does Dial.                   *)

\* What Enqueued does to a queue.
LEMMA EnqueuedFacts ==
  ASSUME Typed, NEW f \in Int
  PROVE  /\ Enqueued(f) \in [Sessions -> Seq(Int)]
         /\ \A s \in Sessions : \/ Enqueued(f)[s] = queue[s]
                                \/ s \in reps /\ Enqueued(f)[s] = Append(queue[s], f)
         /\ \A s \in Sessions : Vals(Enqueued(f)[s]) \subseteq Vals(queue[s]) \cup {f}
<1>1. \A s \in Sessions : queue[s] \in Seq(Int)
  BY DEF Typed
<1>2. \A s \in Sessions :
        Append(queue[s], f) \in Seq(Int) /\ Vals(Append(queue[s], f)) = Vals(queue[s]) \cup {f}
  BY <1>1, ValsFacts
<1> QED
  BY <1>1, <1>2, Zenon DEF Enqueued

\* A step that leaves the session of a replica alone leaves its handshake alone.
LEMMA SameHandshake ==
  ASSUME NEW r, HandshakeOf(r), mode'[r] = mode[r], session'[r] = session[r],
         wire'[session[r]] = wire[session[r]], handler' = handler, deliver' = deliver
  PROVE  HandshakeOf(r)'
<1> DEFINE w == wire[session[r]]
<1>1. wire'[session'[r]] = w
  BY Zenon
<1> QED
  BY Zenon, <1>1 DEF HandshakeOf

\* A request that begins.
LEMMA BeginStep ==
  ASSUME NEW w \in Writers, Begin(w), Inv PROVE Inv'
<1>0. Typed /\ FeedsOK /\ UnusedOK /\ SessionOK /\ LockOK /\ PastOK /\ HandshakeOK /\ OrderOK
  BY Zenon DEF Inv
<1> USE <1>0, ReplicationAssumption
<1>1. Typed'
  BY Zenon DEF Begin, Typed, primary, feeds, net, replica
<1>2. FeedsOK' /\ UnusedOK' /\ SessionOK' /\ HandshakeOK' /\ OrderOK'
  BY DEF Begin, primary, feeds, net, replica, FeedsOK, UnusedOK, SessionOK, HandshakeOK, HandshakeOf, OrderOK
<1>3. LockOK'
  BY Zenon DEF Begin, primary, feeds, net, replica, Typed, LockOK
<1>4. PastOK'
  BY Zenon DEF Begin, primary, feeds, net, replica, Typed, PastOK, Past
<1> QED
  BY Zenon, <1>1, <1>2, <1>3, <1>4 DEF Inv

\* The fast path gives out a number that no queue holds.
LEMMA FastDispatchStep ==
  ASSUME NEW w \in Writers, FastDispatch(w), Inv PROVE Inv'
<1>0. Typed /\ FeedsOK /\ UnusedOK /\ SessionOK /\ LockOK /\ PastOK /\ HandshakeOK /\ OrderOK
  BY Zenon DEF Inv
<1> USE <1>0, ReplicationAssumption
<1>1. Typed'
  BY DEF FastDispatch, Finish, Typed, primary, feeds, net, replica
<1>2. FeedsOK' /\ UnusedOK' /\ SessionOK' /\ HandshakeOK' /\ OrderOK'
  BY DEF FastDispatch, Finish, primary, feeds, net, replica,
              FeedsOK, UnusedOK, SessionOK, HandshakeOK, HandshakeOf, OrderOK
<1>3. LockOK'
  BY DEF FastDispatch, Finish, primary, feeds, net, replica, Typed, LockOK
<1>4. PastOK'
  BY DEF FastDispatch, Finish, primary, feeds, net, replica, Typed, PastOK, Past
<1> QED
  BY Zenon, <1>1, <1>2, <1>3, <1>4 DEF Inv

\* The new write is newer than everything queued.
LEMMA DispatchStep ==
  ASSUME NEW w \in Writers, Dispatch(w), Inv PROVE Inv'
<1>0. Typed /\ FeedsOK /\ UnusedOK /\ SessionOK /\ LockOK /\ PastOK /\ HandshakeOK /\ OrderOK
  BY Zenon DEF Inv
<1> USE <1>0, ReplicationAssumption
<1>1. Typed'
  BY DEF Dispatch, Typed, primary, feeds, net, replica
<1>2. FeedsOK' /\ UnusedOK' /\ SessionOK' /\ HandshakeOK' /\ OrderOK'
  BY DEF Dispatch, primary, feeds, net, replica, FeedsOK, UnusedOK, SessionOK, HandshakeOK, HandshakeOf, OrderOK
<1>3. LockOK'
  BY DEF Dispatch, primary, feeds, net, replica, Typed, LockOK
<1>4. PastOK'
  BY DEF Dispatch, primary, feeds, net, replica, Typed, PastOK, Past
<1> QED
  BY Zenon, <1>1, <1>2, <1>3, <1>4 DEF Inv

\* A command that fails.
LEMMA DispatchFailsStep ==
  ASSUME NEW w \in Writers, DispatchFails(w), Inv PROVE Inv'
<1>0. Typed /\ FeedsOK /\ UnusedOK /\ SessionOK /\ LockOK /\ PastOK /\ HandshakeOK /\ OrderOK
  BY Zenon DEF Inv
<1> USE <1>0, ReplicationAssumption
<1>1. Typed'
  BY DEF DispatchFails, Finish, Typed, primary, feeds, net, replica
<1>2. FeedsOK' /\ UnusedOK' /\ SessionOK' /\ HandshakeOK' /\ OrderOK'
  BY DEF DispatchFails, Finish, primary, feeds, net, replica,
              FeedsOK, UnusedOK, SessionOK, HandshakeOK, HandshakeOf, OrderOK
<1>3. LockOK'
  BY Zenon DEF DispatchFails, Finish, primary, feeds, net, replica, Typed, LockOK
<1>4. PastOK'
  BY Zenon DEF DispatchFails, Finish, primary, feeds, net, replica, Typed, PastOK, Past
<1> QED
  BY Zenon, <1>1, <1>2, <1>3, <1>4 DEF Inv

\* A frame for all feeds keeps the order if it is no write or newer than all others.
LEMMA EnqueueStep ==
  ASSUME NEW f \in Int, queue' = Enqueued(f), Inv,
         UNCHANGED <<reps, owner, handler, deliver, wire, mode, session, applied>>,
         f > 0 => /\ \A s \in Sessions : \A g \in Vals(queue[s]) \cup Vals(wire[s]) : g < f
                  /\ \A r \in Replicas : \A g \in Vals(applied[r]) : g < f
  PROVE  /\ UnusedOK' /\ OrderOK' /\ queue' \in [Sessions -> Seq(Int)]
         /\ \A s \in Sessions : Vals(queue'[s]) \subseteq Vals(queue[s]) \cup {f}
<1>0. Typed /\ UnusedOK /\ SessionOK /\ OrderOK
  BY Zenon DEF Inv
<1>1. /\ queue' \in [Sessions -> Seq(Int)]
      /\ \A s \in Sessions : queue'[s] = queue[s] \/ (s \in reps /\ queue'[s] = Append(queue[s], f))
      /\ \A s \in Sessions : Vals(queue'[s]) \subseteq Vals(queue[s]) \cup {f}
  BY <1>0, EnqueuedFacts, Zenon
<1>2. UnusedOK'
  BY Zenon, <1>0, <1>1 DEF UnusedOK
<1>3. ASSUME NEW s \in Sessions PROVE Grows(queue'[s]) /\ Before(wire[s], queue'[s])
  <2>1. wire[s] \in Seq(Int) /\ queue[s] \in Seq(Int) /\ Grows(queue[s]) /\ Before(wire[s], queue[s])
    BY Zenon, <1>0 DEF OrderOK, Typed
  <2>2. Grows(Append(queue[s], f)) /\ Before(wire[s], Append(queue[s], f))
    BY Zenon, <2>1, EnqueueOrder
  <2> QED
    BY <1>1, <2>1, <2>2, Zenon
<1>4. ASSUME NEW r \in Replicas, mode[r] # "idle" PROVE Before(applied[r], queue'[session[r]])
  <2> DEFINE s == session[r]
  <2>1. /\ s \in Sessions /\ applied[r] \in Seq(Int) /\ queue[s] \in Seq(Int)
        /\ Before(applied[r], queue[s])
    BY Zenon, <1>0, <1>4 DEF OrderOK, SessionOK, Typed
  <2> HIDE DEF s
  <2>2. Before(applied[r], Append(queue[s], f))
    BY Zenon, <2>1, BeforeAppend
  <2>3. Before(applied[r], queue'[s])
    BY <1>1, <2>1, <2>2, Zenon
  <2> QED
    BY Zenon, <2>3 DEF s
<1>5. OrderOK'
  BY Zenon, <1>0, <1>3, <1>4 DEF OrderOK
<1> QED
  BY Zenon, <1>1, <1>2, <1>5

\* Propagate queues the newest write, behind all others.
LEMMA PropagateStep ==
  ASSUME NEW w \in Writers, Propagate(w), Inv PROVE Inv'
<1>0. Typed /\ FeedsOK /\ SessionOK /\ LockOK /\ PastOK /\ HandshakeOK
  BY Zenon DEF Inv
<1> USE <1>0
<1> DEFINE f == op[w]
<1>1. /\ f \in Int /\ queue' = Enqueued(f)
      /\ UNCHANGED <<reps, owner, handler, deliver, wire, mode, session, applied>>
  BY Zenon DEF Propagate, net, replica, Typed
<1>2. /\ f \in 1 .. writes /\ \A s \in Sessions : \A g \in Vals(queue[s]) \cup Vals(wire[s]) : g < f
      /\ \A r \in Replicas : \A g \in Vals(applied[r]) : g < f
  BY Zenon DEF Propagate, LockOK, PastOK, Past
<1>3. /\ UnusedOK' /\ OrderOK' /\ queue' \in [Sessions -> Seq(Int)]
      /\ \A s \in Sessions : Vals(queue'[s]) \subseteq Vals(queue[s]) \cup {f}
  BY <1>1, <1>2, EnqueueStep, Zenon
<1>4. Typed'
  BY <1>3 DEF Propagate, Finish, Typed, primary, feeds, net, replica
<1>5. FeedsOK' /\ SessionOK' /\ HandshakeOK'
  BY DEF Propagate, primary, feeds, net, replica, FeedsOK, SessionOK, HandshakeOK, HandshakeOf
<1>6. LockOK' /\ (writes' = writes) /\ \A v \in Writers : pc'[v] # "applied"
  BY Zenon, ReplicationAssumption DEF Propagate, Finish, Typed, LockOK
<1>7. PastOK'
  <2>1. ASSUME NEW s \in Sessions, NEW g \in Vals(queue'[s]) PROVE g \in Int /\ g >= 0 /\ g <= writes
    BY <1>2, <1>3 DEF Typed, PastOK, Past
  <2> QED
    BY Zenon, <1>1, <1>6, <2>1 DEF PastOK, Past
<1> QED
  BY Zenon, <1>3, <1>4, <1>5, <1>6, <1>7 DEF Inv

\* A heartbeat is no write: the order stays.
LEMMA HeartbeatStep ==
  ASSUME Heartbeat, Inv PROVE Inv'
<1>0. Typed /\ FeedsOK /\ SessionOK /\ LockOK /\ PastOK /\ HandshakeOK
  BY Zenon DEF Inv
<1> USE <1>0
<1>1. /\ PING \in Int /\ queue' = Enqueued(PING) /\ ~(PING > 0)
      /\ UNCHANGED <<reps, owner, handler, deliver, wire, mode, session, applied>>
  BY DEF Heartbeat, net, replica, PING
<1>2. /\ UnusedOK' /\ OrderOK' /\ queue' \in [Sessions -> Seq(Int)]
      /\ \A s \in Sessions : Vals(queue'[s]) \subseteq Vals(queue[s]) \cup {PING}
  BY <1>1, EnqueueStep, Zenon
<1>3. Typed'
  BY Zenon, <1>2 DEF Heartbeat, Typed, primary, feeds, net, replica
<1>4. FeedsOK' /\ SessionOK' /\ LockOK' /\ HandshakeOK'
  BY DEF Heartbeat, primary, feeds, net, replica, FeedsOK, SessionOK, LockOK, HandshakeOK, HandshakeOf
<1>5. PastOK'
  <2>1. PING >= 0 /\ Past(PING)
    BY DEF PING, Past, Typed, LockOK
  <2>2. ASSUME NEW s \in Sessions, NEW g \in Vals(queue'[s]) PROVE g >= 0 /\ Past(g)
    BY Zenon, <1>2, <2>1 DEF PastOK
  <2> QED
    BY Zenon, <1>1, <2>2 DEF Heartbeat, PastOK, Past
<1> QED
  BY Zenon, <1>2, <1>3, <1>4, <1>5 DEF Inv

\* The +OK is written on an empty wire.
LEMMA replicaofAckStep ==
  ASSUME NEW s \in Sessions, replicaofAck(s), Inv PROVE Inv'
<1>0. Typed /\ FeedsOK /\ UnusedOK /\ SessionOK /\ LockOK /\ PastOK /\ HandshakeOK /\ OrderOK
  BY Zenon DEF Inv
<1> USE <1>0, ReplicationAssumption
<1>1. Typed'
  BY DEF replicaofAck, OK, Typed, primary, feeds, net, replica
<1>2. SessionOK' /\ LockOK'
  BY Zenon DEF replicaofAck, OK, primary, feeds, net, replica, SessionOK, LockOK
<1>3. FeedsOK'
  BY Zenon DEF replicaofAck, OK, primary, feeds, net, replica, Typed, FeedsOK
<1>4. UnusedOK'
  BY Zenon DEF replicaofAck, OK, primary, feeds, net, replica, Typed, UnusedOK
<1>5. PastOK'
  BY ValsFacts DEF replicaofAck, OK, Typed, PastOK, Past, LockOK, primary, feeds, net, replica
<1>6. HandshakeOK'
  BY DEF replicaofAck, OK, primary, feeds, net, replica, Typed, HandshakeOK, HandshakeOf
<1>7. OrderOK'
  BY GrowsFacts, BeforeAppend
    DEF replicaofAck, OK, Typed, OrderOK, SessionOK, primary, feeds, net, replica
<1> QED
  BY Zenon, <1>1, <1>2, <1>3, <1>4, <1>5, <1>6, <1>7 DEF Inv

\* A feed is registered once its +OK is out.
LEMMA replicaofAddStep ==
  ASSUME NEW s \in Sessions, replicaofAdd(s), Inv PROVE Inv'
<1>0. Typed /\ FeedsOK /\ UnusedOK /\ SessionOK /\ LockOK /\ PastOK /\ HandshakeOK /\ OrderOK
  BY Zenon DEF Inv
<1> USE <1>0, ReplicationAssumption
<1>1. Typed'
  BY Zenon DEF replicaofAdd, Typed, primary, feeds, net, replica
<1>2. SessionOK' /\ LockOK' /\ PastOK' /\ OrderOK'
  BY Zenon DEF replicaofAdd, primary, feeds, net, replica, SessionOK, LockOK, PastOK, OrderOK, Past
<1>3. FeedsOK'
  BY Zenon DEF replicaofAdd, primary, feeds, net, replica, Typed, FeedsOK
<1>4. UnusedOK'
  BY Zenon DEF replicaofAdd, primary, feeds, net, replica, Typed, UnusedOK
<1>5. HandshakeOK'
  BY DEF replicaofAdd, primary, feeds, net, replica, Typed, HandshakeOK, HandshakeOf, OK
<1> QED
  BY Zenon, <1>1, <1>2, <1>3, <1>4, <1>5 DEF Inv

\* A frame goes from the queue to the wire.
LEMMA deliverReplicaStep ==
  ASSUME NEW s \in Sessions, deliverReplica(s), Inv PROVE Inv'
<1>0. Typed /\ FeedsOK /\ UnusedOK /\ SessionOK /\ LockOK /\ PastOK /\ HandshakeOK /\ OrderOK
  BY Zenon DEF Inv
<1> USE <1>0, ReplicationAssumption
<1> DEFINE f == Head(queue[s])
           Ship == /\ queue[s] # <<>> /\ wire' = [wire EXCEPT ![s] = Append(@, f)]
                   /\ queue' = [queue EXCEPT ![s] = Tail(@)]
<1>a. Ship \/ UNCHANGED <<queue, wire>>
  BY Zenon DEF deliverReplica
<1>b. /\ UNCHANGED <<reps, handler, closed, owner, link, primary, replica>> /\ deliver[s] = "running"
      /\ deliver' = deliver \/ (deliver' = [deliver EXCEPT ![s] = "done"] /\ UNCHANGED <<queue, wire>>)
  BY Zenon DEF deliverReplica, primary, feeds, net, replica
<1>c. Ship => /\ f \in Int /\ f \in Vals(queue[s]) /\ Tail(queue[s]) \in Seq(Int)
              /\ Append(wire[s], f) \in Seq(Int) /\ queue[s] \in Seq(Int) /\ wire[s] \in Seq(Int)
              /\ Vals(Append(wire[s], f)) = Vals(wire[s]) \cup {f}
              /\ Vals(Tail(queue[s])) \subseteq Vals(queue[s])
  BY TailFacts, AppendFacts, ValsFacts DEF Typed
<1>d. Ship => f >= 0
  BY Zenon, <1>c DEF PastOK
<1>1. Typed'
  <2>0. deliver \in [Sessions -> {"off", "running", "done"}]
    BY Zenon DEF Typed
  <2>1. deliver' \in [Sessions -> {"off", "running", "done"}]
    BY Zenon, <1>b, <2>0
  <2>2. queue \in [Sessions -> Seq(Int)] /\ wire \in [Sessions -> Seq(Int)]
    BY Zenon DEF Typed
  <2>3. queue' \in [Sessions -> Seq(Int)] /\ wire' \in [Sessions -> Seq(Int)]
    <3>1. CASE UNCHANGED <<queue, wire>>
      BY Zenon, <2>2, <3>1
    <3>2. CASE Ship
      BY Zenon, <1>c, <2>2, <3>2
    <3> QED
      BY Zenon, <1>a, <3>1, <3>2
  <2> QED
    BY Zenon, <1>b, <2>1, <2>3 DEF Typed, primary, feeds, net, replica
<1>2. SessionOK' /\ LockOK'
  BY Zenon DEF deliverReplica, primary, feeds, net, replica, SessionOK, LockOK
<1>3. FeedsOK'
  BY SMTT(30) DEF deliverReplica, primary, feeds, net, replica, Typed, FeedsOK
<1>4. UnusedOK'
  BY DEF deliverReplica, primary, feeds, net, replica, Typed, UnusedOK
<1>5. PastOK'
  <2>1. queue \in [Sessions -> Seq(Int)] /\ wire \in [Sessions -> Seq(Int)]
    BY Zenon DEF Typed
  <2>2. ASSUME NEW t \in Sessions
        PROVE  /\ Vals(queue'[t]) \subseteq Vals(queue[t])
               /\ Vals(wire'[t]) \subseteq Vals(wire[t]) \cup Vals(queue[t])
    <3>1. CASE UNCHANGED <<queue, wire>> \/ (Ship /\ t # s)
      <4>1. queue'[t] = queue[t] /\ wire'[t] = wire[t]
        BY Zenon, <2>1, <3>1
      <4> QED
        BY Zenon, <4>1
    <3>2. CASE Ship /\ t = s
      <4>1. queue'[t] = Tail(queue[s]) /\ wire'[t] = Append(wire[s], f)
        BY Zenon, <2>1, <3>2
      <4> QED
        BY <1>c, <3>2, <4>1
    <3> QED
      BY Zenon, <1>a, <3>1, <3>2
  <2> QED
    BY <1>b, <2>2, Zenon DEF PastOK, Past, primary, feeds, net, replica
<1>6. HandshakeOK'
  <2>1. CASE UNCHANGED <<queue, wire>>
    BY <1>b, <2>1 DEF HandshakeOK, HandshakeOf, SessionOK, OK, Typed, primary, feeds, net, replica
  <2>2. CASE Ship
    <3>1. f # OK /\ OK \in Int /\ f \in Int /\ wire[s] \in Seq(Int)
      BY <1>c, <1>d, <2>2 DEF OK
    <3>2. /\ wire'[s] = Append(wire[s], f) /\ \A t \in Sessions : t # s => wire'[t] = wire[t]
          /\ deliver' = deliver /\ UNCHANGED <<handler, mode, session>>
      BY <1>b, <2>2 DEF Typed, replica
    <3>3. /\ wire'[s] # <<>> /\ (wire[s] # <<>> => wire'[s][1] = wire[s][1])
          /\ \A i \in 1 .. Len(wire'[s]) : wire'[s][i] = OK => i \in 1 .. Len(wire[s]) /\ wire[s][i] = OK
      <4> DEFINE q == wire[s]
                 a == wire'[s]
      <4>1. q \in Seq(Int) /\ f \in Int /\ OK \in Int /\ f # OK /\ a = Append(q, f)
        BY Zenon, <3>1, <3>2
      <4> HIDE <1>0, ReplicationAssumption DEF q, a, f
      <4>2. /\ a # <<>> /\ (q # <<>> => a[1] = q[1])
            /\ \A i \in 1 .. Len(a) : a[i] = OK => i \in 1 .. Len(q) /\ q[i] = OK
        BY SMTT(30), <4>1, AppendOther
      <4> QED
        BY Zenon, <4>2 DEF q, a
    <3>4. ASSUME NEW r \in Replicas, mode[r] # "idle", session[r] = s PROVE HandshakeOf(r)'
      <4>1. /\ handler[s] # "accepted" /\ (mode[r] = "handshake" => wire[s] # <<>> /\ wire[s][1] = OK)
            /\ \A i \in 1 .. Len(wire[s]) : wire[s][i] = OK => mode[r] = "handshake" /\ i = 1
        BY Zenon, <1>b, <3>4 DEF HandshakeOK, HandshakeOf, Typed
      <4> QED
        BY <3>2, <3>3, <3>4, <4>1, Zenon DEF HandshakeOf
    <3>5. ASSUME NEW r \in Replicas, mode[r] # "idle", session[r] # s PROVE HandshakeOf(r)'
      <4>1. HandshakeOf(r) /\ wire'[session[r]] = wire[session[r]]
        BY Zenon, <3>2, <3>5 DEF HandshakeOK, SessionOK
      <4> QED
        BY <3>2, <4>1, SameHandshake, Zenon
    <3>6. ASSUME NEW r \in Replicas, mode[r] = "idle" PROVE HandshakeOf(r)'
      BY Zenon, <3>2, <3>6 DEF HandshakeOf
    <3> QED
      BY <3>4, <3>5, <3>6, Zenon DEF HandshakeOK
  <2> QED
    BY Zenon, <1>a, <2>1, <2>2
<1>7. OrderOK'
  <2>1. CASE UNCHANGED <<queue, wire>>
    BY Zenon, <1>b, <2>1 DEF OrderOK, primary, feeds, net, replica
  <2>2. CASE Ship
    <3>1. Grows(Append(wire[s], f)) /\ Grows(Tail(queue[s])) /\ Before(Append(wire[s], f), Tail(queue[s]))
      BY Zenon, <1>c, <2>2, ShipOrder DEF OrderOK
    <3>2. ASSUME NEW r \in Replicas, mode[r] # "idle", session[r] = s
          PROVE  Before(applied[r], Append(wire[s], f)) /\ Before(applied[r], Tail(queue[s]))
      <4>1. applied[r] \in Seq(Int) /\ Before(applied[r], wire[s]) /\ Before(applied[r], queue[s])
        BY Zenon, <3>2 DEF OrderOK, Typed
      <4>2. Grows(wire[s]) /\ Grows(queue[s]) /\ Before(wire[s], queue[s])
        BY Zenon DEF OrderOK
      <4> QED
        BY Zenon, <1>c, <2>2, <4>1, <4>2, ShipOrder
    <3> QED
      BY SMTT(30), <1>b, <2>2, <3>1, <3>2 DEF OrderOK, Typed, primary, feeds, net, replica
  <2> QED
    BY Zenon, <1>a, <2>1, <2>2
<1> QED
  BY Zenon, <1>1, <1>2, <1>3, <1>4, <1>5, <1>6, <1>7 DEF Inv

\* An acknowledgement is read.
LEMMA AckedStep ==
  ASSUME NEW s \in Sessions, Acked(s), Inv PROVE Inv'
<1>0. Typed /\ FeedsOK /\ UnusedOK /\ SessionOK /\ LockOK /\ PastOK /\ HandshakeOK /\ OrderOK
  BY Zenon DEF Inv
<1> USE <1>0, ReplicationAssumption
<1>1. Typed'
  BY Zenon DEF Acked, Typed, primary, feeds, net, replica
<1>2. FeedsOK' /\ PastOK' /\ HandshakeOK'
  BY SMTT(30) DEF Acked, primary, feeds, net, replica, FeedsOK, PastOK, Past, HandshakeOK, HandshakeOf
<1>3. UnusedOK' /\ SessionOK' /\ LockOK' /\ OrderOK'
  BY Zenon DEF Acked, primary, feeds, net, replica, UnusedOK, SessionOK, LockOK, OrderOK
<1> QED
  BY Zenon, <1>1, <1>2, <1>3 DEF Inv

\* A feed leaves the registry.
LEMMA RemoveStep ==
  ASSUME NEW s \in Sessions, Remove(s), Inv PROVE Inv'
<1>0. Typed /\ FeedsOK /\ UnusedOK /\ SessionOK /\ LockOK /\ PastOK /\ HandshakeOK /\ OrderOK
  BY Zenon DEF Inv
<1> USE <1>0, ReplicationAssumption
<1>1. Typed'
  BY Zenon DEF Remove, Typed, primary, feeds, net, replica
<1>2. SessionOK' /\ LockOK' /\ PastOK' /\ OrderOK'
  BY Zenon DEF Remove, primary, feeds, net, replica, SessionOK, LockOK, PastOK, OrderOK, Past
<1>3. FeedsOK'
  BY Zenon DEF Remove, primary, feeds, net, replica, Typed, FeedsOK
<1>4. UnusedOK'
  BY Zenon DEF Remove, primary, feeds, net, replica, Typed, UnusedOK
<1>5. HandshakeOK'
  BY SMTT(30) DEF Remove, HandshakeOK, HandshakeOf, SessionOK, FeedsOK, Typed, OK, primary, feeds, net, replica
<1> QED
  BY Zenon, <1>1, <1>2, <1>3, <1>4, <1>5 DEF Inv

\* A feed that has left is closed.
LEMMA CloseFeedStep ==
  ASSUME NEW s \in Sessions, CloseFeed(s), Inv PROVE Inv'
<1>0. Typed /\ FeedsOK /\ UnusedOK /\ SessionOK /\ LockOK /\ PastOK /\ HandshakeOK /\ OrderOK
  BY Zenon DEF Inv
<1> USE <1>0, ReplicationAssumption
<1>1. Typed'
  BY DEF CloseFeed, Typed, primary, feeds, net, replica
<1>2. SessionOK' /\ LockOK'
  BY Zenon DEF CloseFeed, primary, feeds, net, replica, SessionOK, LockOK
<1>3. FeedsOK'
  BY Zenon DEF CloseFeed, primary, feeds, net, replica, Typed, FeedsOK
<1>4. UnusedOK'
  BY Zenon DEF CloseFeed, primary, feeds, net, replica, Typed, UnusedOK
<1>5. PastOK'
  BY SMTT(30), ValsFacts DEF CloseFeed, PastOK, Past, Typed, primary, feeds, net, replica
<1>6. HandshakeOK'
  BY SMTT(30) DEF CloseFeed, primary, feeds, net, replica, Typed, HandshakeOK, HandshakeOf, OK
<1>7. OrderOK'
  BY GrowsFacts, BeforeEmpty DEF CloseFeed, OrderOK, Typed, primary, feeds, net, replica
<1> QED
  BY Zenon, <1>1, <1>2, <1>3, <1>4, <1>5, <1>6, <1>7 DEF Inv

\* A connection breaks.
LEMMA BreakStep ==
  ASSUME NEW s \in Sessions, Break(s), Inv PROVE Inv'
<1>0. Typed /\ FeedsOK /\ UnusedOK /\ SessionOK /\ LockOK /\ PastOK /\ HandshakeOK /\ OrderOK
  BY Zenon DEF Inv
<1> USE <1>0, ReplicationAssumption
<1>1. Typed'
  BY Zenon DEF Break, Typed, primary, feeds, net, replica
<1>2. FeedsOK' /\ PastOK' /\ HandshakeOK'
  <2>1. UNCHANGED <<writes, pc, op, reps, handler, deliver, closed, queue, wire, mode, session, applied>>
    BY Zenon DEF Break, primary, feeds, replica
  <2>2. FeedsOK'
    BY Zenon, <2>1 DEF FeedsOK
  <2>3. PastOK'
    BY Zenon, <2>1 DEF PastOK, Past, Vals
  <2>4. HandshakeOK'
    BY Zenon, <2>1 DEF HandshakeOK, HandshakeOf
  <2> QED
    BY Zenon, <2>2, <2>3, <2>4
<1>3. UnusedOK' /\ SessionOK' /\ LockOK' /\ OrderOK'
  BY Zenon DEF Break, primary, feeds, net, replica, UnusedOK, SessionOK, LockOK, OrderOK
<1> QED
  BY Zenon, <1>1, <1>2, <1>3 DEF Inv

\* A replica opens a session that nobody has used.
LEMMA DialStep ==
  ASSUME NEW r \in Replicas, Dial(r), Inv PROVE Inv'
<1>0. Typed /\ FeedsOK /\ UnusedOK /\ SessionOK /\ LockOK /\ PastOK /\ HandshakeOK /\ OrderOK
  BY Zenon DEF Inv
<1> USE <1>0, ReplicationAssumption
<1>1. Typed'
  BY DEF Dial, Typed, primary, feeds, net, replica
<1>2. LockOK' /\ PastOK'
  BY Zenon DEF Dial, primary, feeds, net, replica, LockOK, PastOK, Past
<1>3. FeedsOK'
  BY DEF Dial, FeedsOK, UnusedOK, Typed, primary, feeds, net, replica
<1>4. UnusedOK'
  BY DEF Dial, primary, feeds, net, replica, Typed, UnusedOK
<1>5. SessionOK'
  BY SMTT(30) DEF Dial, primary, feeds, net, replica, Typed, SessionOK
<1>6. HandshakeOK'
  BY SMTT(30) DEF Dial, HandshakeOK, HandshakeOf, UnusedOK, SessionOK, Typed, OK, primary, feeds, net, replica
<1>7. OrderOK'
  BY SMTT(30), BeforeEmpty DEF Dial, OrderOK, UnusedOK, SessionOK, Typed, primary, feeds, net, replica
<1> QED
  BY Zenon, <1>1, <1>2, <1>3, <1>4, <1>5, <1>6, <1>7 DEF Inv

-----------------------------------------------------------------------------
(* The replica.                                                            *)

\* Two replicas are never on the same session.
LEMMA OwnSession ==
  ASSUME SessionOK, NEW r \in Replicas, mode[r] # "idle", NEW q \in Replicas, mode[q] # "idle", q # r
  PROVE  session[q] # session[r]
  BY Zenon DEF SessionOK

\* The replica takes the +OK.
LEMMA HandshakeStep ==
  ASSUME NEW r \in Replicas, Handshake(r), Inv PROVE Inv'
<1>0. Typed /\ FeedsOK /\ UnusedOK /\ SessionOK /\ LockOK /\ PastOK /\ HandshakeOK /\ OrderOK
  BY Zenon DEF Inv
<1> USE <1>0, ReplicationAssumption
<1> DEFINE s == session[r]
           f == Head(wire[s])
<1>a. /\ s \in Sessions /\ owner[s] = r /\ wire[s] # <<>> /\ wire' = [wire EXCEPT ![s] = Tail(@)]
      /\ UNCHANGED <<primary, feeds, owner, session>>
  BY Zenon DEF Handshake, SessionOK, primary, feeds, net, replica
<1>b. /\ wire[s] \in Seq(Int) /\ f \in Int /\ f = wire[s][1] /\ f \in Vals(wire[s])
      /\ Tail(wire[s]) \in Seq(Int) /\ Vals(Tail(wire[s])) \subseteq Vals(wire[s])
      /\ \A i \in 1 .. Len(Tail(wire[s])) :
           i + 1 # 1 /\ i + 1 \in 1 .. Len(wire[s]) /\ Tail(wire[s])[i] = wire[s][i + 1]
  BY Zenon, <1>a, TailFacts, ValsFacts DEF Typed
<1>c. f = OK
  BY Zenon, <1>a, <1>b DEF Handshake, HandshakeOK, HandshakeOf
<1>d. mode' = [mode EXCEPT ![r] = "stream"] /\ UNCHANGED <<link, applied>>
  BY Zenon, <1>c DEF Handshake, replica
<1>e. mode[r] = "handshake"
  BY Zenon DEF Handshake
<1>1. Typed'
  <2>1. wire' \in [Sessions -> Seq(Int)]
    BY Zenon, <1>a, <1>b DEF Typed
  <2>2. mode' \in [Replicas -> {"idle", "handshake", "stream", "stuck"}]
    BY Zenon, <1>d DEF Typed
  <2> QED
    BY Zenon, <1>a, <1>d, <2>1, <2>2 DEF Typed, primary, feeds
<1>2. FeedsOK' /\ LockOK'
  BY Zenon DEF Handshake, primary, feeds, net, replica, FeedsOK, LockOK
<1>3. UnusedOK'
  <2>1. r # None /\ \A t \in Sessions : t # s => wire'[t] = wire[t]
    BY Zenon, <1>a DEF Typed
  <2> QED
    BY Zenon, <1>a, <2>1 DEF UnusedOK, feeds
<1>4. SessionOK'
  BY Zenon, <1>a, <1>b, <1>c, <1>d DEF SessionOK, Typed, primary, feeds, net, replica
<1>5. PastOK'
  BY Zenon, <1>a, <1>b, <1>c, <1>d DEF PastOK, Past, Typed, primary, feeds, net, replica
<1>6. HandshakeOK'
  <2>1. \A i \in 1 .. Len(wire[s]) : wire[s][i] = OK => i = 1
    BY Zenon, <1>e DEF HandshakeOK, HandshakeOf
  <2>2. \A i \in 1 .. Len(Tail(wire[s])) : Tail(wire[s])[i] # OK
    BY Zenon, <1>b, <2>1
  <2>3. /\ wire'[s] = Tail(wire[s]) /\ \A t \in Sessions : t # s => wire'[t] = wire[t]
        /\ mode'[r] = "stream" /\ \A q \in Replicas : q # r => mode'[q] = mode[q]
        /\ UNCHANGED <<handler, deliver, session>>
    BY Zenon, <1>a, <1>d DEF Typed, feeds
  <2>4. ASSUME NEW q \in Replicas, q # r, mode[q] # "idle" PROVE wire'[session[q]] = wire[session[q]]
    BY Zenon, <1>e, <2>3, <2>4, OwnSession DEF SessionOK
  <2>5. handler[s] # "accepted"
    BY Zenon, <1>a, <1>e DEF HandshakeOK, HandshakeOf
  <2>6. HandshakeOf(r)'
    BY <2>2, <2>3, <2>5, Zenon DEF HandshakeOf
  <2>7. ASSUME NEW q \in Replicas, q # r, mode[q] = "idle" PROVE HandshakeOf(q)'
    BY Zenon, <2>3, <2>7 DEF HandshakeOf
  <2>8. ASSUME NEW q \in Replicas, q # r, mode[q] # "idle" PROVE HandshakeOf(q)'
    <3>1. HandshakeOf(q) /\ mode'[q] = mode[q] /\ wire'[session[q]] = wire[session[q]]
      BY <2>3, <2>4, <2>8, Zenon DEF HandshakeOK
    <3> QED
      BY <2>3, <3>1, SameHandshake, Zenon
  <2> QED
    BY <2>6, <2>7, <2>8, Zenon DEF HandshakeOK
<1>7. OrderOK'
  <2>1. /\ applied[r] \in Seq(Int) /\ queue[s] \in Seq(Int) /\ Grows(applied[r]) /\ Grows(wire[s])
        /\ Before(wire[s], queue[s]) /\ Before(applied[r], wire[s]) /\ Before(applied[r], queue[s])
    BY <1>a, <1>b, <1>e, Zenon DEF OrderOK, Typed
  <2>2. ASSUME NEW q \in Replicas, q # r, mode[q] # "idle" PROVE session[q] # s
    BY <1>e, <2>2, OwnSession, Zenon
  <2>3. Grows(Tail(wire[s])) /\ Before(Tail(wire[s]), queue[s]) /\ Before(applied[r], Tail(wire[s]))
    BY Zenon, <1>a, <1>b, <2>1, ApplyOrder
  <2>4. /\ wire'[s] = Tail(wire[s]) /\ \A t \in Sessions : t # s => wire'[t] = wire[t]
        /\ \A q \in Replicas : q # r => mode'[q] = mode[q]
        /\ UNCHANGED <<queue, applied, session>>
    BY Zenon, <1>a, <1>d DEF Typed, feeds
  <2>5. ASSUME NEW t \in Sessions PROVE Grows(queue'[t]) /\ Grows(wire'[t]) /\ Before(wire'[t], queue'[t])
    BY Zenon, <2>3, <2>4 DEF OrderOK
  <2>6. Before(applied[r], wire'[s]) /\ Before(applied[r], queue[s])
    BY Zenon, <2>1, <2>3, <2>4
  <2>7. ASSUME NEW q \in Replicas, q # r, mode[q] # "idle" PROVE wire'[session[q]] = wire[session[q]]
    BY Zenon, <2>2, <2>4, <2>7 DEF SessionOK
  <2>8. ASSUME NEW q \in Replicas, mode'[q] # "idle"
        PROVE  Before(applied[q], wire'[session[q]]) /\ Before(applied[q], queue[session[q]])
    BY Zenon, <2>4, <2>6, <2>7, <2>8 DEF OrderOK
  <2> QED
    BY Zenon, <2>4, <2>5, <2>8 DEF OrderOK
<1> QED
  BY Zenon, <1>1, <1>2, <1>3, <1>4, <1>5, <1>6, <1>7 DEF Inv

\* What is neither the reply to REPLICAOF nor a heartbeat is a write.
LEMMA NoHeartbeat ==
  ASSUME NEW f \in Int, f >= 0, f # PING PROVE f > 0
  BY DEF PING

\* A frame goes from the wire to the replica.
LEMMA StreamStep ==
  ASSUME NEW r \in Replicas, Stream(r), Inv PROVE Inv'
<1>0. Typed /\ FeedsOK /\ UnusedOK /\ SessionOK /\ LockOK /\ PastOK /\ HandshakeOK /\ OrderOK
  BY Zenon DEF Inv
<1> USE <1>0, ReplicationAssumption
<1> DEFINE s == session[r]
           f == Head(wire[s])
<1>a. /\ s \in Sessions /\ owner[s] = r /\ wire[s] # <<>> /\ wire' = [wire EXCEPT ![s] = Tail(@)]
      /\ UNCHANGED <<primary, feeds, owner, session>>
  BY Zenon DEF Stream, SessionOK, primary, feeds, net, replica
<1>b. /\ wire[s] \in Seq(Int) /\ f \in Int /\ f = wire[s][1] /\ f \in Vals(wire[s])
      /\ Tail(wire[s]) \in Seq(Int) /\ Vals(Tail(wire[s])) \subseteq Vals(wire[s])
      /\ 1 \in 1 .. Len(wire[s])
      /\ \A i \in 1 .. Len(Tail(wire[s])) : i + 1 \in 1 .. Len(wire[s]) /\ Tail(wire[s])[i] = wire[s][i + 1]
  BY Zenon, <1>a, TailFacts, ValsFacts DEF Typed
<1>c. f # OK /\ mode[r] = "stream" /\ mode' = mode
  <2>1. mode[r] = "stream" /\ mode' = mode
    BY Zenon DEF Stream, replica
  <2>2. \A i \in 1 .. Len(wire[s]) : wire[s][i] # OK
    BY Zenon, <2>1 DEF HandshakeOK, HandshakeOf
  <2> QED
    BY Zenon, <1>b, <2>1, <2>2
<1>d. UNCHANGED applied \/ (applied' = [applied EXCEPT ![r] = Append(@, f)] /\ f > 0)
  <2>1. f >= 0
    BY Zenon, <1>a, <1>b, <1>c DEF PastOK
  <2>2. UNCHANGED applied \/ (applied' = [applied EXCEPT ![r] = Append(@, f)] /\ f # PING)
    BY Zenon DEF Stream
  <2>3. f # PING => f > 0
    BY Zenon, <1>b, <2>1, NoHeartbeat
  <2> QED
    BY Zenon, <2>2, <2>3
<1>e. /\ applied[r] \in Seq(Int) /\ Append(applied[r], f) \in Seq(Int)
      /\ Vals(Append(applied[r], f)) = Vals(applied[r]) \cup {f}
  BY Zenon, <1>b, AppendFacts, ValsFacts DEF Typed
<1>1. Typed'
  <2>1. wire \in [Sessions -> Seq(Int)] /\ applied \in [Replicas -> Seq(Int)]
    BY Zenon DEF Typed
  <2>2. wire' \in [Sessions -> Seq(Int)]
    BY Zenon, <1>a, <1>b, <2>1
  <2>3. applied' \in [Replicas -> Seq(Int)]
    BY <1>d, <1>e, <2>1, Zenon
  <2>4. link' = link
    BY Zenon DEF Stream
  <2> QED
    BY Zenon, <1>a, <1>c, <2>2, <2>3, <2>4 DEF Typed, primary, feeds
<1>2. FeedsOK' /\ SessionOK' /\ LockOK'
  BY Zenon DEF Stream, PING, primary, feeds, net, replica, FeedsOK, SessionOK, LockOK
<1>3. UnusedOK'
  <2>1. r # None /\ \A t \in Sessions : t # s => wire'[t] = wire[t]
    BY Zenon, <1>a DEF Typed
  <2> QED
    BY Zenon, <1>a, <2>1 DEF UnusedOK, feeds
<1>4. PastOK'
  <2>1. \A t \in Sessions : Vals(wire'[t]) \subseteq Vals(wire[t])
    BY Zenon, <1>a, <1>b DEF Typed
  <2>2. ASSUME NEW q \in Replicas, NEW g \in Vals(applied'[q])
        PROVE  g \in Vals(applied[q]) \/ (g > 0 /\ g \in Vals(wire[s]))
    <3>1. applied \in [Replicas -> Seq(Int)]
      BY Zenon DEF Typed
    <3>2. CASE applied'[q] = applied[q]
      BY Zenon, <2>2, <3>2
    <3>3. CASE q = r /\ applied'[q] = Append(applied[r], f) /\ f > 0
      <4>1. Vals(applied'[q]) = Vals(applied[q]) \cup {f}
        BY Zenon, <1>e, <3>3
      <4> QED
        BY <1>b, <2>2, <3>3, <4>1, Zenon
    <3> QED
      BY Zenon, <1>d, <3>1, <3>2, <3>3
  <2> QED
    BY <1>a, <2>1, <2>2, Zenon DEF PastOK, Past, primary, feeds, net, replica
<1>5. HandshakeOK'
  <2>1. \A i \in 1 .. Len(wire[s]) : wire[s][i] # OK
    BY Zenon, <1>c DEF HandshakeOK, HandshakeOf
  <2>2. \A i \in 1 .. Len(Tail(wire[s])) : Tail(wire[s])[i] # OK
    BY Zenon, <1>b, <2>1
  <2>3. /\ wire'[s] = Tail(wire[s]) /\ \A t \in Sessions : t # s => wire'[t] = wire[t]
        /\ UNCHANGED <<handler, deliver, session>>
    BY Zenon, <1>a DEF Typed, feeds
  <2>4. ASSUME NEW q \in Replicas, q # r, mode[q] # "idle" PROVE wire'[session[q]] = wire[session[q]]
    BY Zenon, <1>c, <2>3, <2>4, OwnSession DEF SessionOK
  <2>5. handler[s] # "accepted"
    BY Zenon, <1>c DEF HandshakeOK, HandshakeOf
  <2>6. HandshakeOf(r)'
    BY <1>c, <2>2, <2>3, <2>5, Zenon DEF HandshakeOf
  <2>7. ASSUME NEW q \in Replicas, q # r, mode[q] = "idle" PROVE HandshakeOf(q)'
    BY Zenon, <1>c, <2>3, <2>7 DEF HandshakeOf
  <2>8. ASSUME NEW q \in Replicas, q # r, mode[q] # "idle" PROVE HandshakeOf(q)'
    <3>1. HandshakeOf(q) /\ mode'[q] = mode[q] /\ wire'[session[q]] = wire[session[q]]
      BY <1>c, <2>3, <2>4, <2>8, Zenon DEF HandshakeOK
    <3> QED
      BY <2>3, <3>1, SameHandshake, Zenon
  <2> QED
    BY <2>6, <2>7, <2>8, Zenon DEF HandshakeOK
<1>6. OrderOK'
  <2>1. /\ applied[r] \in Seq(Int) /\ queue[s] \in Seq(Int) /\ Grows(applied[r]) /\ Grows(wire[s])
        /\ Before(wire[s], queue[s]) /\ Before(applied[r], wire[s]) /\ Before(applied[r], queue[s])
    BY <1>a, <1>b, <1>c, Zenon DEF OrderOK, Typed
  <2>2. ASSUME NEW q \in Replicas, q # r, mode[q] # "idle" PROVE session[q] # s
    BY <1>c, <2>2, OwnSession, Zenon
  <2>3. /\ Grows(Tail(wire[s])) /\ Before(Tail(wire[s]), queue[s]) /\ Before(applied[r], Tail(wire[s]))
        /\ Grows(Append(applied[r], f)) /\ Before(Append(applied[r], f), Tail(wire[s]))
        /\ Before(Append(applied[r], f), queue[s])
    BY Zenon, <1>a, <1>b, <1>c, <2>1, ApplyOrder
  <2>4. wire \in [Sessions -> Seq(Int)] /\ applied \in [Replicas -> Seq(Int)]
    BY Zenon DEF Typed
  <2>5. ASSUME NEW t \in Sessions PROVE Grows(wire'[t]) /\ Before(wire'[t], queue[t])
    BY Zenon, <1>a, <2>3, <2>4 DEF OrderOK
  <2>6. /\ wire'[s] = Tail(wire[s]) /\ \A t \in Sessions : t # s => wire'[t] = wire[t]
        /\ applied'[r] \in {applied[r], Append(applied[r], f)}
        /\ \A q \in Replicas : q # r => applied'[q] = applied[q]
    BY Zenon, <1>a, <1>d, <2>4
  <2>7. ASSUME NEW q \in Replicas
        PROVE  /\ Grows(applied'[q])
               /\ mode[q] # "idle" =>
                    Before(applied'[q], wire'[session[q]]) /\ Before(applied'[q], queue[session[q]])
    <3>1. CASE q = r
      BY <2>1, <2>3, <2>6, <3>1, Zenon
    <3>2. CASE q # r
      BY Zenon, <2>2, <2>6, <3>2 DEF OrderOK, SessionOK
    <3> QED
      BY Zenon, <3>1, <3>2
  <2> QED
    BY Zenon, <1>a, <1>c, <2>5, <2>7 DEF OrderOK, primary, feeds, net, replica
<1> QED
  BY Zenon, <1>1, <1>2, <1>3, <1>4, <1>5, <1>6 DEF Inv

\* A session ends.
LEMMA SessionEndsStep ==
  ASSUME NEW r \in Replicas, SessionEnds(r), Inv PROVE Inv'
<1>0. Typed /\ FeedsOK /\ UnusedOK /\ SessionOK /\ LockOK /\ PastOK /\ HandshakeOK /\ OrderOK
  BY Zenon DEF Inv
<1> USE <1>0, ReplicationAssumption
<1>1. Typed'
  BY SMTT(30) DEF SessionEnds, Typed, SessionOK, primary, feeds, net, replica
<1>2. FeedsOK' /\ LockOK'
  BY Zenon DEF SessionEnds, primary, feeds, net, replica, FeedsOK, LockOK
<1>3. UnusedOK'
  BY Zenon DEF SessionEnds, primary, feeds, net, replica, Typed, UnusedOK
<1>4. SessionOK'
  BY SMTT(30) DEF SessionEnds, primary, feeds, net, replica, Typed, SessionOK
<1>5. PastOK'
  BY SMTT(30), ValsFacts DEF SessionEnds, PastOK, Past, SessionOK, Typed, primary, feeds, net, replica
<1>6. HandshakeOK'
  BY SMTT(30) DEF SessionEnds, HandshakeOK, HandshakeOf, SessionOK, Typed, OK, primary, feeds, net, replica
<1>7. OrderOK'
  BY SMTT(30), GrowsFacts, BeforeEmpty DEF SessionEnds, OrderOK, SessionOK, Typed, primary, feeds, net, replica
<1> QED
  BY Zenon, <1>1, <1>2, <1>3, <1>4, <1>5, <1>6, <1>7 DEF Inv

\* A replica hangs.
LEMMA StallStep ==
  ASSUME NEW r \in Replicas, Stall(r), Inv PROVE Inv'
<1>0. Typed /\ FeedsOK /\ UnusedOK /\ SessionOK /\ LockOK /\ PastOK /\ HandshakeOK /\ OrderOK
  BY Zenon DEF Inv
<1> USE <1>0, ReplicationAssumption
<1>1. Typed'
  BY Zenon DEF Stall, Typed, primary, feeds, net, replica
<1>2. FeedsOK' /\ UnusedOK' /\ LockOK' /\ PastOK'
  BY Zenon DEF Stall, primary, feeds, net, replica, FeedsOK, UnusedOK, LockOK, PastOK, Past
<1>3. SessionOK'
  BY SMTT(30) DEF Stall, primary, feeds, net, replica, Typed, SessionOK
<1>4. HandshakeOK'
  BY SMTT(30) DEF Stall, primary, feeds, net, replica, Typed, HandshakeOK, HandshakeOf, OK
<1>5. OrderOK'
  BY Zenon DEF Stall, primary, feeds, net, replica, Typed, OrderOK
<1> QED
  BY Zenon, <1>1, <1>2, <1>3, <1>4, <1>5 DEF Inv

\* A replica comes up empty.
LEMMA RestartStep ==
  ASSUME NEW r \in Replicas, Restart(r), Inv PROVE Inv'
<1>0. Typed /\ FeedsOK /\ UnusedOK /\ SessionOK /\ LockOK /\ PastOK /\ HandshakeOK /\ OrderOK
  BY Zenon DEF Inv
<1> USE <1>0, ReplicationAssumption
<1>1. Typed'
  BY DEF Restart, Typed, SessionOK, primary, feeds, net, replica
<1>2. FeedsOK' /\ LockOK'
  BY Zenon DEF Restart, primary, feeds, net, replica, FeedsOK, LockOK
<1>3. UnusedOK'
  BY Zenon DEF Restart, primary, feeds, net, replica, Typed, UnusedOK
<1>4. SessionOK'
  BY Zenon DEF Restart, primary, feeds, net, replica, Typed, SessionOK
<1>5. PastOK'
  BY SMTT(30), ValsFacts DEF Restart, PastOK, Past, SessionOK, Typed, primary, feeds, net, replica
<1>6. HandshakeOK'
  BY SMTT(30) DEF Restart, HandshakeOK, HandshakeOf, SessionOK, Typed, OK, primary, feeds, net, replica
<1>7. OrderOK'
  BY SMTT(30), GrowsFacts, BeforeEmpty DEF Restart, OrderOK, SessionOK, Typed, primary, feeds, net, replica
<1> QED
  BY Zenon, <1>1, <1>2, <1>3, <1>4, <1>5, <1>6, <1>7 DEF Inv
\* Every step keeps the invariant.
LEMMA StepInv == Inv /\ [Next]_vars => Inv'
<1> SUFFICES ASSUME Inv, [Next]_vars PROVE Inv'
  BY Zenon
<1>1. ASSUME NEW w \in Writers, Writer(w) PROVE Inv'
  BY <1>1, BeginStep, FastDispatchStep, DispatchStep, DispatchFailsStep, PropagateStep, Zenon DEF Writer
<1>2. ASSUME NEW s \in Sessions, Serving(s) \/ Break(s) PROVE Inv'
  BY Zenon, <1>2, replicaofAckStep, replicaofAddStep, deliverReplicaStep, AckedStep, RemoveStep,
     CloseFeedStep, BreakStep, Zenon DEF Serving
<1>3. ASSUME NEW r \in Replicas, RunReplica(r) PROVE Inv'
  BY <1>3, DialStep, HandshakeStep, StreamStep, SessionEndsStep, StallStep, RestartStep, Zenon DEF RunReplica
<1>4. ASSUME UNCHANGED vars PROVE Inv'
  <2>1. Typed' /\ FeedsOK' /\ UnusedOK' /\ SessionOK' /\ LockOK'
    BY Zenon, <1>4 DEF vars, primary, feeds, net, replica, Inv, Typed, FeedsOK, UnusedOK, SessionOK, LockOK
  <2>2. PastOK'
    BY Zenon, <1>4 DEF vars, primary, feeds, net, replica, Inv, PastOK, Past
  <2>3. HandshakeOK'
    BY Zenon, <1>4 DEF vars, primary, feeds, net, replica, Inv, HandshakeOK, HandshakeOf
  <2>4. OrderOK'
    BY Zenon, <1>4 DEF vars, primary, feeds, net, replica, Inv, OrderOK
  <2> QED
    BY Zenon, <2>1, <2>2, <2>3, <2>4 DEF Inv
<1> QED
  BY <1>1, <1>2, <1>3, <1>4, HeartbeatStep, Zenon DEF Next

-----------------------------------------------------------------------------
(* The theorems.                                                           *)

\* The invariant holds at the start.
LEMMA InitInv == Init => Inv
<1> SUFFICES ASSUME Init PROVE Inv
  BY Zenon, SMTT(30)
<1>1. Typed /\ FeedsOK /\ UnusedOK /\ SessionOK /\ LockOK
  BY ReplicationAssumption DEF Init, Typed, FeedsOK, UnusedOK, SessionOK, LockOK
<1>2. \A s \in Sessions : queue[s] = <<>> /\ wire[s] = <<>>
  BY Zenon DEF Init
<1>3. \A r \in Replicas : applied[r] = <<>> /\ mode[r] = "idle"
  BY Zenon DEF Init
<1>e. Vals(<<>>) = {} /\ Grows(<<>>)
  BY DEF Vals, Grows
<1>4. PastOK
  BY Zenon, <1>2, <1>3, <1>e DEF PastOK
<1>5. HandshakeOK
  BY Zenon, <1>3 DEF HandshakeOK, HandshakeOf
<1>6. OrderOK
  BY Zenon, <1>2, <1>3, <1>e, BeforeEmpty DEF OrderOK
<1> QED
  BY Zenon, <1>1, <1>4, <1>5, <1>6 DEF Inv

\* The invariant holds throughout.
THEOREM InvHolds == Spec => []Inv
  BY InitInv, StepInv, PTL DEF Spec

\* Propagate never sends on a closed channel: a feed in the registry has a handler
\* that serves it, and only a handler that has left the registry closes it.
THEOREM SendsAreSafe == Spec => []NeverSendsOnClosed
<1>1. Inv => NeverSendsOnClosed
  BY Zenon DEF Inv, Typed, FeedsOK, NeverSendsOnClosed
<1> QED
  BY <1>1, InvHolds, PTL

\* The +OK is the first frame of a session and the only one of its kind.
THEOREM HandshakeComesFirst == Spec => []HandshakeThenStream
<1>1. Inv => HandshakeThenStream
  <2> SUFFICES ASSUME Inv, NEW r \in Replicas, mode[r] # "idle", NEW i \in 1 .. Len(wire[session[r]])
               PROVE  (wire[session[r]][i] = OK) <=> (mode[r] = "handshake" /\ i = 1)
    BY Zenon DEF HandshakeThenStream
  <2>1. wire[session[r]] \in Seq(Int)
    BY Zenon DEF Inv, Typed, SessionOK
  <2>2. wire[session[r]] # <<>>
    BY <2>1
  <2> QED
    BY Zenon, <2>2 DEF Inv, HandshakeOK, HandshakeOf
<1> QED
  BY <1>1, InvHolds, PTL

\* A replica applies writes in the order of the primary's store, none twice,
\* however often it reconnects and however long the primary keeps old connections.
THEOREM WritesInOrder == Spec => []AppliedInOrder
<1>1. Inv => AppliedInOrder
  <2> SUFFICES ASSUME Inv, NEW r \in Replicas, NEW i \in 1 .. Len(applied[r]),
                      NEW j \in 1 .. Len(applied[r]), i < j
               PROVE  applied[r][i] < applied[r][j]
    BY Zenon DEF AppliedInOrder
  <2>1. applied[r][i] \in Vals(applied[r]) /\ applied[r][j] \in Vals(applied[r])
    BY Zenon DEF Vals
  <2>2. applied[r][i] > 0 /\ applied[r][j] > 0 /\ Grows(applied[r])
    BY Zenon, <2>1 DEF Inv, PastOK, OrderOK
  <2> QED
    BY Zenon, <2>2 DEF Grows
<1> QED
  BY <1>1, InvHolds, PTL

-----------------------------------------------------------------------------
(* Which writes a feed gets.                                               *)

\* A write on the fast path found no feed, and the feeds that came since know of it.
\* A queue never holds more than its capacity.
FastOK ==
  /\ late \in [Sessions -> SUBSET Writers] /\ owed \in [Writers -> SUBSET Sessions]
  /\ \A w \in Writers : pc[w] = "fast" => owed[w] = {}
  /\ \A s \in reps : Fast \subseteq late[s]
  /\ \A s \in Sessions : Len(queue[s]) <= replicaQueueCap

\* Every step keeps FastOK.
LEMMA StepFast == Inv /\ FastOK /\ [Next]_vars => FastOK'
<1> SUFFICES ASSUME Inv, FastOK, [Next]_vars PROVE FastOK'
  BY Zenon
<1>0. Typed /\ FeedsOK /\ UnusedOK /\ SessionOK
  BY Zenon DEF Inv
<1> USE <1>0
<1>1. ASSUME NEW w \in Writers, Writer(w), ~Propagate(w) PROVE FastOK'
  <2>1. UNCHANGED <<reps, queue>> /\ pc' = [pc EXCEPT ![w] = pc'[w]]
    BY Zenon, <1>1 DEF Writer, Begin, FastDispatch, Finish, Dispatch, DispatchFails, feeds, Typed
  <2>2. CASE Begin(w)
    BY SMTT(30), <2>1, <2>2 DEF Begin, FastOK, Fast, Any, Typed, feeds
  <2>3. CASE FastDispatch(w)
    BY Zenon, <2>1, <2>3 DEF FastDispatch, Finish, FastOK, Fast, Typed
  <2>4. CASE Dispatch(w)
    BY SMTT(30), <2>1, <2>4 DEF Dispatch, FastOK, Fast, Typed, feeds
  <2>5. CASE DispatchFails(w)
    BY <2>1, <2>5 DEF DispatchFails, Finish, FastOK, Fast, Typed, feeds
  <2> QED
    BY Zenon, <1>1, <2>2, <2>3, <2>4, <2>5 DEF Writer
<1>2. ASSUME NEW f \in Int, queue' = Enqueued(f) PROVE \A s \in Sessions : Len(queue'[s]) <= replicaQueueCap
  <2>1. \A s \in Sessions : queue[s] \in Seq(Int) /\ Len(queue[s]) \in Nat /\ Len(queue[s]) <= replicaQueueCap
    BY DEF Typed, FastOK
  <2>2. \A s \in Sessions : Len(Append(queue[s], f)) = Len(queue[s]) + 1
    BY Zenon, <2>1, AppendFacts
  <2>3. ASSUME NEW s \in Sessions PROVE Len(queue'[s]) <= replicaQueueCap
    BY SMTT(30), <1>2, <2>1, <2>2, ReplicationAssumption DEF Enqueued
  <2> QED
    BY Zenon, <2>3
<1>3. ASSUME NEW w \in Writers, Propagate(w) PROVE FastOK'
  <2>1. \A s \in Sessions : Len(queue'[s]) <= replicaQueueCap
    BY Zenon, <1>2, <1>3 DEF Propagate, Typed
  <2> QED
    BY Zenon, <1>3, <2>1 DEF Propagate, Finish, FastOK, Fast, Typed
<1>4. ASSUME Heartbeat PROVE FastOK'
  <2>1. \A s \in Sessions : Len(queue'[s]) <= replicaQueueCap
    BY <1>2, <1>4 DEF Heartbeat, PING
  <2> QED
    BY Zenon, <1>4, <2>1 DEF Heartbeat, FastOK, Fast
<1>5. ASSUME NEW s \in Sessions, Serving(s) PROVE FastOK'
  <2>1. UNCHANGED <<pc, owed>>
    BY Zenon, <1>5 DEF Serving, replicaofAck, replicaofAdd, deliverReplica, Acked, Remove, CloseFeed, primary
  <2>2. CASE replicaofAdd(s)
    BY SMTT(30), <2>1, <2>2 DEF replicaofAdd, FastOK, Fast, Typed
  <2>3. CASE deliverReplica(s)
    <3>1. queue[s] \in Seq(Int) /\ Len(queue[s]) <= replicaQueueCap
      BY Zenon DEF Typed, FastOK
    <3>2. queue[s] # <<>> => Len(Tail(queue[s])) <= replicaQueueCap
      BY <3>1, TailFacts, ReplicationAssumption
    <3>3. \A t \in Sessions : Len(queue'[t]) <= replicaQueueCap
      BY <2>3, <3>2, Zenon DEF deliverReplica, FastOK, Typed
    <3> QED
      BY Zenon, <2>1, <2>3, <3>3 DEF deliverReplica, FastOK, Fast
  <2>4. CASE CloseFeed(s)
    BY SMTT(30), <2>1, <2>4, ReplicationAssumption DEF CloseFeed, FastOK, Fast, Typed
  <2>5. CASE replicaofAck(s) \/ Acked(s)
    BY Zenon, <2>1, <2>5 DEF replicaofAck, Acked, FastOK, Fast
  <2>6. CASE Remove(s)
    BY Zenon, <2>1, <2>6 DEF Remove, FastOK, Fast, Typed
  <2> QED
    BY Zenon, <1>5, <2>2, <2>3, <2>4, <2>5, <2>6 DEF Serving
<1>6. ASSUME NEW s \in Sessions, Break(s) PROVE FastOK'
  BY Zenon, <1>6 DEF Break, FastOK, Fast, primary, feeds
<1>7. ASSUME NEW r \in Replicas, RunReplica(r) PROVE FastOK'
  <2>1. UNCHANGED <<pc, owed, reps, late, queue>>
    BY Zenon, <1>7 DEF RunReplica, Dial, Handshake, Stream, SessionEnds, Stall, Restart, primary, feeds
  <2> QED
    BY Zenon, <2>1 DEF FastOK, Fast
<1>8. CASE UNCHANGED vars
  BY Zenon, <1>8 DEF vars, FastOK, Fast, primary, feeds
<1> QED
  BY Zenon, <1>1, <1>3, <1>4, <1>5, <1>6, <1>7, <1>8 DEF Next

\* FastOK holds throughout.
LEMMA FastHolds == Spec => [](Inv /\ FastOK)
<1>1. Init => FastOK
  BY ReplicationAssumption DEF Init, FastOK, Fast
<1> QED
  BY <1>1, InitInv, StepInv, StepFast, PTL DEF Spec

\* The fast path passes a registered feed by only for writes that had asked for
\* replicas before the feed was registered.
THEOREM FewMissed == Spec => []MissesFewWrites
<1>1. FastOK => MissesFewWrites
  BY Zenon DEF FastOK, MissesFewWrites
<1> QED
  BY <1>1, FastHolds, PTL

\* A write reaches the queue of every feed that was there when its request began,
\* and still is, before its client is answered, unless that queue is full.
THEOREM WritesAreStreamed == Spec => Streamed
<1> DEFINE Queued == \A w \in Writers : pc[w] \in {"fast", "applied"} /\ pc'[w] = "idle" =>
                       \A s \in owed[w] \cap reps :
                         Len(queue[s]) = replicaQueueCap \/ queue'[s] = Append(queue[s], op[w])
<1>1. ASSUME Inv, FastOK, [Next]_vars PROVE [Queued]_vars
  <2> SUFFICES ASSUME NEW w \in Writers, pc[w] \in {"fast", "applied"}, pc'[w] = "idle",
                      NEW s \in owed[w] \cap reps, Len(queue[s]) # replicaQueueCap
               PROVE  queue'[s] = Append(queue[s], op[w])
    BY Zenon
  <2>1. pc[w] = "applied" /\ s \in Sessions /\ s \in reps
    BY Zenon, <1>1 DEF FastOK, Inv, Typed
  <2>2. Len(queue[s]) < replicaQueueCap
    <3>1. queue[s] \in Seq(Int)
      BY Zenon, <1>1, <2>1 DEF Inv, Typed
    <3>2. Len(queue[s]) \in Nat /\ Len(queue[s]) <= replicaQueueCap
      BY <1>1, <2>1, <3>1 DEF FastOK
    <3> QED
      BY SMTT(30), <3>2, ReplicationAssumption
  <2>3. ASSUME NEW v \in Writers, Writer(v) PROVE v = w /\ Propagate(w)
    BY Zenon, <1>1, <2>1, <2>3 DEF Writer, Begin, FastDispatch, Dispatch, DispatchFails, Propagate, Finish, Inv, Typed
  <2>4. Propagate(w)
    BY Zenon, <1>1, <2>1, <2>3 DEF Next, Heartbeat, Serving, replicaofAck, replicaofAdd, deliverReplica, Acked,
          Remove, CloseFeed, Break, RunReplica, Dial, Handshake, Stream, SessionEnds, Stall, Restart,
          primary, vars
  <2> QED
    BY Zenon, <2>1, <2>2, <2>4 DEF Propagate, Enqueued
<1>2. [](Inv /\ FastOK) /\ [][Next]_vars => [][Queued]_vars
  BY <1>1, PTL
<1> QED
  BY <1>2, FastHolds, PTL DEF Spec, Streamed

-----------------------------------------------------------------------------
(* Types and bounds.                                                       *)

INSTANCE FiniteSetTheorems

\* The store's turns, those of the writers on their way included, stay within the
\* bound on writes, so every frame is one of Frames.
CountOK ==
  /\ pings \in Nat /\ acks \in [Sessions -> Nat] /\ op \in [Writers -> Nat]
  /\ writes + Cardinality(InFlight) <= MaxWrites

\* A writer that sets out, and one that arrives.
LEMMA FlightFacts ==
  /\ IsFiniteSet(InFlight) /\ Cardinality(InFlight) \in Nat
  /\ \A w \in Writers : IsFiniteSet(InFlight \cup {w}) /\ IsFiniteSet(InFlight \ {w})
  /\ \A w \in Writers \ InFlight : Cardinality(InFlight \cup {w}) = Cardinality(InFlight) + 1
  /\ \A w \in InFlight : Cardinality(InFlight \ {w}) = Cardinality(InFlight) - 1
<1>1. IsFiniteSet(InFlight)
  BY Zenon, ReplicationAssumption, FS_Subset DEF InFlight
<1> QED
  BY Zenon, <1>1, FS_CardinalityType, FS_AddElement, FS_RemoveElement

\* Every step keeps CountOK.
LEMMA StepCount == Inv /\ CountOK /\ [Next]_vars => CountOK'
<1> SUFFICES ASSUME Inv, CountOK, [Next]_vars PROVE CountOK'
  BY Zenon
<1>0. Typed /\ CountOK
  BY Zenon DEF Inv
<1>n. writes \in Nat /\ Cardinality(InFlight) \in Nat /\ MaxWrites \in Nat
  BY Zenon, <1>0, FlightFacts, ReplicationAssumption DEF Typed
<1>1. ASSUME NEW w \in Writers, Writer(w) PROVE CountOK'
  <2>1. UNCHANGED <<pings, acks>>
    BY Zenon, <1>1 DEF Writer, Begin, FastDispatch, Dispatch, DispatchFails, Propagate, net
  <2>2. op' \in [Writers -> Nat]
    BY SMTT(30), <1>0, <1>1, <1>n DEF Writer, Begin, FastDispatch, Dispatch, DispatchFails, Propagate, Finish, CountOK
  <2>3. CASE Begin(w)
    <3>1. UNCHANGED writes /\ w \in Writers \ InFlight /\ InFlight' = InFlight \cup {w}
      BY Zenon, <1>0, <2>3 DEF Begin, InFlight, Typed
    <3>2. writes + Cardinality(InFlight) < MaxWrites
      BY Zenon, <2>3 DEF Begin
    <3>3. Cardinality(InFlight') = Cardinality(InFlight) + 1
      BY Zenon, <3>1, FlightFacts
    <3>4. writes' + Cardinality(InFlight') <= MaxWrites
      BY SMTT(30), <1>n, <3>1, <3>2, <3>3
    <3> QED
      BY Zenon, <1>0, <2>1, <2>2, <3>4 DEF CountOK
  <2>4. CASE FastDispatch(w) \/ Dispatch(w) \/ DispatchFails(w)
    <3>1. writes' \in {writes, writes + 1} /\ w \in InFlight /\ InFlight' = InFlight \ {w}
      BY Zenon, <1>0, <2>4 DEF FastDispatch, Dispatch, DispatchFails, Finish, InFlight, Typed
    <3>2. Cardinality(InFlight') = Cardinality(InFlight) - 1
      BY Zenon, <3>1, FlightFacts
    <3>3. writes' + Cardinality(InFlight') <= MaxWrites
      BY SMTT(30), <1>0, <1>n, <3>1, <3>2 DEF CountOK
    <3> QED
      BY Zenon, <1>0, <2>1, <2>2, <3>3 DEF CountOK
  <2>5. CASE Propagate(w)
    <3>1. UNCHANGED writes /\ InFlight' = InFlight
      BY Zenon, <1>0, <2>5 DEF Propagate, Finish, InFlight, Typed
    <3> QED
      BY Zenon, <1>0, <2>1, <2>2, <3>1 DEF CountOK
  <2> QED
    BY Zenon, <1>1, <2>3, <2>4, <2>5 DEF Writer
<1>2. ASSUME UNCHANGED <<writes, pc, op>>, pings' \in Nat, acks' \in [Sessions -> Nat]
      PROVE  CountOK'
  <2>1. InFlight' = InFlight
    BY Zenon, <1>2 DEF InFlight
  <2> QED
    BY Zenon, <1>0, <1>2, <2>1 DEF CountOK
<1>3. CASE Heartbeat
  <2>1. UNCHANGED <<writes, pc, op, acks>> /\ pings' = pings + 1
    BY Zenon, <1>3 DEF Heartbeat, net
  <2> QED
    BY SMTT(30), <1>0, <1>2, <2>1 DEF CountOK
<1>4. ASSUME NEW s \in Sessions, Serving(s) \/ Break(s) PROVE CountOK'
  <2>1. UNCHANGED <<writes, pc, op, pings>>
    BY Zenon, <1>4 DEF Serving, replicaofAck, replicaofAdd, deliverReplica, Acked, Remove, CloseFeed, Break, primary
  <2>2. acks' \in [Sessions -> Nat]
    <3>1. CASE Acked(s)
      BY SMTT(30), <1>0, <3>1 DEF Acked, CountOK
    <3>2. CASE Remove(s)
      BY Zenon, <1>0, <3>2 DEF Remove, CountOK
    <3>3. CASE UNCHANGED acks
      BY Zenon, <1>0, <3>3 DEF CountOK
    <3> QED
      BY Zenon, <1>4, <3>1, <3>2, <3>3 DEF Serving, replicaofAck, replicaofAdd, deliverReplica, CloseFeed, Break, net
  <2> QED
    BY Zenon, <1>0, <1>2, <2>1, <2>2 DEF CountOK
<1>5. ASSUME NEW r \in Replicas, RunReplica(r) PROVE CountOK'
  <2>1. UNCHANGED <<writes, pc, op, pings>>
    BY Zenon, <1>5 DEF RunReplica, Dial, Handshake, Stream, SessionEnds, Stall, Restart, primary
  <2>2. acks' \in [Sessions -> Nat]
    <3>1. CASE Stream(r)
      <4>1. PICK x : x = session[r]
        BY Zenon
      <4>2. \/ UNCHANGED acks
            \/ acks' = [acks EXCEPT ![x] = IF link[x] = "up" THEN acks[x] + 1 ELSE acks[x]]
        BY Zenon, <3>1, <4>1 DEF Stream
      <4>3. acks \in [Sessions -> Nat]
        BY Zenon, <1>0 DEF CountOK
      <4> QED
        BY <4>2, <4>3
    <3>2. CASE UNCHANGED acks
      BY Zenon, <1>0, <3>2 DEF CountOK
    <3> QED
      BY Zenon, <1>5, <3>1, <3>2 DEF RunReplica, Dial, Handshake, SessionEnds, Stall, Restart, net
  <2> QED
    BY Zenon, <1>0, <1>2, <2>1, <2>2 DEF CountOK
<1>6. CASE UNCHANGED vars
  BY Zenon, <1>0, <1>2, <1>6 DEF vars, primary, net, CountOK
<1> QED
  BY Zenon, <1>1, <1>3, <1>4, <1>5, <1>6 DEF Next

\* A queue of numbers that are all frames is a queue of frames.
LEMMA FramesOnly ==
  ASSUME NEW q \in Seq(Int), Vals(q) \subseteq Frames
  PROVE  q \in Seq(Frames)
<1>1. \A i \in 1 .. Len(q) : q[i] \in Frames
  BY Zenon DEF Vals
<1> QED
  BY <1>1

\* The state always has its type: no feed's queue outgrows its capacity, and what
\* travels is a +OK, a heartbeat or a write.
THEOREM TypeCorrect == Spec => []TypeOK
<1>1. ASSUME Inv, FastOK, CountOK PROVE TypeOK
  <2>1. Typed /\ PastOK /\ Cardinality(InFlight) \in Nat /\ MaxWrites \in Nat
    BY Zenon, <1>1, FlightFacts, ReplicationAssumption DEF Inv
  <2>2. writes \in Nat /\ writes <= MaxWrites
    BY <1>1, <2>1 DEF CountOK, Typed
  <2>3. \A f \in Int : f <= writes /\ (f = OK \/ f >= 0) => f \in Frames
    BY SMTT(30), <2>1, <2>2 DEF Frames, OK, PING
  <2>4. \A s \in Sessions : queue[s] \in Seq(Int) /\ Vals(queue[s]) \subseteq Frames
    BY Zenon, <2>1, <2>3 DEF Typed, PastOK, Past
  <2>5. \A s \in Sessions : wire[s] \in Seq(Int) /\ Vals(wire[s]) \subseteq Frames
    BY Zenon, <2>1, <2>3 DEF Typed, PastOK, Past
  <2>6. \A r \in Replicas : applied[r] \in Seq(Int) /\ Vals(applied[r]) \subseteq Frames
    <3>1. \A f \in Int : f > 0 => f >= 0
      OBVIOUS
    <3> QED
      BY Zenon, <2>1, <2>3, <3>1 DEF Typed, PastOK, Past
  <2>7. /\ \A s \in Sessions : queue[s] \in Seq(Frames)
        /\ wire \in [Sessions -> Seq(Frames)] /\ applied \in [Replicas -> Seq(Frames)]
    <3>1. \A s \in Sessions : queue[s] \in Seq(Frames) /\ wire[s] \in Seq(Frames)
      BY Zenon, <2>4, <2>5, FramesOnly
    <3>2. \A r \in Replicas : applied[r] \in Seq(Frames)
      BY Zenon, <2>6, FramesOnly
    <3>3. wire \in [Sessions -> Seq(Int)] /\ applied \in [Replicas -> Seq(Int)]
      BY Zenon, <2>1 DEF Typed
    <3> QED
      BY Zenon, <3>1, <3>2, <3>3
  <2> QED
    BY <1>1, <2>1, <2>7 DEF TypeOK, Typed, FastOK, CountOK
<1>2. Init => CountOK
  <2> SUFFICES ASSUME Init PROVE CountOK
    OBVIOUS
  <2>1. InFlight = {}
    BY DEF Init, InFlight
  <2> QED
    BY SMTT(30), <2>1, FS_EmptySet, ReplicationAssumption DEF Init, CountOK
<1> QED
  BY <1>1, <1>2, StepCount, FastHolds, PTL DEF Spec
=============================================================================
