---------------------------- MODULE Replication -----------------------------
(***************************************************************************)
(* Replication: the write path of a primary (applyRecord with its fast     *)
(* path), the registry of replica feeds (internal/replication/primary.go), *)
(* the connection that REPLICAOF turns into a feed                         *)
(* (internal/server/replication.go) and the replica's loop (RunReplica).   *)
(*                                                                         *)
(* A write is the number of its turn in the primary's store.  A session is *)
(* one connection between a replica and the primary; a replica that lost   *)
(* its connection opens another, while the primary may still hold on to    *)
(* the old one.                                                            *)
(***************************************************************************)
EXTENDS Integers, Sequences, FiniteSets

CONSTANTS
  Writers,          \* client connections of the primary that write
  Replicas,         \* servers started with --replicaof
  replicaQueueCap,  \* frames a feed holds (256 in the code)
  WireCap,          \* frames the sockets and the delivery goroutine hold
  MaxWrites,        \* bound: writes in a behaviour
  MaxPings,         \* bound: heartbeats in a behaviour
  MaxSessions,      \* bound: connections in a behaviour
  HasAof,           \* the primary has an append-only file: s.aof # nil
  None

ASSUME ReplicationAssumption ==
  /\ IsFiniteSet(Writers) /\ None \notin Writers /\ None \notin Replicas
  /\ replicaQueueCap \in Nat \ {0} /\ WireCap \in Nat \ {0}
  /\ HasAof \in BOOLEAN
  /\ MaxWrites \in Nat /\ MaxPings \in Nat /\ MaxSessions \in Nat

Sessions == 1 .. MaxSessions

\* What travels on a session: the handshake's +OK, heartbeats and writes.
OK == -1
PING == 0
Frames == {OK, PING} \cup 1 .. MaxWrites

VARIABLES
  writes,   \* writes the primary's store has seen
  writeMu,  \* the holder of the server's write lock
  pc,       \* pc[w]: how far w has come in applyRecord
  op,       \* op[w]: its write, once applied
  owed,     \* owed[w]: the feeds that were registered when w's request began
  pings,    \* heartbeats so far
  reps,     \* Replicas.reps: the registered feeds
  owner,    \* owner[s]: the replica that opened session s
  link,     \* link[s]: the TCP connection
  handler,  \* handler[s]: the primary's goroutine for s
  queue,    \* queue[s]: Replica.ch
  closed,   \* closed[s]: Replica.ch is closed
  deliver,  \* deliver[s]: the goroutine deliverReplica
  wire,     \* wire[s]: frames on their way to the replica
  acks,     \* acks[s]: REPLCONF ACKs on their way back
  late,     \* late[s]: writers past the question Any when s was registered
  mode,     \* mode[r]: what replica r is doing
  session,  \* session[r]: the session it is doing it on
  applied   \* applied[r]: the writes in r's store, in the order applied

primary == <<writes, writeMu, pc, op, owed, pings>>
feeds   == <<reps, handler, queue, closed, deliver, late>>
net     == <<owner, link, wire, acks>>
replica == <<mode, session, applied>>
vars    == <<primary, feeds, net, replica>>

Init ==
  /\ writes = 0 /\ writeMu = None /\ pings = 0
  /\ pc = [w \in Writers |-> "idle"] /\ op = [w \in Writers |-> 0]
  /\ owed = [w \in Writers |-> {}]
  /\ reps = {} /\ owner = [s \in Sessions |-> None]
  /\ link = [s \in Sessions |-> "none"] /\ handler = [s \in Sessions |-> "none"]
  /\ queue = [s \in Sessions |-> <<>>] /\ closed = [s \in Sessions |-> FALSE]
  /\ deliver = [s \in Sessions |-> "off"]
  /\ wire = [s \in Sessions |-> <<>>] /\ acks = [s \in Sessions |-> 0]
  /\ late = [s \in Sessions |-> {}]
  /\ mode = [r \in Replicas |-> "idle"] /\ session = [r \in Replicas |-> 0]
  /\ applied = [r \in Replicas |-> <<>>]

-----------------------------------------------------------------------------
(* The primary's write path: applyRecord.                                  *)

Any == reps # {}

Fast == {w \in Writers : pc[w] = "fast"}

InFlight == {w \in Writers : pc[w] \in {"fast", "wait"}}

\* Mutant: the fast path does not ask for replicas.
Begin_NoAny(w) ==
  /\ pc[w] = "idle" /\ writes + Cardinality(InFlight) < MaxWrites
  /\ pc' = [pc EXCEPT ![w] = IF ~HasAof THEN "fast" ELSE "wait"]
  /\ owed' = [owed EXCEPT ![w] = reps]
  /\ UNCHANGED <<writes, writeMu, op, pings, feeds, net, replica>>

\* Without a log and without replicas a write needs no order.  The question is
\* asked once, before the lock.
Begin(w) ==
  /\ pc[w] = "idle" /\ writes + Cardinality(InFlight) < MaxWrites
  /\ pc' = [pc EXCEPT ![w] = IF ~HasAof /\ ~Any THEN "fast" ELSE "wait"]
  /\ owed' = [owed EXCEPT ![w] = reps]
  /\ UNCHANGED <<writes, writeMu, op, pings, feeds, net, replica>>

\* The client gets its reply.
Finish(w) ==
  /\ pc' = [pc EXCEPT ![w] = "idle"]
  /\ op' = [op EXCEPT ![w] = 0]
  /\ owed' = [owed EXCEPT ![w] = {}]

\* The fast path: Dispatch, with whatever replicas have come since.
FastDispatch(w) ==
  /\ pc[w] = "fast"
  /\ writes' = writes + 1
  /\ late' = [s \in Sessions |-> late[s] \ {w}]
  /\ Finish(w)
  /\ UNCHANGED <<writeMu, pings, reps, handler, queue, closed, deliver, net, replica>>

\* Mutant: does not wait for the lock.
Dispatch_NoLock(w) ==
  /\ pc[w] = "wait"
  /\ writeMu' = w
  /\ writes' = writes + 1
  /\ op' = [op EXCEPT ![w] = writes']
  /\ pc' = [pc EXCEPT ![w] = "applied"]
  /\ UNCHANGED <<owed, pings, feeds, net, replica>>

\* Under writeMu: Dispatch and the append to the log (module Aof) ...
Dispatch(w) ==
  /\ pc[w] = "wait" /\ writeMu = None
  /\ writeMu' = w
  /\ writes' = writes + 1
  /\ op' = [op EXCEPT ![w] = writes']
  /\ pc' = [pc EXCEPT ![w] = "applied"]
  /\ UNCHANGED <<owed, pings, feeds, net, replica>>

\* ... where a command that fails changes nothing and goes nowhere ...
DispatchFails(w) ==
  /\ pc[w] = "wait" /\ writeMu = None
  /\ Finish(w)
  /\ UNCHANGED <<writes, writeMu, pings, feeds, net, replica>>

\* Mutant: the queue has no bound.
Enqueued_Unbounded(f) ==
  [s \in Sessions |-> IF s \in reps THEN Append(queue[s], f) ELSE queue[s]]

\* One frame for every registered feed, dropped where the queue is full.  The
\* registry's read lock is held throughout: no feed comes or goes meanwhile.
Enqueued(f) ==
  [s \in Sessions |-> IF s \in reps /\ Len(queue[s]) < replicaQueueCap
                      THEN Append(queue[s], f) ELSE queue[s]]

\* Mutant: waits for room in the queues.
Propagate_Blocks(w) ==
  /\ pc[w] = "applied"
  /\ \A s \in reps : Len(queue[s]) < replicaQueueCap
  /\ queue' = Enqueued(op[w])
  /\ Finish(w)
  /\ writeMu' = None
  /\ UNCHANGED <<writes, pings, reps, handler, closed, deliver, late, net, replica>>

\* Mutant: propagates only what it logs.
Propagate_LoggedOnly(w) ==
  /\ pc[w] = "applied"
  /\ queue' = IF HasAof THEN Enqueued(op[w]) ELSE queue
  /\ Finish(w)
  /\ writeMu' = None
  /\ UNCHANGED <<writes, pings, reps, handler, closed, deliver, late, net, replica>>

\* ... and Propagate, before the lock is released.
Propagate(w) ==
  /\ pc[w] = "applied"
  /\ queue' = Enqueued(op[w])
  /\ Finish(w)
  /\ writeMu' = None
  /\ UNCHANGED <<writes, pings, reps, handler, closed, deliver, late, net, replica>>

\* runReplicaHeartbeat: a PING to everyone, outside writeMu.
Heartbeat ==
  /\ pings < MaxPings /\ Any
  /\ pings' = pings + 1
  /\ queue' = Enqueued(PING)
  /\ UNCHANGED <<writes, writeMu, pc, op, owed, reps, handler, closed, deliver, late, net, replica>>

-----------------------------------------------------------------------------
(* The primary's connection to a replica.                                  *)

\* Mutant: registers the feed before the handshake is answered.
replicaofAck_Late(s) ==
  /\ handler[s] = "accepted" /\ link[s] = "up"
  /\ handler' = [handler EXCEPT ![s] = "serving"]
  /\ reps' = reps \cup {s}
  /\ deliver' = [deliver EXCEPT ![s] = "running"]
  /\ late' = [late EXCEPT ![s] = Fast]
  /\ UNCHANGED <<primary, queue, closed, net, replica>>

\* replicaof writes the +OK first ...
replicaofAck(s) ==
  /\ handler[s] = "accepted" /\ link[s] = "up"
  /\ wire' = [wire EXCEPT ![s] = Append(@, OK)]
  /\ handler' = [handler EXCEPT ![s] = "acked"]
  /\ UNCHANGED <<primary, reps, queue, closed, deliver, late, owner, link, acks, replica>>

\* ... then registers the feed and starts the goroutine that drains it.
replicaofAdd(s) ==
  /\ handler[s] = "acked"
  /\ reps' = reps \cup {s}
  /\ deliver' = [deliver EXCEPT ![s] = "running"]
  /\ handler' = [handler EXCEPT ![s] = "serving"]
  /\ late' = [late EXCEPT ![s] = Fast]
  /\ UNCHANGED <<primary, queue, closed, net, replica>>

\* Mutant: ends when the queue is empty.
deliverReplica_StopsWhenEmpty(s) ==
  /\ deliver[s] = "running"
  /\ \/ /\ queue[s] # <<>> /\ link[s] = "up" /\ Len(wire[s]) < WireCap
        /\ wire' = [wire EXCEPT ![s] = Append(@, Head(queue[s]))]
        /\ queue' = [queue EXCEPT ![s] = Tail(@)]
        /\ UNCHANGED deliver
     \/ /\ queue[s] = <<>> \/ link[s] = "down"
        /\ deliver' = [deliver EXCEPT ![s] = "done"]
        /\ UNCHANGED <<queue, wire>>
  /\ UNCHANGED <<primary, reps, handler, closed, late, owner, link, acks, replica>>

\* deliverReplica ships the frames one by one, as the socket takes them.  It ends
\* when a write fails or when the closed queue is empty.
deliverReplica(s) ==
  /\ deliver[s] = "running"
  /\ \/ /\ queue[s] # <<>> /\ link[s] = "up" /\ Len(wire[s]) < WireCap
        /\ wire' = [wire EXCEPT ![s] = Append(@, Head(queue[s]))]
        /\ queue' = [queue EXCEPT ![s] = Tail(@)]
        /\ UNCHANGED deliver
     \/ /\ (queue[s] # <<>> /\ link[s] = "down") \/ (queue[s] = <<>> /\ closed[s])
        /\ deliver' = [deliver EXCEPT ![s] = "done"]
        /\ UNCHANGED <<queue, wire>>
  /\ UNCHANGED <<primary, reps, handler, closed, late, owner, link, acks, replica>>

\* A REPLCONF from a replica's connection is not answered.  (The time it came,
\* lastAck, goes into warnings and metrics only.)
Acked(s) ==
  /\ handler[s] = "serving" /\ acks[s] > 0
  /\ acks' = [acks EXCEPT ![s] = @ - 1]
  /\ UNCHANGED <<primary, reps, handler, queue, closed, deliver, late, owner, link, wire, replica>>

\* Mutant: closes the queue while the feed is registered.
Remove_ClosesFirst(s) ==
  /\ handler[s] \in {"accepted", "serving"} /\ link[s] = "down"
  /\ closed' = [closed EXCEPT ![s] = TRUE]
  /\ handler' = [handler EXCEPT ![s] = IF s \in reps THEN "removed" ELSE "gone"]
  /\ acks' = [acks EXCEPT ![s] = 0]
  /\ UNCHANGED <<primary, reps, queue, deliver, late, owner, link, wire, replica>>

\* The handler's read (or the write of the +OK) fails: removeReplica takes the
\* feed out of the registry under its lock ...
Remove(s) ==
  /\ handler[s] \in {"accepted", "serving"} /\ link[s] = "down"
  /\ reps' = reps \ {s}
  /\ handler' = [handler EXCEPT ![s] = IF s \in reps THEN "removed" ELSE "gone"]
  /\ late' = [late EXCEPT ![s] = {}]
  /\ acks' = [acks EXCEPT ![s] = 0]
  /\ UNCHANGED <<primary, queue, closed, deliver, owner, link, wire, replica>>

\* ... and closes its queue after letting go of the lock.  Of the frames still in
\* it deliverReplica would fail to write the first and end, since a handler only gets
\* here when its link is down: they are dropped at once.
CloseFeed(s) ==
  /\ handler[s] = "removed"
  /\ closed' = [closed EXCEPT ![s] = TRUE]
  /\ queue' = [queue EXCEPT ![s] = <<>>]
  /\ handler' = [handler EXCEPT ![s] = "gone"]
  /\ UNCHANGED <<primary, reps, deliver, late, net, replica>>

-----------------------------------------------------------------------------
(* RunReplica, and the network between the two.                            *)

\* streamOnce dials and sends REPLICAOF.
Dial(r) ==
  /\ mode[r] = "idle"
  /\ \E s \in Sessions :
       /\ owner[s] = None /\ \A t \in Sessions : t < s => owner[t] # None
       /\ owner' = [owner EXCEPT ![s] = r]
       /\ link' = [link EXCEPT ![s] = "up"]
       /\ handler' = [handler EXCEPT ![s] = "accepted"]
       /\ session' = [session EXCEPT ![r] = s]
  /\ mode' = [mode EXCEPT ![r] = "handshake"]
  /\ UNCHANGED <<primary, reps, queue, closed, deliver, late, wire, acks, applied>>

\* Anything but a simple string in answer to REPLICAOF ends the session.
Handshake(r) ==
  LET s == session[r]
  IN  /\ mode[r] = "handshake" /\ wire[s] # <<>>
      /\ wire' = [wire EXCEPT ![s] = Tail(@)]
      /\ IF Head(wire[s]) = OK
         THEN /\ mode' = [mode EXCEPT ![r] = "stream"]
              /\ UNCHANGED link
         ELSE /\ mode' = [mode EXCEPT ![r] = "idle"]
              /\ link' = [link EXCEPT ![s] = "down"]
      /\ UNCHANGED <<primary, feeds, owner, acks, session, applied>>

\* A heartbeat is acknowledged; any other frame is a command to apply.
Stream(r) ==
  LET s == session[r]
      f == Head(wire[s])
  IN  /\ mode[r] = "stream" /\ wire[s] # <<>>
      /\ wire' = [wire EXCEPT ![s] = Tail(@)]
      /\ IF f = PING
         THEN /\ acks' = [acks EXCEPT ![s] = IF link[s] = "up" THEN @ + 1 ELSE @]
              /\ UNCHANGED applied
         ELSE /\ applied' = [applied EXCEPT ![r] = Append(@, f)]
              /\ UNCHANGED acks
      /\ UNCHANGED <<primary, feeds, owner, link, mode, session>>

\* The session is over: a read fails, perhaps after what had already arrived.
\* The store stays as it is, and the replica dials again after a while.
SessionEnds(r) ==
  /\ mode[r] \in {"handshake", "stream"} /\ link[session[r]] = "down"
  /\ mode' = [mode EXCEPT ![r] = "idle"]
  /\ wire' = [wire EXCEPT ![session[r]] = <<>>]
  /\ UNCHANGED <<primary, feeds, owner, link, acks, session, applied>>

\* A replica hangs: it stays connected and reads nothing any more.
Stall(r) ==
  /\ mode[r] = "stream"
  /\ mode' = [mode EXCEPT ![r] = "stuck"]
  /\ UNCHANGED <<primary, feeds, net, session, applied>>

\* A replica that is restarted comes up empty.
Restart(r) ==
  /\ mode[r] # "idle"
  /\ link' = [link EXCEPT ![session[r]] = "down"]
  /\ mode' = [mode EXCEPT ![r] = "idle"]
  /\ applied' = [applied EXCEPT ![r] = <<>>]
  /\ wire' = [wire EXCEPT ![session[r]] = <<>>]
  /\ UNCHANGED <<primary, feeds, owner, acks, session>>

\* The connection breaks.
Break(s) ==
  /\ link[s] = "up"
  /\ link' = [link EXCEPT ![s] = "down"]
  /\ UNCHANGED <<primary, feeds, owner, wire, acks, replica>>

-----------------------------------------------------------------------------
Writer(w) ==
  Begin(w) \/ FastDispatch(w) \/ Dispatch(w) \/ DispatchFails(w) \/ Propagate(w)

Serving(s) ==
  \/ replicaofAck(s) \/ replicaofAdd(s) \/ deliverReplica(s)
  \/ Acked(s) \/ Remove(s) \/ CloseFeed(s)

RunReplica(r) ==
  Dial(r) \/ Handshake(r) \/ Stream(r) \/ SessionEnds(r) \/ Stall(r) \/ Restart(r)

Next ==
  \/ \E w \in Writers : Writer(w)
  \/ Heartbeat
  \/ \E s \in Sessions : Serving(s) \/ Break(s)
  \/ \E r \in Replicas : RunReplica(r)

Spec == Init /\ [][Next]_vars

\* Goroutines go on: a write under way finishes, a connection's handler and its
\* delivery goroutine run, and a replica reads what arrives.  Nobody has to write,
\* and nothing keeps a connection up.
Fairness ==
  /\ \A w \in Writers :
       WF_vars(FastDispatch(w) \/ Dispatch(w) \/ DispatchFails(w) \/ Propagate(w))
  /\ \A s \in Sessions :
       /\ WF_vars(replicaofAck(s) \/ replicaofAdd(s) \/ Remove(s) \/ CloseFeed(s))
       /\ WF_vars(deliverReplica(s)) /\ WF_vars(Acked(s))
  /\ \A r \in Replicas : WF_vars(Handshake(r) \/ Stream(r) \/ SessionEnds(r))

FairSpec == Spec /\ Fairness

-----------------------------------------------------------------------------
(* Properties.                                                             *)

\* The type invariant; a feed never holds more frames than its capacity.
TypeOK ==
  /\ writes \in Nat /\ pings \in Nat
  /\ writeMu \in Writers \cup {None}
  /\ pc \in [Writers -> {"idle", "fast", "wait", "applied"}]
  /\ op \in [Writers -> Nat] /\ owed \in [Writers -> SUBSET Sessions]
  /\ reps \subseteq Sessions
  /\ owner \in [Sessions -> Replicas \cup {None}]
  /\ link \in [Sessions -> {"none", "up", "down"}]
  /\ handler \in [Sessions -> {"none", "accepted", "acked", "serving", "removed", "gone"}]
  /\ \A s \in Sessions : queue[s] \in Seq(Frames) /\ Len(queue[s]) <= replicaQueueCap
  /\ wire \in [Sessions -> Seq(Frames)]
  /\ closed \in [Sessions -> BOOLEAN]
  /\ deliver \in [Sessions -> {"off", "running", "done"}]
  /\ acks \in [Sessions -> Nat] /\ late \in [Sessions -> SUBSET Writers]
  /\ mode \in [Replicas -> {"idle", "handshake", "stream", "stuck"}]
  /\ session \in [Replicas -> Sessions \cup {0}]
  /\ applied \in [Replicas -> Seq(Frames)]

\* Propagate never sends on a closed channel, which would panic and take the
\* server down: Remove takes a feed out of the registry before it closes it.
NeverSendsOnClosed == \A s \in reps : ~closed[s]

\* On every session the +OK comes first and nothing but commands comes after it:
\* the handshake cannot fail because a write overtook the +OK, and no reply of the
\* primary ends up between the streamed commands.
HandshakeThenStream ==
  \A r \in Replicas : mode[r] # "idle" =>
    \A i \in 1 .. Len(wire[session[r]]) :
      (wire[session[r]][i] = OK) <=> (mode[r] = "handshake" /\ i = 1)

\* A replica applies writes in the order of the primary's store and none twice,
\* across all its sessions: reconnecting while the primary still serves the old
\* connection repeats nothing and brings nothing back.
AppliedInOrder ==
  \A r \in Replicas : \A i, j \in 1 .. Len(applied[r]) :
    i < j => applied[r][i] < applied[r][j]

\* A write passes a registered feed by on the fast path only if it was already past
\* the question whether there is a replica when the feed was registered, so at most
\* one write per client connection: from the next request on, every one is streamed.
MissesFewWrites == \A s \in reps : Fast \subseteq late[s]

\* A write is queued for every feed that was registered when its request began and
\* still is, unless that feed's queue is full, and its client is answered after
\* that: the question asked before the lock and the feeds found under it agree.
Streamed ==
  [][\A w \in Writers : pc[w] \in {"fast", "applied"} /\ pc'[w] = "idle" =>
       \A s \in owed[w] \cap reps :
         Len(queue[s]) = replicaQueueCap \/ queue'[s] = Append(queue[s], op[w])]_vars

\* A slow or stuck replica never holds up a client of the primary: every write
\* that has begun finishes.
WritesFinish == \A w \in Writers : pc[w] # "idle" ~> pc[w] = "idle"

\* The replica of session s is out of reach: its connection is down or it hangs.
Lost(s) == link[s] = "down" \/ \E r \in Replicas : owner[s] = r /\ mode[r] = "stuck"

\* A replica that is not lost catches up again and again: everything queued for it
\* arrives and is applied there, and every heartbeat is acknowledged and the
\* acknowledgement read.
CaughtUp(s) == queue[s] = <<>> /\ wire[s] = <<>> /\ acks[s] = 0

CatchesUp == \A s \in Sessions : []<>(Lost(s) \/ CaughtUp(s))
=============================================================================
