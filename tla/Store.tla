------------------------------- MODULE Store --------------------------------
(***************************************************************************)
(* internal/db: the sharded keyspace under concurrent callers, the reaper  *)
(* (RunActiveExpiry) and the snapshot an AOF rewrite takes.                *)
(*                                                                         *)
(* One action is one critical section under one shard's lock.  What the    *)
(* code does in several critical sections takes several actions: a GET     *)
(* that finds a dead key drops its read lock and comes back for the write  *)
(* lock; DEL and EXISTS lock key by key; the reaper and the snapshot lock  *)
(* shard by shard and keep using the clock value they read at their start; *)
(* TTL reads the clock a second time.  The clock may move between any two  *)
(* actions.                                                                *)
(***************************************************************************)
EXTENDS Keyspace

CONSTANTS
  Clients,     \* goroutines that call into the store
  Requests,    \* the commands they may send
  ShardCount,  \* shardCount (32 in the code)
  shardFor,    \* the shard of each key: any routing will do
  Sample,      \* activeExpirySample (20 in the code)
  Unit,        \* clock ticks per unit of a TTL reply
  MaxNow,      \* bound: the clock stops here
  MaxLen       \* bound: no list grows longer

Shards == 0 .. ShardCount - 1

ASSUME StoreAssumption ==
  /\ Requests \subseteq Commands
  /\ ShardCount \in Nat \ {0}
  /\ shardFor \in [Keys -> Shards]
  /\ Sample \in Nat \ {0}
  /\ Unit \in Nat \ {0}
  /\ MaxNow \in Nat
  /\ MaxLen \in Nat

VARIABLES
  data,    \* the shards' maps, as one function on keys
  now,     \* the clock
  last,    \* the latest access to a key: command, key, reply
  work,    \* work[p]: what client p is in the middle of
  ttl,     \* the latest TTL reply, with the deadline it was computed from
  reaper,  \* the active-expiry pass
  snap     \* the snapshot of a rewrite, which keeps writers out

vars == <<data, now, last, work, ttl, reaper, snap>>

NoAccess == [cmd |-> Nil, key |-> Nil, reply |-> Nil]

Idle == [op |-> "idle", cmd |-> Nil, keys |-> <<>>, n |-> 0]

NoPass == [phase |-> "idle", now |-> 0, start |-> 0, i |-> 0, sampled |-> 0,
           expired |-> 0]

Empty == [k \in Keys |-> NoEntry]

NoSnap == [phase |-> "idle", now |-> 0, i |-> 0, entries |-> Empty]

Init ==
  /\ data = Empty
  /\ now = 1
  /\ last = NoAccess
  /\ work = [p \in Clients |-> Idle]
  /\ ttl = [deadline |-> Zero, reply |-> -2]
  /\ reaper = NoPass
  /\ snap = NoSnap

View == [k \in Keys |-> liveEntry(data[k], now)]

\* TTL is the one caller that lets time pass while it holds a read lock.
Unlocked(sh) ==
  \A q \in Clients : work[q].op = "ttl" => shardFor[work[q].keys[1]] # sh

Record(c, k, r) == last' = [cmd |-> c, key |-> k, reply |-> r]

Tick ==
  /\ now < MaxNow
  /\ now' = now + 1
  /\ UNCHANGED <<data, last, work, ttl, reaper, snap>>

-----------------------------------------------------------------------------
(* Callers.                                                                *)

\* A handler's argument checks come before it touches the store.
Reject(p, c) ==
  /\ work[p] = Idle
  /\ ~ArgsOK(c)
  /\ Record(c, c.keys[1], errorValue)
  /\ UNCHANGED <<data, now, work, ttl, reaper, snap>>

\* Writers wait for a rewrite to let go of the write path.
WriteKey(p, c) ==
  LET k == c.keys[1]
      r == Effect(liveEntry(data[k], now), now, c)
  IN  /\ work[p] = Idle
      /\ IsWrite(c.name) /\ c.name # "DEL" /\ ArgsOK(c)
      /\ snap.phase = "idle"
      /\ Unlocked(shardFor[k])
      /\ Len(r.entry.list) <= MaxLen
      /\ data' = [data EXCEPT ![k] = r.entry]
      /\ Record(c, k, r.reply)
      /\ UNCHANGED <<now, work, ttl, reaper, snap>>

\* The readers that use peek: a dead entry is ignored and left in the map.
ReadKey(p, c) ==
  LET k == c.keys[1]
  IN  /\ work[p] = Idle
      /\ ~IsWrite(c.name) /\ c.name \notin {"GET", "EXISTS", "TTL"} /\ ArgsOK(c)
      /\ Record(c, k, Effect(liveEntry(data[k], now), now, c).reply)
      /\ UNCHANGED <<data, now, work, ttl, reaper, snap>>

\* GET under the read lock.  A dead key is answered with nil and then evicted,
\* which needs the write lock.
GetRead(p, c) ==
  LET k == c.keys[1]
  IN  /\ work[p] = Idle
      /\ c.name = "GET" /\ ArgsOK(c)
      /\ Record(c, k, Effect(liveEntry(data[k], now), now, c).reply)
      /\ work' = [work EXCEPT ![p] =
                    IF expired(data[k], now)
                    THEN [op |-> "evict", cmd |-> Nil, keys |-> <<k>>, n |-> 0]
                    ELSE Idle]
      /\ UNCHANGED <<data, now, ttl, reaper, snap>>

\* Mutant: evicts without looking again.
expireIfNeeded_NoRecheck(p) ==
  LET k == work[p].keys[1]
  IN  /\ work[p].op = "evict"
      /\ Unlocked(shardFor[k])
      /\ data' = [data EXCEPT ![k] = NoEntry]
      /\ work' = [work EXCEPT ![p] = Idle]
      /\ UNCHANGED <<now, last, ttl, reaper, snap>>

\* Between the two locks the key may have been replaced: it is looked at again.
expireIfNeeded(p) ==
  LET k == work[p].keys[1]
  IN  /\ work[p].op = "evict"
      /\ Unlocked(shardFor[k])
      /\ data' = [data EXCEPT ![k] = liveEntry(@, now)]
      /\ work' = [work EXCEPT ![p] = Idle]
      /\ UNCHANGED <<now, last, ttl, reaper, snap>>

\* DEL and EXISTS go through their keys one lock at a time.  Their reply sums
\* the per-key replies that last records.
KeysBegin(p, c) ==
  /\ work[p] = Idle
  /\ c.name \in {"DEL", "EXISTS"} /\ ArgsOK(c)
  /\ c.name = "DEL" => snap.phase = "idle"
  /\ work' = [work EXCEPT ![p] =
                [op |-> IF c.name = "DEL" THEN "del" ELSE "exists", cmd |-> c,
                 keys |-> c.keys, n |-> 0]]
  /\ UNCHANGED <<data, now, last, ttl, reaper, snap>>

KeysStep(p) ==
  LET w == work[p]
      k == w.keys[1]
      r == Effect(liveEntry(data[k], now), now, w.cmd)
  IN  /\ w.op \in {"del", "exists"}
      /\ IF w.op = "del"
         THEN /\ Unlocked(shardFor[k])
              /\ data' = [data EXCEPT ![k] = r.entry]
         ELSE UNCHANGED data
      /\ Record(w.cmd, k, r.reply)
      /\ work' = [work EXCEPT ![p] =
                    IF Len(w.keys) = 1 THEN Idle
                    ELSE [w EXCEPT !.keys = Tail(w.keys)]]
      /\ UNCHANGED <<now, ttl, reaper, snap>>

\* TTL and PTTL: find the deadline, then ask how far away it is.
TTLPeek(p, c) ==
  LET e == liveEntry(data[c.keys[1]], now)
  IN  /\ work[p] = Idle
      /\ c.name = "TTL" /\ ArgsOK(c)
      /\ IF e.expireAt = Zero
         THEN /\ ttl' = [deadline |-> Zero,
                         reply |-> ttlReply(0, e.kind # "none", FALSE, Unit)]
              /\ UNCHANGED work
         ELSE /\ work' = [work EXCEPT ![p] =
                            [op |-> "ttl", cmd |-> c, keys |-> c.keys, n |-> e.expireAt]]
              /\ UNCHANGED ttl
      /\ UNCHANGED <<data, now, last, reaper, snap>>

TTLUntil(p) ==
  /\ work[p].op = "ttl"
  /\ ttl' = [deadline |-> work[p].n,
             reply |-> ttlReply(work[p].n - now, TRUE, TRUE, Unit)]
  /\ work' = [work EXCEPT ![p] = Idle]
  /\ UNCHANGED <<data, now, last, reaper, snap>>

-----------------------------------------------------------------------------
(* RunActiveExpiry.                                                        *)

\* Mutant: every pass starts at the first shard.
NewPass_FirstShard(start) ==
  [phase |-> "pass", now |-> now, start |-> 0, i |-> 0, sampled |-> 0,
   expired |-> 0]

\* A pass reads the clock once and starts at a random shard.
NewPass(start) ==
  [phase |-> "pass", now |-> now, start |-> start, i |-> 0, sampled |-> 0,
   expired |-> 0]

PassBegin(start) ==
  /\ reaper.phase = "idle"
  /\ reaper' = NewPass(start)
  /\ UNCHANGED <<data, now, last, work, ttl, snap>>

PassMore == reaper.i < ShardCount /\ reaper.sampled < Sample

\* The keys of a shard that carry a deadline: the pass looks at S of them, in
\* the random order of a map iteration, until its budget is spent.
Candidates(sh) == {k \in Keys : shardFor[k] = sh /\ data[k].expireAt # Zero}

PassShard(S) ==
  LET sh   == (reaper.start + reaper.i) % ShardCount
      cand == Candidates(sh)
      left == Sample - reaper.sampled
      dead == {k \in S : expired(data[k], reaper.now)}
  IN  /\ reaper.phase = "pass" /\ PassMore
      /\ Unlocked(sh)
      /\ S \subseteq cand
      /\ Cardinality(S) = left \/ (S = cand /\ Cardinality(S) < left)
      /\ data' = [k \in Keys |-> IF k \in dead THEN NoEntry ELSE data[k]]
      /\ reaper' = [reaper EXCEPT !.i = @ + 1,
                                  !.sampled = @ + Cardinality(S),
                                  !.expired = @ + Cardinality(dead)]
      /\ UNCHANGED <<now, last, work, ttl, snap>>

\* Above a quarter of the sample dead, the next pass starts at once.
PassEnd(start) ==
  /\ reaper.phase = "pass" /\ ~PassMore
  /\ reaper' = IF reaper.sampled > 0 /\ 4 * reaper.expired > reaper.sampled
               THEN NewPass(start) ELSE NoPass
  /\ UNCHANGED <<data, now, last, work, ttl, snap>>

-----------------------------------------------------------------------------
(* Snapshot, called with the write path held.                              *)

\* Mutant: does not wait for the write path.
SnapBegin_NoLock ==
  /\ snap.phase = "idle"
  /\ snap' = [NoSnap EXCEPT !.phase = "scan", !.now = now]
  /\ UNCHANGED <<data, now, last, work, ttl, reaper>>

SnapBegin ==
  /\ snap.phase = "idle"
  /\ \A p \in Clients : work[p].op # "del"
  /\ snap' = [NoSnap EXCEPT !.phase = "scan", !.now = now]
  /\ UNCHANGED <<data, now, last, work, ttl, reaper>>

SnapShard ==
  /\ snap.phase = "scan" /\ snap.i < ShardCount
  /\ snap' = [snap EXCEPT !.i = @ + 1,
                          !.entries = [k \in Keys |->
                             IF shardFor[k] = snap.i THEN liveEntry(data[k], snap.now)
                             ELSE snap.entries[k]]]
  /\ UNCHANGED <<data, now, last, work, ttl, reaper>>

SnapEnd ==
  /\ snap.phase = "scan" /\ snap.i = ShardCount
  /\ snap' = NoSnap
  /\ UNCHANGED <<data, now, last, work, ttl, reaper>>

-----------------------------------------------------------------------------
Caller(p) ==
  \/ expireIfNeeded(p) \/ KeysStep(p) \/ TTLUntil(p)
  \/ \E c \in Requests :
       \/ Reject(p, c) \/ WriteKey(p, c) \/ ReadKey(p, c)
       \/ GetRead(p, c) \/ KeysBegin(p, c) \/ TTLPeek(p, c)

Reap ==
  \/ \E start \in Shards : PassBegin(start) \/ PassEnd(start)
  \/ \E S \in SUBSET Keys : PassShard(S)

Snapshot == SnapBegin \/ SnapShard \/ SnapEnd

Next == Tick \/ (\E p \in Clients : Caller(p)) \/ Reap \/ Snapshot

Spec == Init /\ [][Next]_vars

\* Callers alone, without the reaper and the snapshot.
CallersSpec == Init /\ [][Tick \/ \E p \in Clients : Caller(p)]_vars

\* The reaper's goroutine keeps running (its ticker fires until shutdown), a
\* caller that holds a lock lets go of it, and a rewrite ends.  The start shard
\* and the map iteration are random: no shard is passed over for ever as the
\* place to start, and no key that passes keep having within reach.
Fairness ==
  /\ WF_vars(Reap)
  /\ WF_vars(SnapShard \/ SnapEnd)
  /\ \A p \in Clients : WF_vars(TTLUntil(p))
  /\ \A start \in Shards : SF_vars(PassBegin(start))
  /\ \A k \in Keys : SF_vars(\E S \in SUBSET Keys : k \in S /\ PassShard(S))

FairSpec == Spec /\ Fairness

-----------------------------------------------------------------------------
(* Properties.                                                             *)

\* The type invariant.
Works ==
  [op : {"idle", "evict", "del", "exists", "ttl"}, cmd : Requests \cup {Nil},
   keys : Seq(Keys), n : Nat]

Passes ==
  [phase : {"idle", "pass"}, now : Nat, start : Shards, i : 0 .. ShardCount,
   sampled : 0 .. Sample, expired : Nat]

Snaps ==
  [phase : {"idle", "scan"}, now : Nat, i : 0 .. ShardCount,
   entries : [Keys -> Entries]]

TypeOK ==
  /\ data \in [Keys -> Entries]
  /\ now \in Nat
  /\ work \in [Clients -> Works]
  /\ ttl \in [deadline : Nat, reply : Int]
  /\ reaper \in Passes
  /\ snap \in Snaps

\* Every entry holds the payload of its own kind and nothing else, and a list,
\* hash or set in the store is never empty: the handlers that remove elements
\* (LPOP, RPOP, HDEL, SREM) delete the key with the last one, which the readers
\* and the rewriter (encodeRecord) rely on.
EntriesWellFormed == \A k \in Keys : WellFormed(data[k])

\* At a fixed time a key changes, as callers see it, only by a write command on
\* that key which replied with success, and the reply accounts for the change:
\* the counts of HSET, SADD, HDEL and SREM are the change in size, a push
\* replies with the new length and a pop with the element it took away.  apply
\* logs and propagates exactly the commands this lets through.
Size(e) == Cardinality(Fields(e.hash)) + Cardinality(e.set)

Accounts(old, new, c, r) ==
  /\ IsWrite(c.name) /\ r.type # "error"
  /\ c.name \in {"HSET", "SADD"} => r.int = Size(new) - Size(old)
  /\ c.name \in {"HDEL", "SREM"} => r.int = Size(old) - Size(new)
  /\ c.name \in {"LPUSH", "RPUSH"} => r.int = Len(new.list)
  /\ c.name = "LPOP" => old.list = <<r.bulk>> \o new.list
  /\ c.name = "RPOP" => old.list = new.list \o <<r.bulk>>
  /\ c.name \in {"DEL", "EXPIRE", "PEXPIRE", "PERSIST"} => r.int = 1

ChangesAreReported ==
  [][now' = now => \A k \in Keys :
       View'[k] # View[k] =>
         /\ last'.key = k
         /\ Accounts(View[k], View'[k], last'.cmd, last'.reply)]_vars

\* When the shard-by-shard scan of Snapshot is complete, it agrees with the
\* keyspace on every key that is still alive, although time passed, GET and the
\* reaper evicted keys between shards and the scan judged expiry by the clock
\* value it started with.
SnapshotFaithful ==
  snap.phase = "scan" /\ snap.i = ShardCount =>
    \A k \in Keys : liveEntry(snap.entries[k], now) = View[k]

\* Lazy deletion, the reaper with its stale clock and the unlock between GET's
\* read and its eviction cannot be seen: callers get the replies of a store from
\* which a key vanishes at its deadline, and no live key is ever evicted.
Abstract == INSTANCE ExpiringStore WITH view <- View

ImplementsExpiringStore == Abstract!Spec

\* A key whose deadline has passed does not stay in memory for ever, even when
\* nobody asks for it again: the reaper removes it (or a caller replaces it).
ExpiredIsReclaimed ==
  \A k \in Keys : expired(data[k], now) ~> ~expired(data[k], now)

\* TTL never understates the time that is left by half a unit or more, although it
\* reads the clock twice.  So for a key with a deadline it answers -1 or -2, which
\* mean "no TTL" and "no key", only when that deadline has passed meanwhile.
TTLNeverShort ==
  ttl.deadline # Zero => 2 * (ttl.deadline - now) < (2 * ttl.reply + 1) * Unit
=============================================================================
