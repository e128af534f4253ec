----------------------------- MODULE StoreProofs ----------------------------
(***************************************************************************)
(* Proofs about Store, for any number of keys, values, clients and shards. *)
(***************************************************************************)
EXTENDS Store, KeyspaceProofs

\* TTL replies with a whole number.
LEMMA TTLReplyType ==
  ASSUME NEW r \in Int, NEW x \in BOOLEAN, NEW h \in BOOLEAN
  PROVE  ttlReply(r, x, h, Unit) \in Int
<1>1. \A i \in Int : i \div Unit \in Int /\ -i \in Int
  BY StoreAssumption
<1>2. r + Unit \div 2 \in Int
  BY StoreAssumption
<1> QED
  BY <1>1, <1>2 DEF ttlReply

\* The reply rounds to the nearest unit: it falls short of the remaining time by
\* less than half a unit.
LEMMA TTLReplyRounds ==
  ASSUME NEW d \in Int
  PROVE  2 * d < (2 * ttlReply(d, TRUE, TRUE, Unit) + 1) * Unit
<1> DEFINE x == d + Unit \div 2
<1>1. PICK u \in Nat \ {0} : u = Unit
  BY Zenon, StoreAssumption
<1>2. x \in Int /\ 2 * d <= 2 * x - u + 1
  BY <1>1
<1>3. \A n \in Nat : \E q \in Nat : q = n \div u /\ q * u <= n /\ n < q * u + u
  BY <1>1
<1>4. \A q \in Int : q * u \in Int /\ (-q) * u = -(q * u) /\ (2 * q + 1) * u = 2 * (q * u) + u
  BY <1>1
<1> HIDE DEF x
<1>5. CASE x >= 0
  <2>1. PICK q \in Nat : q = x \div u /\ x < q * u + u
    BY <1>2, <1>3, <1>5
  <2>2. ttlReply(d, TRUE, TRUE, Unit) = q
    BY Zenon, <1>1, <1>5, <2>1 DEF ttlReply, x
  <2>3. PICK y \in Int : y = q * u /\ (2 * q + 1) * u = 2 * y + u
    BY <1>4
  <2>4. 2 * d < 2 * y + u
    BY <1>1, <1>2, <2>1, <2>3
  <2> QED
    BY Zenon, <1>1, <2>2, <2>3, <2>4
<1>6. CASE x < 0
  <2>1. PICK q \in Nat : q = (-x) \div u /\ q * u <= -x
    BY <1>2, <1>3, <1>6
  <2>2. ttlReply(d, TRUE, TRUE, Unit) = -q
    BY <1>1, <1>2, <1>6, <2>1 DEF ttlReply, x
  <2>3. PICK y \in Int : y = q * u /\ (2 * (-q) + 1) * u = 2 * (-y) + u
    BY <1>4
  <2>4. 2 * d < 2 * (-y) + u
    BY <1>1, <1>2, <2>1, <2>3
  <2> QED
    BY Zenon, <1>1, <2>2, <2>3, <2>4
<1>7. x >= 0 \/ x < 0
  BY <1>2
<1> QED
  BY Zenon, <1>5, <1>6, <1>7

-----------------------------------------------------------------------------
(* The inductive invariant.                                                *)

\* Whoever is busy has a key to go on with; a DEL or EXISTS under way still has
\* to visit some of the keys it names.
InProgress(w) ==
  /\ w.op # "idle" => w.keys # <<>>
  /\ w.op \in {"del", "exists"} =>
       /\ w.cmd \in Requests
       /\ w.cmd.name = IF w.op = "del" THEN "DEL" ELSE "EXISTS"
       /\ ArgsOK(w.cmd)
       /\ \A j \in 1..Len(w.keys) : \E i \in DOMAIN w.cmd.keys : w.keys[j] = w.cmd.keys[i]

WorkOK ==
  \A p \in Clients : InProgress(work[p])

\* The clock values that the reaper and the snapshot go by lie in the past.
ClockOK == reaper.now <= now /\ snap.now <= now

\* While the snapshot is taken nobody deletes, and the shards already copied
\* agree with the keyspace up to expiry.
SnapOK ==
  snap.phase = "scan" =>
    /\ \A p \in Clients : work[p].op # "del"
    /\ \A k \in Keys :
         shardFor[k] < snap.i => liveEntry(snap.entries[k], now) = liveEntry(data[k], now)

Inv == TypeOK /\ EntriesWellFormed /\ WorkOK /\ ClockOK /\ SnapOK

\* The keyspace is empty at the start, so the invariant holds.
LEMMA InitInv == Init => Inv
<1> SUFFICES ASSUME Init PROVE Inv
  BY Zenon
<1>1. /\ Idle \in Works /\ InProgress(Idle) /\ Idle.op = "idle"
      /\ NoPass \in Passes /\ NoSnap \in Snaps /\ Empty \in [Keys -> Entries]
  BY NoEntryFacts, StoreAssumption
  DEF Idle, Works, InProgress, NoPass, Passes, Shards, NoSnap, Snaps, Empty
<1>2. TypeOK
  BY <1>1 DEF Init, TypeOK, Zero
<1>3. EntriesWellFormed
  BY Zenon, NoEntryFacts DEF Init, EntriesWellFormed, Empty
<1>4. WorkOK /\ ClockOK /\ SnapOK
  BY <1>1 DEF Init, WorkOK, ClockOK, SnapOK, NoPass, NoSnap
<1> QED
  BY Zenon, <1>2, <1>3, <1>4 DEF Inv

\* The clock moves on: what has been copied dies together with the original.
LEMMA TickInv == Inv /\ Tick => Inv'
<1> SUFFICES ASSUME Inv, Tick PROVE Inv'
  BY Zenon
<1>1. TypeOK /\ EntriesWellFormed /\ WorkOK /\ ClockOK /\ SnapOK
  BY Zenon DEF Inv
<1>2. now' = now + 1 /\ now \in Nat /\ UNCHANGED <<data, work, ttl, reaper, snap>>
  BY Zenon, <1>1 DEF Tick, TypeOK
<1>3. TypeOK' /\ EntriesWellFormed' /\ WorkOK'
  BY <1>1, <1>2 DEF TypeOK, EntriesWellFormed, WorkOK
<1>4. ClockOK'
  <2>1. reaper.now \in Nat /\ snap.now \in Nat
    BY Zenon, <1>1 DEF TypeOK, Passes, Snaps
  <2> QED
    BY <1>1, <1>2, <2>1 DEF ClockOK
<1>5. SnapOK'
  <2> SUFFICES ASSUME snap.phase = "scan", NEW k \in Keys, shardFor[k] < snap.i
               PROVE  liveEntry(snap.entries[k], now + 1) = liveEntry(data[k], now + 1)
    BY Zenon, <1>1, <1>2 DEF SnapOK
  <2>1. snap.entries[k] \in Entries /\ data[k] \in Entries
    BY Zenon, <1>1 DEF TypeOK, Snaps
  <2>2. liveEntry(snap.entries[k], now) = liveEntry(data[k], now)
    BY Zenon, <1>1 DEF SnapOK
  <2>3. now + 1 \in Nat /\ now <= now + 1
    BY <1>2
  <2> QED
    BY <1>2, <2>1, <2>2, <2>3, LiveEntryFacts
<1> QED
  BY Zenon, <1>3, <1>4, <1>5 DEF Inv

\* What is left to do of a sequence of keys after its first.
LEMMA TailFacts ==
  ASSUME NEW s \in Seq(Keys), s # <<>>, Len(s) # 1
  PROVE  /\ Tail(s) \in Seq(Keys) /\ Tail(s) # <<>>
         /\ \A j \in 1..Len(Tail(s)) : j + 1 \in 1..Len(s) /\ Tail(s)[j] = s[j + 1]
<1>1. PICK n \in Nat : n = Len(s) /\ n \in Nat \ {0}
  BY Zenon, LenProperties, EmptySeq
<1>2. /\ Tail(s) \in Seq(Keys) /\ Len(Tail(s)) = n - 1
      /\ \A j \in 1..Len(Tail(s)) : Tail(s)[j] = s[j + 1]
  BY Zenon, <1>1, HeadTailProperties
<1>3. n - 1 # 0 /\ Len(<<>>) = 0
  BY <1>1
<1>4. Tail(s) # <<>>
  BY <1>2, <1>3, Zenon
<1>5. \A j \in 1..(n - 1) : j + 1 \in 1..n
  BY <1>1
<1> QED
  BY <1>1, <1>2, <1>4, <1>5, Zenon

\* A request names at least one key.
LEMMA RequestFacts ==
  ASSUME NEW c \in Requests
  PROVE  /\ c \in Commands
         /\ c.keys \in Seq(Keys) /\ c.keys # <<>> /\ DOMAIN c.keys = 1..Len(c.keys)
         /\ 1 \in DOMAIN c.keys /\ c.keys[1] \in Keys
<1>1. c \in Commands
  BY Zenon, StoreAssumption
<1>2. c.keys \in Seq(Keys) /\ c.keys # <<>>
  BY Zenon, <1>1 DEF Commands
<1>3. DOMAIN c.keys = 1..Len(c.keys) /\ Len(c.keys) \in Nat \ {0}
  BY Zenon, <1>2, LenProperties, EmptySeq
<1> QED
  BY <1>1, <1>2, <1>3, ElementOfSeq

\* What the invariant says of one key: what callers see there is a live,
\* well-formed entry.
LEMMA KeyFacts ==
  ASSUME Inv, NEW k \in Keys
  PROVE  /\ now \in Nat /\ data[k] \in Entries /\ WellFormed(data[k])
         /\ liveEntry(data[k], now) \in Entries
         /\ WellFormed(liveEntry(data[k], now))
         /\ ~expired(liveEntry(data[k], now), now)
<1>1. now \in Nat /\ data[k] \in Entries /\ WellFormed(data[k])
  BY Zenon DEF Inv, TypeOK, EntriesWellFormed
<1> QED
  BY Zenon, <1>1, LiveEntryFacts

\* What the invariant says of a client in the middle of something.
LEMMA WorkFacts ==
  ASSUME Inv, NEW p \in Clients
  PROVE  /\ work[p] \in Works /\ InProgress(work[p])
         /\ work[p].op # "idle" => work[p].keys[1] \in Keys
<1>1. work[p] \in Works /\ InProgress(work[p])
  BY Zenon DEF Inv, TypeOK, WorkOK
<1>2. work[p].op # "idle" => work[p].keys \in Seq(Keys) /\ work[p].keys # <<>>
  BY Zenon, <1>1 DEF Works, InProgress
<1> QED
  BY <1>1, <1>2, EmptySeq, ElementOfSeq

\* Idle is a state of a client.
LEMMA IdleFacts == Idle \in Works /\ InProgress(Idle) /\ Idle.op = "idle"
BY DEF Idle, Works, InProgress

\* A step of one client that replaces at most its own state and the entry of one
\* key preserves the invariant, if a deletion it begins finds no snapshot under
\* way, and if the key looks the same as before while there is one.
LEMMA ClientStep ==
  ASSUME Inv, NEW p \in Clients, NEW w \in Works, InProgress(w),
         work' = [work EXCEPT ![p] = w],
         NEW k \in Keys, NEW e \in Entries, WellFormed(e),
         data' = [data EXCEPT ![k] = e],
         snap.phase = "scan" =>
           w.op # "del" /\ liveEntry(e, now) = liveEntry(data[k], now),
         ttl' \in [deadline : Nat, reply : Int],
         UNCHANGED <<now, reaper, snap>>
  PROVE  Inv'
<1>1. TypeOK /\ EntriesWellFormed /\ WorkOK /\ ClockOK /\ SnapOK
  BY Zenon DEF Inv
<1>2. TypeOK'
  BY Zenon, <1>1 DEF TypeOK
<1>3. EntriesWellFormed'
  BY Zenon, <1>1 DEF EntriesWellFormed, TypeOK
<1>4. WorkOK'
  BY Zenon, <1>1 DEF WorkOK, TypeOK
<1>5. ClockOK'
  BY Zenon, <1>1 DEF ClockOK
<1>6. SnapOK'
  BY Zenon, <1>1 DEF SnapOK, TypeOK
<1> QED
  BY Zenon, <1>2, <1>3, <1>4, <1>5, <1>6 DEF Inv

\* A step of one client that leaves the keyspace alone preserves the invariant,
\* if a deletion it begins finds no snapshot under way.
LEMMA QuietStep ==
  ASSUME Inv, NEW p \in Clients, NEW w \in Works, InProgress(w),
         work' = [work EXCEPT ![p] = w],
         snap.phase = "scan" => w.op # "del",
         ttl' \in [deadline : Nat, reply : Int],
         UNCHANGED <<data, now, reaper, snap>>
  PROVE  Inv'
<1>1. TypeOK /\ EntriesWellFormed /\ WorkOK /\ ClockOK /\ SnapOK
  BY Zenon DEF Inv
<1>2. TypeOK' /\ EntriesWellFormed' /\ ClockOK'
  BY Zenon, <1>1 DEF TypeOK, EntriesWellFormed, ClockOK
<1>3. WorkOK' /\ SnapOK'
  BY Zenon, <1>1 DEF WorkOK, SnapOK, TypeOK
<1> QED
  BY Zenon, <1>2, <1>3 DEF Inv

\* Every step of a caller preserves the invariant.
LEMMA CallerInv ==
  ASSUME Inv, NEW p \in Clients, Caller(p)
  PROVE  Inv'
<1>d. \A k \in Keys : data = [data EXCEPT ![k] = data[k]]
  BY Zenon DEF Inv, TypeOK
<1>w. work = [work EXCEPT ![p] = work[p]] /\ ttl \in [deadline : Nat, reply : Int]
  BY Zenon DEF Inv, TypeOK
<1>s. snap.phase = "scan" => work[p].op # "del"
  BY Zenon DEF Inv, SnapOK
<1>1. ASSUME NEW c \in Requests, Reject(p, c) \/ ReadKey(p, c)
      PROVE  Inv'
  <2>1. UNCHANGED <<data, now, work, ttl, reaper, snap>>
    BY Zenon, <1>1 DEF Reject, ReadKey
  <2> QED
    BY Zenon, <1>w, <1>s, <2>1, WorkFacts, QuietStep
<1>2. ASSUME NEW c \in Requests, WriteKey(p, c)
      PROVE  Inv'
  <2> DEFINE k == c.keys[1]
             e == Effect(liveEntry(data[k], now), now, c).entry
  <2>1. k \in Keys
    BY Zenon, RequestFacts
  <2>2. e \in Entries /\ WellFormed(e)
    BY Zenon, <2>1, RequestFacts, KeyFacts, EffectFacts
  <2>3. /\ data' = [data EXCEPT ![k] = e] /\ snap.phase = "idle"
        /\ UNCHANGED <<now, work, ttl, reaper, snap>>
    BY Zenon, <1>2 DEF WriteKey
  <2> HIDE DEF k, e
  <2> QED
    BY Zenon, <1>w, <2>1, <2>2, <2>3, WorkFacts, ClientStep
<1>3. ASSUME NEW c \in Requests, GetRead(p, c)
      PROVE  Inv'
  <2> DEFINE w == [op |-> "evict", cmd |-> Nil, keys |-> <<c.keys[1]>>, n |-> 0]
  <2>1. w \in Works /\ InProgress(w) /\ w.op # "del"
    <3>1. <<c.keys[1]>> \in Seq(Keys) /\ <<c.keys[1]>> # <<>>
      BY RequestFacts
    <3>2. PICK s \in Seq(Keys) : s = <<c.keys[1]>> /\ s # <<>>
      BY Zenon, <3>1
    <3>3. w = [op |-> "evict", cmd |-> Nil, keys |-> s, n |-> 0]
      BY Zenon, <3>2
    <3> QED
      BY Zenon, <3>2, <3>3 DEF Works, InProgress
  <2>2. PICK v \in {w, Idle} : work' = [work EXCEPT ![p] = v]
    BY Zenon, <1>3 DEF GetRead
  <2>3. UNCHANGED <<data, now, ttl, reaper, snap>>
    BY Zenon, <1>3 DEF GetRead
  <2> HIDE DEF w
  <2> QED
    BY Zenon, <1>w, <2>1, <2>2, <2>3, IdleFacts, QuietStep
<1>4. CASE expireIfNeeded(p)
  <2> DEFINE k == work[p].keys[1]
             e == liveEntry(data[k], now)
  <2>1. k \in Keys
    BY Zenon, <1>4, WorkFacts DEF expireIfNeeded
  <2>2. e \in Entries /\ WellFormed(e) /\ liveEntry(e, now) = e
    BY Zenon, <2>1, KeyFacts, LiveEntryFacts
  <2>3. /\ data' = [data EXCEPT ![k] = e] /\ work' = [work EXCEPT ![p] = Idle]
        /\ UNCHANGED <<now, ttl, reaper, snap>>
    BY Zenon, <1>4 DEF expireIfNeeded
  <2> QED
    BY Zenon, <1>w, <2>1, <2>2, <2>3, IdleFacts, ClientStep
<1>5. ASSUME NEW c \in Requests, KeysBegin(p, c)
      PROVE  Inv'
  <2>1. PICK o \in {"del", "exists"} :
          /\ c.name = IF o = "del" THEN "DEL" ELSE "EXISTS"
          /\ work' = [work EXCEPT ![p] = [op |-> o, cmd |-> c, keys |-> c.keys, n |-> 0]]
          /\ o = "del" => snap.phase = "idle"
          /\ ArgsOK(c)
          /\ UNCHANGED <<data, now, ttl, reaper, snap>>
    BY Zenon, <1>5 DEF KeysBegin
  <2> DEFINE w == [op |-> o, cmd |-> c, keys |-> c.keys, n |-> 0]
  <2>2. w \in Works /\ InProgress(w) /\ w.op = o
    BY Zenon, <2>1, RequestFacts DEF Works, InProgress
  <2>3. work' = [work EXCEPT ![p] = w] /\ (snap.phase = "scan" => w.op # "del")
    BY Zenon, <2>1, <2>2
  <2> HIDE DEF w
  <2> QED
    BY Zenon, <1>w, <2>1, <2>2, <2>3, QuietStep
<1>6. CASE KeysStep(p)
  <2> DEFINE k == work[p].keys[1]
             r == Effect(liveEntry(data[k], now), now, work[p].cmd)
             e == IF work[p].op = "del" THEN r.entry ELSE data[k]
             v == [work[p] EXCEPT !.keys = Tail(work[p].keys)]
             w == IF Len(work[p].keys) = 1 THEN Idle ELSE v
  <2>1. work[p].op \in {"del", "exists"} /\ k \in Keys
    BY Zenon, <1>6, WorkFacts DEF KeysStep
  <2>2. work[p].cmd \in Requests
    BY Zenon, <2>1, WorkFacts DEF InProgress
  <2>3. e \in Entries /\ WellFormed(e)
    BY Zenon, <2>1, <2>2, RequestFacts, KeyFacts, EffectFacts
  <2>4. data' = [data EXCEPT ![k] = e] /\ work' = [work EXCEPT ![p] = w]
        /\ UNCHANGED <<now, ttl, reaper, snap>>
    BY Zenon, <1>6, <1>d, <2>1 DEF KeysStep
  <2>5. w \in Works /\ InProgress(w) /\ (w.op = "del" => work[p].op = "del")
    <3>1. CASE Len(work[p].keys) = 1
      BY Zenon, <3>1, IdleFacts
    <3>2. CASE Len(work[p].keys) # 1
      <4>1. work[p].keys \in Seq(Keys) /\ work[p].keys # <<>>
        BY Zenon, <2>1, WorkFacts DEF Works, InProgress
      <4>2. /\ Tail(work[p].keys) \in Seq(Keys) /\ Tail(work[p].keys) # <<>>
            /\ \A j \in 1..Len(Tail(work[p].keys)) :
                 /\ j + 1 \in 1..Len(work[p].keys)
                 /\ Tail(work[p].keys)[j] = work[p].keys[j + 1]
        BY Zenon, <3>2, <4>1, TailFacts
      <4>3. v \in Works /\ v.op = work[p].op /\ v.cmd = work[p].cmd
            /\ v.keys = Tail(work[p].keys)
        BY Zenon, <4>2, WorkFacts DEF Works
      <4>4. InProgress(v)
        BY <4>2, <4>3, WorkFacts DEF InProgress
      <4> QED
        BY Zenon, <3>2, <4>3, <4>4
    <3> QED
      BY Zenon, <3>1, <3>2
  <2>6. snap.phase = "scan" => w.op # "del" /\ liveEntry(e, now) = liveEntry(data[k], now)
    BY Zenon, <1>s, <2>5
  <2> HIDE DEF k, e, w
  <2> QED
    BY Zenon, <1>w, <2>1, <2>3, <2>4, <2>5, <2>6, ClientStep
<1>7. ASSUME NEW c \in Requests, TTLPeek(p, c)
      PROVE  Inv'
  <2> DEFINE e == liveEntry(data[c.keys[1]], now)
             w == [op |-> "ttl", cmd |-> c, keys |-> c.keys, n |-> e.expireAt]
             x == [deadline |-> Zero, reply |-> ttlReply(0, e.kind # "none", FALSE, Unit)]
  <2>1. w \in Works /\ InProgress(w) /\ w.op # "del"
    <3>1. e.expireAt \in Nat
      BY Zenon, RequestFacts, KeyFacts DEF Entries
    <3> QED
      BY Zenon, <3>1, RequestFacts DEF Works, InProgress
  <2>2. x \in [deadline : Nat, reply : Int]
    <3>1. 0 \in Int /\ FALSE \in BOOLEAN /\ (e.kind # "none") \in BOOLEAN
      OBVIOUS
    <3>2. ttlReply(0, e.kind # "none", FALSE, Unit) \in Int
      BY Zenon, <3>1, TTLReplyType
    <3> QED
      BY Zenon, <3>2 DEF Zero
  <2>3. PICK v \in {w, work[p]} :
          /\ work' = [work EXCEPT ![p] = v]
          /\ ttl' \in {x, ttl} /\ UNCHANGED <<data, now, reaper, snap>>
    BY Zenon, <1>7, <1>w DEF TTLPeek
  <2> HIDE DEF w, x
  <2> QED
    BY Zenon, <1>w, <1>s, <2>1, <2>2, <2>3, WorkFacts, QuietStep
<1>8. CASE TTLUntil(p)
  <2> DEFINE x == [deadline |-> work[p].n,
                   reply |-> ttlReply(work[p].n - now, TRUE, TRUE, Unit)]
  <2>1. work[p].n \in Nat /\ now \in Nat
    BY Zenon, WorkFacts DEF Works, Inv, TypeOK
  <2>2. x \in [deadline : Nat, reply : Int]
    <3>1. work[p].n - now \in Int /\ TRUE \in BOOLEAN
      BY <2>1
    <3>2. ttlReply(work[p].n - now, TRUE, TRUE, Unit) \in Int
      BY Zenon, <3>1, TTLReplyType
    <3> QED
      BY Zenon, <2>1, <3>2
  <2>3. ttl' = x /\ work' = [work EXCEPT ![p] = Idle] /\ UNCHANGED <<data, now, reaper, snap>>
        /\ work[p].op = "ttl"
    BY Zenon, <1>8 DEF TTLUntil
  <2> HIDE DEF x
  <2> QED
    BY Zenon, <2>2, <2>3, IdleFacts, QuietStep
<1> QED
  BY Zenon, <1>1, <1>2, <1>3, <1>4, <1>5, <1>6, <1>7, <1>8 DEF Caller

\* The reaper, going by the clock of the start of its pass, removes only keys
\* that callers no longer see.
LEMMA PassShardFacts ==
  ASSUME Inv, NEW S \in SUBSET Keys, PassShard(S)
  PROVE  /\ data' \in [Keys -> Entries]
         /\ \A k \in Keys : data'[k] \in {data[k], NoEntry}
         /\ \A k \in Keys : liveEntry(data'[k], now) = liveEntry(data[k], now)
         /\ reaper' \in Passes /\ reaper'.now = reaper.now
         /\ UNCHANGED <<now, last, work, ttl, snap>>
<1> DEFINE dead == {k \in S : expired(data[k], reaper.now)}
<1>1. /\ data \in [Keys -> Entries] /\ reaper \in Passes /\ now \in Nat
      /\ reaper.now \in Nat /\ reaper.now <= now
  BY Zenon DEF Inv, TypeOK, ClockOK, Passes
<1>2. IsFiniteSet(S) /\ IsFiniteSet(dead)
  <2>1. IsFiniteSet(S) /\ dead \subseteq S
    BY Zenon, KeyspaceAssumption, FS_Subset
  <2> QED
    BY Zenon, <2>1, FS_Subset
<1>3. Cardinality(S) \in Nat /\ Cardinality(dead) \in Nat
  BY Zenon, <1>2, FS_CardinalityType
<1>4. /\ data' = [k \in Keys |-> IF k \in dead THEN NoEntry ELSE data[k]]
      /\ UNCHANGED <<now, last, work, ttl, snap>>
  BY Zenon DEF PassShard
<1>5. \A k \in dead : liveEntry(data[k], now) = NoEntry
  BY <1>1 DEF expired, Entries, liveEntry
<1>6. \A k \in Keys : data'[k] = IF k \in dead THEN NoEntry ELSE data[k]
  BY Zenon, <1>4
<1>7. reaper' \in Passes /\ reaper'.now = reaper.now
  <2>1. /\ reaper' = [reaper EXCEPT !.i = @ + 1, !.sampled = @ + Cardinality(S),
                                   !.expired = @ + Cardinality(dead)]
        /\ reaper.i < ShardCount
        /\ Cardinality(S) = Sample - reaper.sampled \/ Cardinality(S) < Sample - reaper.sampled
    BY Zenon DEF PassShard, PassMore
  <2> HIDE DEF dead
  <2>2. reaper.i + 1 \in 0..ShardCount /\ reaper.sampled + Cardinality(S) \in 0..Sample
        /\ reaper.expired + Cardinality(dead) \in Nat
    BY <1>1, <1>3, <2>1, StoreAssumption DEF Passes
  <2> QED
    BY Zenon, <1>1, <2>1, <2>2 DEF Passes
<1>8. \A k \in Keys : liveEntry(data'[k], now) = liveEntry(data[k], now)
  BY Zenon, <1>5, <1>6, NoEntryFacts, <1>1 DEF liveEntry
<1> QED
  BY Zenon, <1>1, <1>4, <1>6, <1>7, <1>8, NoEntryFacts

\* Every step of the reaper preserves the invariant.
LEMMA ReapInv == Inv /\ Reap => Inv'
<1> SUFFICES ASSUME Inv, Reap PROVE Inv'
  BY Zenon
<1>1. TypeOK /\ EntriesWellFormed /\ WorkOK /\ ClockOK /\ SnapOK
  BY Zenon DEF Inv
<1>2. ASSUME NEW start \in Shards, PassBegin(start) \/ PassEnd(start)
      PROVE  Inv'
  <2>1. reaper' \in {NewPass(start), NoPass} /\ UNCHANGED <<data, now, work, ttl, snap>>
    BY Zenon, <1>2 DEF PassBegin, PassEnd
  <2>2. reaper' \in Passes /\ reaper'.now <= now
    BY <1>1, <2>1, StoreAssumption DEF NewPass, NoPass, Passes, Shards, TypeOK
  <2>3. TypeOK' /\ EntriesWellFormed' /\ WorkOK' /\ ClockOK' /\ SnapOK'
    BY Zenon, <1>1, <2>1, <2>2 DEF TypeOK, EntriesWellFormed, WorkOK, ClockOK, SnapOK
  <2> QED
    BY Zenon, <2>3 DEF Inv
<1>3. ASSUME NEW S \in SUBSET Keys, PassShard(S)
      PROVE  Inv'
  <2>1. TypeOK'
    BY Zenon, <1>1, <1>3, PassShardFacts DEF TypeOK
  <2>2. EntriesWellFormed'
    BY Zenon, <1>1, <1>3, PassShardFacts, NoEntryFacts DEF EntriesWellFormed
  <2>3. WorkOK' /\ ClockOK'
    BY Zenon, <1>1, <1>3, PassShardFacts DEF WorkOK, ClockOK
  <2>4. SnapOK'
    BY Zenon, <1>1, <1>3, PassShardFacts DEF SnapOK
  <2> QED
    BY Zenon, <2>1, <2>2, <2>3, <2>4 DEF Inv
<1> QED
  BY Zenon, <1>2, <1>3 DEF Reap

\* Every step of the snapshot preserves the invariant.
LEMMA SnapshotInv == Inv /\ Snapshot => Inv'
<1> SUFFICES ASSUME Inv, Snapshot PROVE Inv'
  BY Zenon
<1>1. TypeOK /\ EntriesWellFormed /\ WorkOK /\ ClockOK /\ SnapOK
  BY Zenon DEF Inv
<1>2. UNCHANGED <<data, now, work, ttl, reaper>>
  BY Zenon DEF Snapshot, SnapBegin, SnapShard, SnapEnd
<1>3. snap' \in Snaps /\ snap'.now <= now /\ SnapOK'
  <2>1. CASE SnapBegin
    <3>1. snap' = [phase |-> "scan", now |-> now, i |-> 0, entries |-> Empty]
          /\ \A p \in Clients : work[p].op # "del"
      BY Zenon, <2>1 DEF SnapBegin, NoSnap
    <3>2. snap' \in Snaps
      BY <1>1, <3>1, StoreAssumption, NoEntryFacts DEF Snaps, Empty, TypeOK
    <3>3. \A k \in Keys : ~(shardFor[k] < 0)
      BY StoreAssumption DEF Shards
    <3> QED
      BY <1>1, <1>2, <3>1, <3>2, <3>3 DEF SnapOK, TypeOK
  <2>2. CASE SnapShard
    <3> DEFINE es == [k \in Keys |-> IF shardFor[k] = snap.i THEN liveEntry(data[k], snap.now)
                                     ELSE snap.entries[k]]
    <3>1. /\ snap' = [snap EXCEPT !.i = @ + 1, !.entries = es]
          /\ snap.phase = "scan" /\ snap.i < ShardCount
      BY Zenon, <2>2 DEF SnapShard
    <3>2. /\ snap \in Snaps /\ snap.now \in Nat /\ snap.i \in Nat /\ now \in Nat
          /\ snap.now <= now /\ snap.entries \in [Keys -> Entries] /\ data \in [Keys -> Entries]
      BY <1>1 DEF TypeOK, Snaps, ClockOK
    <3>3. \A k \in Keys : /\ liveEntry(data[k], snap.now) \in Entries
                          /\ liveEntry(liveEntry(data[k], snap.now), now) = liveEntry(data[k], now)
      BY Zenon, <3>2, LiveEntryFacts
    <3>4. es \in [Keys -> Entries]
      BY Zenon, <3>2, <3>3
    <3>5. \A k \in Keys : shardFor[k] < snap.i + 1 => shardFor[k] = snap.i \/ shardFor[k] < snap.i
      BY <3>2, StoreAssumption DEF Shards
    <3>6. \A k \in Keys : shardFor[k] < snap.i + 1 => liveEntry(es[k], now) = liveEntry(data[k], now)
      BY Zenon, <1>1, <3>1, <3>3, <3>5 DEF SnapOK
    <3> HIDE DEF es
    <3>7. snap' \in Snaps /\ snap'.now = snap.now /\ snap'.i = snap.i + 1 /\ snap'.entries = es
          /\ snap'.phase = "scan"
      <4>1. snap.i + 1 \in 0..ShardCount
        BY <3>1, <3>2, StoreAssumption
      <4> QED
        BY Zenon, <3>1, <3>2, <3>4, <4>1 DEF Snaps
    <3> QED
      BY Zenon, <1>1, <1>2, <3>1, <3>2, <3>6, <3>7 DEF SnapOK
  <2>3. CASE SnapEnd
    <3>1. snap' = NoSnap
      BY Zenon, <2>3 DEF SnapEnd
    <3> QED
      BY <1>1, <3>1, StoreAssumption, NoEntryFacts DEF NoSnap, Snaps, Empty, SnapOK, TypeOK
  <2> QED
    BY Zenon, <2>1, <2>2, <2>3 DEF Snapshot
<1>4. TypeOK' /\ EntriesWellFormed' /\ WorkOK' /\ ClockOK'
  BY Zenon, <1>1, <1>2, <1>3 DEF TypeOK, EntriesWellFormed, WorkOK, ClockOK
<1> QED
  BY Zenon, <1>3, <1>4 DEF Inv

\* The invariant holds in every reachable state.
THEOREM Invariance == Spec => []Inv
<1>1. Inv /\ UNCHANGED vars => Inv'
  BY Zenon DEF Inv, vars, TypeOK, EntriesWellFormed, WorkOK, ClockOK, SnapOK
<1>2. Inv /\ [Next]_vars => Inv'
  BY Zenon, <1>1, TickInv, CallerInv, ReapInv, SnapshotInv DEF Next
<1> QED
  BY <1>2, InitInv, PTL DEF Spec

\* The four payload fields, the deadline and the kind of every entry always have
\* their types, and so has every intermediate state of the store's operations.
THEOREM TypeCorrect == Spec => []TypeOK
<1>1. Inv => TypeOK
  BY Zenon DEF Inv
<1> QED
  BY <1>1, Invariance, PTL

\* No reachable keyspace holds an empty list, hash or set, or an entry with the
\* payload of another kind: LPOP, RPOP, HDEL and SREM delete what they empty.
THEOREM NoEmptyCollections == Spec => []EntriesWellFormed
<1>1. Inv => EntriesWellFormed
  BY Zenon DEF Inv
<1> QED
  BY <1>1, Invariance, PTL

\* A finished scan of Snapshot agrees with the keyspace on every live key,
\* whatever expired or was evicted while it went from shard to shard.
THEOREM SnapshotIsFaithful == Spec => []SnapshotFaithful
<1>1. Inv => SnapshotFaithful
  <2> SUFFICES ASSUME Inv, snap.phase = "scan", snap.i = ShardCount, NEW k \in Keys
               PROVE  liveEntry(snap.entries[k], now) = View[k]
    BY Zenon DEF SnapshotFaithful
  <2>1. shardFor[k] < snap.i
    BY StoreAssumption DEF Shards
  <2> QED
    BY Zenon, <2>1 DEF Inv, SnapOK, View
<1> QED
  BY <1>1, Invariance, PTL

-----------------------------------------------------------------------------
(* TTL, which reads the clock twice.                                       *)

\* Every reply is right when it is computed, and time only shortens what is left.
LEMMA TTLStep == Inv /\ TTLNeverShort /\ [Next]_vars => TTLNeverShort'
<1> SUFFICES ASSUME Inv, TTLNeverShort, [Next]_vars, ttl'.deadline # Zero
             PROVE  2 * (ttl'.deadline - now') < (2 * ttl'.reply + 1) * Unit
  BY Zenon DEF TTLNeverShort
<1>1. now \in Nat /\ ttl.deadline \in Nat /\ ttl.reply \in Int
  BY Zenon DEF Inv, TypeOK
<1>2. CASE UNCHANGED <<ttl, now>>
  BY Zenon, <1>2 DEF TTLNeverShort
<1>3. CASE Tick
  <2>1. now' = now + 1 /\ UNCHANGED ttl
    BY Zenon, <1>3 DEF Tick
  <2>2. PICK n \in Int : n = (2 * ttl.reply + 1) * Unit
    BY <1>1, StoreAssumption
  <2>3. 2 * (ttl.deadline - now) < n
    BY Zenon, <2>1, <2>2 DEF TTLNeverShort
  <2> QED
    BY <1>1, <2>1, <2>2, <2>3
<1>4. ASSUME NEW p \in Clients, NEW c \in Requests, TTLPeek(p, c)
      PROVE  UNCHANGED <<ttl, now>>
  <2>1. UNCHANGED now /\ (UNCHANGED ttl \/ \E r : ttl' = [deadline |-> Zero, reply |-> r])
    BY Zenon, <1>4 DEF TTLPeek
  <2>2. \A r : [deadline |-> Zero, reply |-> r].deadline = Zero
    BY Zenon
  <2> QED
    BY Zenon, <2>1, <2>2
<1>5. ASSUME NEW p \in Clients, TTLUntil(p)
      PROVE  2 * (ttl'.deadline - now') < (2 * ttl'.reply + 1) * Unit
  <2>1. work[p].n \in Nat
    BY Zenon, WorkFacts DEF Works
  <2>2. work[p].n - now \in Int
    BY <1>1, <2>1
  <2>3. /\ ttl'.deadline = work[p].n /\ now' = now
        /\ ttl'.reply = ttlReply(work[p].n - now, TRUE, TRUE, Unit)
    BY Zenon, <1>5 DEF TTLUntil
  <2> QED
    BY Zenon, <2>2, <2>3, TTLReplyRounds
<1>6. ASSUME NEW p \in Clients, Caller(p)
      PROVE  UNCHANGED <<ttl, now>> \/ TTLUntil(p)
  BY Zenon, <1>4, <1>6 DEF Caller, expireIfNeeded, KeysStep, Reject, WriteKey, ReadKey, GetRead, KeysBegin
<1>7. CASE Reap \/ Snapshot \/ UNCHANGED vars
  BY Zenon, <1>2, <1>7 DEF Reap, PassBegin, PassEnd, PassShard, Snapshot, SnapBegin, SnapShard,
     SnapEnd, vars
<1> QED
  BY Zenon, <1>2, <1>3, <1>5, <1>6, <1>7 DEF Next

\* For any unit and any interleaving of clock, writers and reaper, a TTL reply
\* never understates the time left by half a unit or more.
THEOREM TTLIsNeverShort == Spec => []TTLNeverShort
<1>1. Init => TTLNeverShort
  BY DEF Init, TTLNeverShort
<1> QED
  BY <1>1, TTLStep, Invariance, PTL DEF Spec

-----------------------------------------------------------------------------
(* The store implements the store without lazy expiry.                     *)

\* An access to one key in one critical section: what it leaves is alive, so
\* callers see exactly the entry that Effect yields.
LEMMA AccessStep ==
  ASSUME Inv, NEW c \in Requests, NEW i \in DOMAIN c.keys, c.keys[i] \in Keys,
         NEW r, r = Effect(liveEntry(data[c.keys[i]], now), now, c),
         \/ data' = [data EXCEPT ![c.keys[i]] = r.entry]
         \/ UNCHANGED data /\ r.entry = liveEntry(data[c.keys[i]], now),
         Record(c, c.keys[i], r.reply), UNCHANGED now
  PROVE  Abstract!Next
<1> DEFINE k == c.keys[i]
<1>1. r.entry \in Entries /\ ~expired(r.entry, now) /\ now \in Nat /\ c \in Commands
  BY Zenon, RequestFacts, KeyFacts, EffectFacts
<1>2. liveEntry(r.entry, now) = r.entry
  BY Zenon, <1>1, LiveEntryFacts
<1>3. View' = [View EXCEPT ![k] = r.entry]
  BY Zenon, <1>2 DEF View, Inv, TypeOK
<1>4. r = Effect(View[k], now, c)
  BY Zenon DEF View
<1>5. Abstract!Access(c, k)
  BY Zenon, <1>3, <1>4 DEF Abstract!Access, Record
<1> QED
  BY Zenon, <1>5 DEF Abstract!Next

\* A step that no caller can tell from nothing happening.
LEMMA UnseenStep ==
  ASSUME \A k \in Keys : liveEntry(data'[k], now) = liveEntry(data[k], now),
         UNCHANGED <<now, last>>
  PROVE  UNCHANGED Abstract!vars
BY Zenon DEF Abstract!vars, View

\* Every critical section of a caller is one access, or cannot be seen.
LEMMA CallerRefines ==
  ASSUME Inv, NEW p \in Clients, Caller(p)
  PROVE  Abstract!Next \/ UNCHANGED Abstract!vars
<1>1. ASSUME NEW c \in Requests, Reject(p, c)
      PROVE  Abstract!Next
  <2> DEFINE e == liveEntry(data[c.keys[1]], now)
  <2>1. Effect(e, now, c) = Result(e, errorValue)
    BY Zenon, <1>1, RequestFacts, KeyFacts, EffectFacts DEF Reject
  <2>2. Effect(e, now, c).entry = e /\ Effect(e, now, c).reply = errorValue
    BY <2>1 DEF Result
  <2>3. UNCHANGED <<data, now>> /\ Record(c, c.keys[1], errorValue)
    BY Zenon, <1>1 DEF Reject
  <2> QED
    BY Zenon, <2>2, <2>3, RequestFacts, AccessStep
<1>2. ASSUME NEW c \in Requests, WriteKey(p, c)
      PROVE  Abstract!Next
  BY Zenon, <1>2, RequestFacts, AccessStep DEF WriteKey
<1>3. ASSUME NEW c \in Requests, ReadKey(p, c) \/ GetRead(p, c)
      PROVE  Abstract!Next
  <2> DEFINE e == liveEntry(data[c.keys[1]], now)
  <2>1. ~IsWrite(c.name)
    BY Zenon, <1>3 DEF ReadKey, GetRead, IsWrite, writeCommands
  <2>2. Effect(e, now, c).entry = e
    BY Zenon, <2>1, RequestFacts, KeyFacts, EffectFacts
  <2>3. UNCHANGED <<data, now>> /\ Record(c, c.keys[1], Effect(e, now, c).reply)
    BY Zenon, <1>3 DEF ReadKey, GetRead
  <2> QED
    BY Zenon, <2>2, <2>3, RequestFacts, AccessStep
<1>4. CASE expireIfNeeded(p)
  <2> DEFINE k == work[p].keys[1]
  <2>1. k \in Keys
    BY Zenon, <1>4, WorkFacts DEF expireIfNeeded
  <2>2. liveEntry(liveEntry(data[k], now), now) = liveEntry(data[k], now)
    BY Zenon, <2>1, KeyFacts, LiveEntryFacts
  <2>3. data' = [data EXCEPT ![k] = liveEntry(data[k], now)] /\ UNCHANGED <<now, last>>
    BY Zenon, <1>4 DEF expireIfNeeded
  <2>4. data \in [Keys -> Entries]
    BY Zenon DEF Inv, TypeOK
  <2> HIDE DEF k
  <2>5. \A j \in Keys : liveEntry(data'[j], now) = liveEntry(data[j], now)
    BY Zenon, <2>1, <2>2, <2>3, <2>4
  <2> QED
    BY Zenon, <2>3, <2>5, UnseenStep
<1>5. CASE KeysStep(p)
  <2> DEFINE k == work[p].keys[1]
             c == work[p].cmd
             e == liveEntry(data[k], now)
             r == Effect(e, now, c)
  <2>1. work[p].op \in {"del", "exists"} /\ k \in Keys /\ c \in Requests
    BY Zenon, <1>5, WorkFacts DEF KeysStep, InProgress
  <2>2. 1 \in 1..Len(work[p].keys)
    <3>1. work[p].keys \in Seq(Keys) /\ work[p].keys # <<>>
      BY Zenon, <2>1, WorkFacts DEF Works, InProgress
    <3>2. Len(work[p].keys) \in Nat \ {0}
      BY Zenon, <3>1, EmptySeq
    <3> QED
      BY <3>2
  <2>3. PICK i \in DOMAIN c.keys : k = c.keys[i]
    BY Zenon, <2>1, <2>2, WorkFacts DEF InProgress
  <2>4. work[p].op = "exists" => r.entry = e
    <3>1. work[p].op = "exists" => ~IsWrite(c.name)
      BY Zenon, <2>1, WorkFacts DEF InProgress, IsWrite, writeCommands
    <3> QED
      BY Zenon, <2>1, <3>1, RequestFacts, KeyFacts, EffectFacts
  <2>5. /\ work[p].op = "del" => data' = [data EXCEPT ![k] = r.entry]
        /\ work[p].op # "del" => UNCHANGED data
        /\ Record(c, k, r.reply) /\ UNCHANGED now
    BY Zenon, <1>5 DEF KeysStep
  <2> QED
    BY ZenonT(30), <2>1, <2>3, <2>4, <2>5, AccessStep
<1>6. ASSUME NEW c \in Requests, KeysBegin(p, c) \/ TTLPeek(p, c)
      PROVE  UNCHANGED Abstract!vars
  BY Zenon, <1>6, UnseenStep DEF KeysBegin, TTLPeek
<1>7. CASE TTLUntil(p)
  BY Zenon, <1>7, UnseenStep DEF TTLUntil
<1> QED
  BY Zenon, <1>1, <1>2, <1>3, <1>4, <1>5, <1>6, <1>7 DEF Caller

\* Nor can callers tell that time passes, except by what reaches its deadline.
LEMMA TickRefines == Inv /\ Tick => Abstract!Next
<1> SUFFICES ASSUME Inv, Tick PROVE Abstract!Tick
  BY Zenon DEF Abstract!Next
<1>1. now \in Nat /\ now' = now + 1 /\ UNCHANGED <<data, last>>
  BY Zenon DEF Inv, TypeOK, Tick
<1>2. \A k \in Keys : liveEntry(liveEntry(data[k], now), now + 1) = liveEntry(data[k], now + 1)
  <2>1. now + 1 \in Nat /\ now <= now + 1
    BY <1>1
  <2> QED
    BY Zenon, <1>1, <2>1, KeyFacts, LiveEntryFacts
<1>3. View' = [k \in Keys |-> liveEntry(View[k], now')]
  BY Zenon, <1>1, <1>2 DEF View
<1> QED
  BY Zenon, <1>1, <1>3 DEF Abstract!Tick

\* Every step is one access or one tick of the store without lazy expiry, or
\* cannot be seen.
LEMMA StepRefines ==
  ASSUME Inv, [Next]_vars
  PROVE  Abstract!Next \/ UNCHANGED Abstract!vars
<1>1. CASE Reap
  <2>1. ASSUME NEW start \in Shards, PassBegin(start) \/ PassEnd(start)
        PROVE  UNCHANGED Abstract!vars
    BY Zenon, <2>1, UnseenStep DEF PassBegin, PassEnd
  <2>2. ASSUME NEW S \in SUBSET Keys, PassShard(S)
        PROVE  UNCHANGED Abstract!vars
    BY Zenon, <2>2, PassShardFacts, UnseenStep
  <2> QED
    BY Zenon, <1>1, <2>1, <2>2 DEF Reap
<1>2. CASE Snapshot
  BY Zenon, <1>2, UnseenStep DEF Snapshot, SnapBegin, SnapShard, SnapEnd
<1>3. CASE UNCHANGED vars
  BY Zenon, <1>3, UnseenStep DEF vars
<1> QED
  BY Zenon, <1>1, <1>2, <1>3, TickRefines, CallerRefines DEF Next

\* The sharded store with lazy expiry, a reaper and shard-by-shard snapshots
\* behaves, for its callers, like the store in which keys vanish at their
\* deadline.
THEOREM Refinement == Spec => ImplementsExpiringStore
<1>1. Init => Abstract!Init
  BY Zenon, NoEntryFacts DEF Init, Abstract!Init, View, Empty, liveEntry
<1>2. Inv /\ [Next]_vars => [Abstract!Next]_(Abstract!vars)
  BY Zenon, StepRefines
<1> QED
  BY <1>1, <1>2, Invariance, PTL DEF Spec, ImplementsExpiringStore, Abstract!Spec

-----------------------------------------------------------------------------
(* The replies account for the changes.                                    *)

\* The number of names that a set gains or loses.
LEMMA GainAndLoss ==
  ASSUME NEW A \in SUBSET Vals, NEW B \in SUBSET Vals
  PROVE  /\ Cardinality(A) \in Nat
         /\ Cardinality(B \ A) = Cardinality(A \cup B) - Cardinality(A)
         /\ Cardinality(A \cap B) = Cardinality(A) - Cardinality(A \ B)
<1>1. IsFiniteSet(A) /\ IsFiniteSet(B)
  BY Zenon, KeyspaceAssumption, FS_Subset
<1>2. IsFiniteSet(A \cup B) /\ IsFiniteSet(A \ B) /\ IsFiniteSet(B \ A) /\ IsFiniteSet(A \cap B)
  BY Zenon, <1>1, FS_Union, FS_Difference, FS_Intersection
<1>3. /\ Cardinality(A) \in Nat /\ Cardinality(B) \in Nat /\ Cardinality(A \cap B) \in Nat
      /\ Cardinality(A \ B) \in Nat /\ Cardinality(B \ A) \in Nat
      /\ Cardinality(A \cup B) \in Nat
  BY Zenon, <1>1, <1>2, FS_CardinalityType
<1>4. Cardinality(A \cup B) = Cardinality(A) + Cardinality(B) - Cardinality(A \cap B)
  BY Zenon, <1>1, FS_Union
<1>5. /\ Cardinality(A \ B) = Cardinality(A) - Cardinality(A \cap B)
      /\ Cardinality(B \ A) = Cardinality(B) - Cardinality(B \cap A)
  BY Zenon, <1>1, FS_Difference
<1>6. Cardinality(B \cap A) = Cardinality(A \cap B)
  <2>1. B \cap A = A \cap B
    BY Zenon
  <2> QED
    BY Zenon, <2>1
<1>7. \A a, b, i, u, l, g \in Nat :
        u = a + b - i /\ l = a - i /\ g = b - i => g = u - a /\ i = a - l
  OBVIOUS
<1> QED
  BY <1>3, <1>4, <1>5, <1>6, <1>7

\* A list is its first element and the rest, and also the rest and its last.
LEMMA EndsOfList ==
  ASSUME NEW s \in Seq(Vals), s # <<>>
  PROVE  /\ s = <<s[1]>> \o SubSeq(s, 2, Len(s))
         /\ s = SubSeq(s, 1, Len(s) - 1) \o <<s[Len(s)]>>
         /\ Len(s) = 1 => s = <<s[1]>> \o <<>> /\ s = <<>> \o <<s[Len(s)]>>
<1>1. Len(s) \in Nat \ {0} /\ \A i \in 1..Len(s) : s[i] \in Vals
  BY Zenon, EmptySeq, LenProperties, ElementOfSeq
<1>2. s = <<s[1]>> \o SubSeq(s, 2, Len(s))
  BY <1>1
<1>3. s = SubSeq(s, 1, Len(s) - 1) \o <<s[Len(s)]>>
  BY <1>1
<1>4. ASSUME Len(s) = 1 PROVE s = <<s[1]>> \o <<>> /\ s = <<>> \o <<s[Len(s)]>>
  BY <1>1, <1>4
<1> QED
  BY Zenon, <1>2, <1>3, <1>4

\* The fields of an integer reply.
LEMMA ReplyFacts ==
  /\ OKReply.type = "status"
  /\ \A n : integerValue(n).type = "int" /\ integerValue(n).int = n
  /\ \A v : bulkValue(v).type = "bulk" /\ bulkValue(v).bulk = v
  /\ boolReply(TRUE).type = "int" /\ boolReply(TRUE).int = 1
BY Zenon DEF OKReply, integerValue, bulkValue, boolReply, NewReply

\* An entry of no kind is no entry.
LEMMA NothingThere ==
  ASSUME NEW e \in Entries, WellFormed(e), e.kind = "none"
  PROVE  e = NoEntry
BY Zenon DEF Entries, WellFormed, NoEntry

\* The names in a collection: what an entry of another kind holds has none.
LEMMA SizeFacts ==
  /\ Fields(NoHash) = {} /\ Cardinality({}) = 0 /\ Size(NoEntry) = 0
  /\ \A h \in [Vals -> Vals \cup {Nil}] : Fields(h) \in SUBSET Vals
<1>1. Fields(NoHash) = {}
  BY Zenon DEF Fields, NoHash
<1>2. Cardinality({}) = 0
  BY Zenon, FS_EmptySet
<1> QED
  BY <1>1, <1>2 DEF Size, NoEntry, Fields

\* What a write that changes an entry replies: HSET, HDEL, SADD and SREM with the
\* change in size, the pushes with the new length, the pops with the element they
\* took, DEL, EXPIRE, PEXPIRE and PERSIST with 1.
LEMMA WriteAccounts ==
  ASSUME NEW e \in Entries, NEW t \in Nat, NEW c \in Commands, IsWrite(c.name),
         WellFormed(e), ~WrongType(e, c.name), NEW w, w = Write(e, t, c), w.entry # e
  PROVE  Accounts(e, w.entry, c, w.reply)
<1>1. CASE c.name = "SET"
  <2>1. w.reply = OKReply
    BY Zenon, <1>1 DEF Write, Set, Result
  <2> QED
    BY Zenon, <1>1, <2>1, ReplyFacts DEF Accounts
<1>2. CASE c.name = "DEL"
  <2>1. w.entry = NoEntry /\ w.reply = boolReply(e.kind # "none")
    BY Zenon, <1>2 DEF Write, Del, Result
  <2>2. e.kind # "none"
    BY Zenon, <2>1, NothingThere
  <2>3. w.reply = boolReply(TRUE)
    BY Zenon, <2>1, <2>2
  <2>4. w.reply.type # "error" /\ w.reply.int = 1
    BY Zenon, <2>3, ReplyFacts
  <2> QED
    BY Zenon, <1>2, <2>4 DEF Accounts
<1>3. CASE c.name = "LPUSH"
  <2> DEFINE l == Reversed(c.list) \o entryFor(e, "list").list
  <2>1. w.entry = [entryFor(e, "list") EXCEPT !.list = l] /\ w.reply = integerValue(Len(l))
    BY Zenon, <1>3 DEF Write, LPush, Result
  <2>2. entryFor(e, "list") \in Entries
    BY Zenon, NoEntryFacts DEF entryFor, NewEntry, Entries, Kinds
  <2> HIDE DEF l
  <2>3. w.entry.list = l
    BY Zenon, <2>1, <2>2 DEF Entries
  <2>4. w.reply.type # "error" /\ w.reply.int = Len(w.entry.list)
    BY Zenon, <2>1, <2>3, ReplyFacts
  <2> QED
    BY Zenon, <1>3, <2>4 DEF Accounts
<1>4. CASE c.name = "RPUSH"
  <2> DEFINE l == entryFor(e, "list").list \o c.list
  <2>1. w.entry = [entryFor(e, "list") EXCEPT !.list = l] /\ w.reply = integerValue(Len(l))
    BY Zenon, <1>4 DEF Write, RPush, Result
  <2>2. entryFor(e, "list") \in Entries
    BY Zenon, NoEntryFacts DEF entryFor, NewEntry, Entries, Kinds
  <2> HIDE DEF l
  <2>3. w.entry.list = l
    BY Zenon, <2>1, <2>2 DEF Entries
  <2>4. w.reply.type # "error" /\ w.reply.int = Len(w.entry.list)
    BY Zenon, <2>1, <2>3, ReplyFacts
  <2> QED
    BY Zenon, <1>4, <2>4 DEF Accounts
<1>5. CASE c.name = "LPOP"
  <2> DEFINE l == e.list
  <2>1. l \in Seq(Vals) /\ NoEntry.list = <<>>
    BY Zenon DEF Entries, NoEntry
  <2>2. w = LPop(e, c)
    BY Zenon, <1>5 DEF Write
  <2>3. l # <<>>
    BY <2>2 DEF LPop, Result
  <2>4. /\ w.reply = bulkValue(l[1])
        /\ w.entry = IF Len(l) = 1 THEN NoEntry ELSE [e EXCEPT !.list = SubSeq(l, 2, Len(l))]
    BY <2>2, <2>3 DEF LPop, Result
  <2>5. [e EXCEPT !.list = SubSeq(l, 2, Len(l))].list = SubSeq(l, 2, Len(l))
    BY Zenon DEF Entries
  <2>6. e.list = <<l[1]>> \o w.entry.list
    BY Zenon, <2>1, <2>3, <2>4, <2>5, EndsOfList
  <2> HIDE DEF l
  <2>7. w.reply.type # "error" /\ w.reply.bulk = l[1]
    BY Zenon, <2>4, ReplyFacts
  <2>8. e.list = <<w.reply.bulk>> \o w.entry.list
    BY Zenon, <2>6, <2>7
  <2> QED
    BY Zenon, <1>5, <2>7, <2>8 DEF Accounts
<1>6. CASE c.name = "RPOP"
  <2> DEFINE l == e.list
  <2>1. l \in Seq(Vals) /\ NoEntry.list = <<>>
    BY Zenon DEF Entries, NoEntry
  <2>2. w = RPop(e, c)
    BY Zenon, <1>6 DEF Write
  <2>3. l # <<>>
    BY <2>2 DEF RPop, Result
  <2>4. /\ w.reply = bulkValue(l[Len(l)])
        /\ w.entry = IF Len(l) = 1 THEN NoEntry ELSE [e EXCEPT !.list = SubSeq(l, 1, Len(l) - 1)]
    BY <2>2, <2>3 DEF RPop, Result
  <2>5. [e EXCEPT !.list = SubSeq(l, 1, Len(l) - 1)].list = SubSeq(l, 1, Len(l) - 1)
    BY Zenon DEF Entries
  <2>6. e.list = w.entry.list \o <<l[Len(l)]>>
    BY Zenon, <2>1, <2>3, <2>4, <2>5, EndsOfList
  <2> HIDE DEF l
  <2>7. w.reply.type # "error" /\ w.reply.bulk = l[Len(l)]
    BY Zenon, <2>4, ReplyFacts
  <2>8. e.list = w.entry.list \o <<w.reply.bulk>>
    BY Zenon, <2>6, <2>7
  <2> QED
    BY Zenon, <1>6, <2>7, <2>8 DEF Accounts
<1>7. CASE c.name = "HSET"
  <2> DEFINE b == entryFor(e, "hash")
             h == [f \in Vals |-> IF c.hash[f] # Nil THEN c.hash[f] ELSE b.hash[f]]
  <2>1. b \in Entries /\ b.hash = e.hash /\ b.set = e.set /\ Fields(e.hash) \in SUBSET Vals
    BY Zenon, NothingThere, NoEntryFacts DEF entryFor, NewEntry, NoEntry, Entries, Kinds, Fields
  <2>2. /\ w.entry = [b EXCEPT !.hash = h]
        /\ w.reply = integerValue(Cardinality(Fields(c.hash) \ Fields(b.hash)))
    BY Zenon, <1>7 DEF Write, HSet, Result
  <2>3. Fields(h) = Fields(e.hash) \cup Fields(c.hash) /\ Fields(c.hash) \in SUBSET Vals
    BY Zenon, <2>1 DEF Fields
  <2> HIDE DEF b, h
  <2>4. w.entry.hash = h /\ w.entry.set = e.set
    BY Zenon, <2>1, <2>2 DEF Entries
  <2>5. /\ Cardinality(Fields(c.hash) \ Fields(e.hash))
             = Cardinality(Fields(h)) - Cardinality(Fields(e.hash))
        /\ Cardinality(Fields(h)) \in Nat /\ Cardinality(Fields(e.hash)) \in Nat
    BY Zenon, <2>1, <2>3, GainAndLoss
  <2>6. Cardinality(e.set) \in Nat
    BY Zenon, GainAndLoss DEF Entries
  <2>7. Cardinality(Fields(c.hash) \ Fields(e.hash)) = Size(w.entry) - Size(e)
    BY <2>4, <2>5, <2>6 DEF Size
  <2>8. w.reply.type # "error" /\ w.reply.int = Cardinality(Fields(c.hash) \ Fields(b.hash))
    BY Zenon, <2>2, ReplyFacts
  <2>9. w.reply.int = Size(w.entry) - Size(e)
    BY Zenon, <2>1, <2>7, <2>8
  <2> QED
    BY Zenon, <1>7, <2>8, <2>9 DEF Accounts
<1>8. CASE c.name = "HDEL"
  <2> DEFINE h == [f \in Vals |-> IF f \in c.set THEN Nil ELSE e.hash[f]]
  <2>1. /\ e.set = {} /\ Fields(e.hash) \in SUBSET Vals /\ c.set \in SUBSET Vals
        /\ NoEntry.hash = NoHash /\ NoEntry.set = {}
    BY Zenon, <1>8 DEF Entries, WellFormed, WrongType, HashCommands, Fields, NoEntry, Commands
  <2>2. /\ w.entry = IF h = NoHash THEN NoEntry ELSE [e EXCEPT !.hash = h]
        /\ w.reply = integerValue(Cardinality(Fields(e.hash) \cap c.set))
    BY Zenon, <1>8 DEF Write, HDel, Result
  <2>3. Fields(h) = Fields(e.hash) \ c.set
    BY Zenon DEF Fields
  <2> HIDE DEF h
  <2>4. w.entry.hash = h /\ w.entry.set = {}
    BY Zenon, <2>1, <2>2 DEF Entries
  <2>5. /\ Cardinality(Fields(e.hash) \cap c.set)
             = Cardinality(Fields(e.hash)) - Cardinality(Fields(h))
        /\ Cardinality(Fields(h)) \in Nat /\ Cardinality(Fields(e.hash)) \in Nat
    <3>1. Fields(h) \in SUBSET Vals
      BY Zenon, <2>1, <2>3
    <3>2. /\ Cardinality(Fields(e.hash) \cap c.set)
               = Cardinality(Fields(e.hash)) - Cardinality(Fields(e.hash) \ c.set)
          /\ Cardinality(Fields(e.hash)) \in Nat
      BY Zenon, <2>1, GainAndLoss
    <3>3. Cardinality(Fields(h)) \in Nat
      BY Zenon, <3>1, GainAndLoss
    <3> QED
      BY Zenon, <2>3, <3>2, <3>3
  <2>6. Cardinality(Fields(e.hash) \cap c.set) = Size(e) - Size(w.entry)
    BY SMTT(30), <2>1, <2>4, <2>5, SizeFacts DEF Size
  <2>7. w.reply.type # "error" /\ w.reply.int = Cardinality(Fields(e.hash) \cap c.set)
    BY Zenon, <2>2, ReplyFacts
  <2>8. w.reply.int = Size(e) - Size(w.entry)
    BY Zenon, <2>6, <2>7
  <2> QED
    BY Zenon, <1>8, <2>7, <2>8 DEF Accounts
<1>9. CASE c.name = "SADD"
  <2> DEFINE b == entryFor(e, "set")
  <2>1. /\ b \in Entries /\ b.hash = e.hash /\ b.set = e.set
        /\ e.set \in SUBSET Vals /\ c.set \in SUBSET Vals
        /\ Fields(e.hash) \in SUBSET Vals
    BY Zenon, NothingThere, NoEntryFacts DEF entryFor, NewEntry, NoEntry, Entries, Kinds, Fields, Commands
  <2>2. /\ w.entry = [b EXCEPT !.set = b.set \cup c.set]
        /\ w.reply = integerValue(Cardinality(c.set \ b.set))
    BY Zenon, <1>9 DEF Write, SAdd, Result
  <2> HIDE DEF b
  <2>3. w.entry.hash = e.hash /\ w.entry.set = e.set \cup c.set
    BY Zenon, <2>1, <2>2 DEF Entries
  <2>4. /\ Cardinality(c.set \ e.set) = Cardinality(e.set \cup c.set) - Cardinality(e.set)
        /\ Cardinality(e.set \cup c.set) \in Nat /\ Cardinality(e.set) \in Nat
        /\ Cardinality(Fields(e.hash)) \in Nat
    BY Zenon, <2>1, GainAndLoss
  <2>5. Cardinality(c.set \ e.set) = Size(w.entry) - Size(e)
    BY <2>3, <2>4 DEF Size
  <2>6. w.reply.type # "error" /\ w.reply.int = Cardinality(c.set \ b.set)
    BY Zenon, <2>2, ReplyFacts
  <2>7. w.reply.int = Size(w.entry) - Size(e)
    BY Zenon, <2>1, <2>5, <2>6
  <2> QED
    BY Zenon, <1>9, <2>6, <2>7 DEF Accounts
<1>10. CASE c.name = "SREM"
  <2>1. /\ e.hash = NoHash /\ e.set \in SUBSET Vals /\ c.set \in SUBSET Vals
        /\ NoEntry.hash = NoHash /\ NoEntry.set = {}
    BY Zenon, <1>10 DEF Entries, WellFormed, WrongType, SetCommands, NoEntry, Commands
  <2>2. /\ w.entry = IF e.set \subseteq c.set THEN NoEntry ELSE [e EXCEPT !.set = e.set \ c.set]
        /\ w.reply = integerValue(Cardinality(e.set \cap c.set))
    BY Zenon, <1>10 DEF Write, SRem, Result
  <2>3. w.entry.hash = NoHash /\ w.entry.set = e.set \ c.set
    BY Zenon, <2>1, <2>2 DEF Entries
  <2>4. /\ Cardinality(e.set \cap c.set) = Cardinality(e.set) - Cardinality(e.set \ c.set)
        /\ Cardinality(e.set \ c.set) \in Nat /\ Cardinality(e.set) \in Nat
    BY Zenon, <2>1, GainAndLoss
  <2>5. Cardinality(e.set \cap c.set) = Size(e) - Size(w.entry)
    BY <2>1, <2>3, <2>4, SizeFacts DEF Size
  <2>6. w.reply.type # "error" /\ w.reply.int = Cardinality(e.set \cap c.set)
    BY Zenon, <2>2, ReplyFacts
  <2>7. w.reply.int = Size(e) - Size(w.entry)
    BY Zenon, <2>5, <2>6
  <2> QED
    BY Zenon, <1>10, <2>6, <2>7 DEF Accounts
<1>11. CASE c.name \in {"EXPIRE", "PEXPIRE", "PERSIST"}
  <2>1. w = Expire(e, t, c) \/ w = Persist(e, c)
    BY Zenon, <1>11 DEF Write
  <2>2. \A b : Result(e, b).entry = e
    BY Zenon DEF Result
  <2>3. w.reply = boolReply(TRUE)
    <3>1. CASE w = Expire(e, t, c)
      <4>1. e.kind # "none"
        BY Zenon, <2>2, <3>1 DEF Expire
      <4> QED
        BY <3>1, <4>1 DEF Expire, Result
    <3>2. CASE w = Persist(e, c)
      <4>1. ~(e.kind = "none" \/ e.expireAt = Zero)
        BY Zenon, <2>2, <3>2 DEF Persist
      <4> QED
        BY <3>2, <4>1 DEF Persist, Result
    <3> QED
      BY Zenon, <2>1, <3>1, <3>2
  <2>4. w.reply.type # "error" /\ w.reply.int = 1
    BY Zenon, <2>3, ReplyFacts
  <2> QED
    BY Zenon, <1>11, <2>4 DEF Accounts
<1> QED
  BY Zenon, <1>1, <1>2, <1>3, <1>4, <1>5, <1>6, <1>7, <1>8, <1>9, <1>10, <1>11
  DEF IsWrite, writeCommands

\* A command that changes the entry it is given accounts for the change.
LEMMA EffectAccounts ==
  ASSUME NEW e \in Entries, NEW t \in Nat, NEW c \in Commands, WellFormed(e),
         NEW r, r = Effect(e, t, c), r.entry # e
  PROVE  Accounts(e, r.entry, c, r.reply)
<1>1. \A x : Result(e, x).entry = e
  BY Zenon DEF Result
<1>2. ~WrongType(e, c.name) /\ IsWrite(c.name) /\ r = Write(e, t, c)
  BY Zenon, <1>1 DEF Effect
<1> QED
  BY Zenon, <1>2, WriteAccounts

\* At a fixed time a key changes, as callers see it, only by a write command on
\* that key whose reply accounts for the change, whatever the reaper, a snapshot
\* or the second half of a GET does in between.
THEOREM ChangesReported == Spec => ChangesAreReported
<1> DEFINE Reported ==
      now' = now => \A k \in Keys :
        View'[k] # View[k] =>
          /\ last'.key = k
          /\ Accounts(View[k], View'[k], last'.cmd, last'.reply)
<1>1. ASSUME Inv, [Next]_vars PROVE Reported
  <2> SUFFICES ASSUME now' = now, NEW k \in Keys, View'[k] # View[k]
               PROVE  /\ last'.key = k
                      /\ Accounts(View[k], View'[k], last'.cmd, last'.reply)
    BY Zenon
  <2>1. now \in Nat /\ now + 1 # now
    BY <1>1 DEF Inv, TypeOK
  <2>2. ~Abstract!Tick /\ ~UNCHANGED Abstract!vars
    BY Zenon, <2>1 DEF Abstract!Tick, Abstract!vars
  <2>3. PICK c \in Requests : \E i \in DOMAIN c.keys : Abstract!Access(c, c.keys[i])
    BY Zenon, <1>1, <2>2, StepRefines DEF Abstract!Next
  <2>4. PICK j : Abstract!Access(c, j)
    BY Zenon, <2>3
  <2>5. PICK r : /\ r = Effect(View[j], now, c)
                 /\ View' = [View EXCEPT ![j] = r.entry]
                 /\ last' = [cmd |-> c, key |-> j, reply |-> r.reply]
    BY Zenon, <2>4 DEF Abstract!Access
  <2>6. View[k] \in Entries /\ WellFormed(View[k])
    BY Zenon, <1>1, KeyFacts DEF View
  <2>7. k = j /\ View'[k] = r.entry
    <3>1. DOMAIN View = Keys
      BY Zenon DEF View
    <3> QED
      BY Zenon, <2>5, <3>1
  <2>8. Accounts(View[k], r.entry, c, r.reply)
    BY Zenon, <2>1, <2>5, <2>6, <2>7, RequestFacts, EffectAccounts
  <2>9. last'.key = j /\ last'.cmd = c /\ last'.reply = r.reply
    BY Zenon, <2>5
  <2> QED
    BY Zenon, <2>7, <2>8, <2>9
<1> QED
  BY <1>1, Invariance, PTL DEF Spec, ChangesAreReported
=============================================================================
