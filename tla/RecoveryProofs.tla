--------------------------- MODULE RecoveryProofs ---------------------------
(***************************************************************************)
(* Proofs about Recovery, for any keys, values and requests and for a      *)
(* clock of any resolution.                                                *)
(***************************************************************************)
EXTENDS Recovery, KeyspaceProofs, WellFoundedInduction

\* The commands of the snapshot are commands a client could have sent.
LEMMA CmdType ==
  ASSUME NEW k \in Keys
  PROVE  /\ Cmd("SET", k) \in Commands /\ Cmd("RPUSH", k) \in Commands
         /\ Cmd("HSET", k) \in Commands /\ Cmd("SADD", k) \in Commands
         /\ Cmd("PEXPIRE", k) \in Commands
<1>1. <<k>> \in Seq(Keys) /\ <<k>> # <<>>
  OBVIOUS
<1>2. <<>> \in Seq(Vals) /\ NoHash \in [Vals -> Vals \cup {Nil}]
  BY DEF NoHash
<1>3. ASSUME NEW name \in commands
      PROVE  Cmd(name, k) \in Commands
  BY <1>1, <1>2 DEF Cmd, Commands
<1>4. {"SET", "RPUSH", "HSET", "SADD", "PEXPIRE"} \subseteq commands
  BY Zenon DEF commands, writeCommands
<1> QED
  BY <1>3, <1>4, Zenon

\* Giving a command one argument more leaves a command.
LEMMA WithArgument ==
  ASSUME NEW c \in Commands, NEW e \in Entries
  PROVE  /\ [c EXCEPT !.str = e.str] \in Commands
         /\ [c EXCEPT !.list = e.list] \in Commands
         /\ [c EXCEPT !.hash = e.hash] \in Commands
         /\ [c EXCEPT !.set = e.set] \in Commands
         /\ \A n \in Int : [c EXCEPT !.n = n] \in Commands
<1> DEFINE Keyed == Seq(Keys) \ {<<>>}
<1>1. Commands = [name : commands \cup {Unknown}, keys : Keyed, ok : BOOLEAN,
                  str : Vals \cup {Nil}, list : Seq(Vals), hash : [Vals -> Vals \cup {Nil}],
                  set : SUBSET Vals, n : Int, m : Int]
  BY Zenon DEF Commands
<1> HIDE DEF Keyed
<1> QED
  BY Zenon, <1>1 DEF Entries

\* Two entries are the same if their parts are.
LEMMA SameEntry ==
  ASSUME NEW e \in Entries, NEW f \in Entries,
         e.kind = f.kind, e.str = f.str, e.list = f.list, e.hash = f.hash,
         e.set = f.set, e.expireAt = f.expireAt
  PROVE  e = f
BY DEF Entries

\* The record of a value is a single write, and where there is nothing under its
\* key it leaves the value, without its deadline.
LEMMA ValueRecord ==
  ASSUME NEW k \in Keys, NEW e \in Entries, WellFormed(e), e.kind # "none",
         NEW t \in Nat
  PROVE  /\ encodeValue(k, e) \in Commands
         /\ Effect(NoEntry, t, encodeValue(k, e)).entry = [e EXCEPT !.expireAt = Zero]
<1> DEFINE c == encodeValue(k, e)
           v == [e EXCEPT !.expireAt = Zero]
           r == Effect(NoEntry, t, c).entry
<1>1. NoEntry.kind = "none" /\ NoEntry \in Entries
  BY Zenon, NoEntryFacts DEF NoEntry
<1>2. /\ v \in Entries /\ v.kind = e.kind /\ v.str = e.str /\ v.list = e.list
      /\ v.hash = e.hash /\ v.set = e.set /\ v.expireAt = Zero
  BY Zenon DEF Entries, Zero
<1>3. /\ entryFor(NoEntry, "list") = NewEntry("list")
      /\ entryFor(NoEntry, "hash") = NewEntry("hash")
      /\ entryFor(NoEntry, "set") = NewEntry("set")
  BY Zenon, <1>1 DEF entryFor
<1>4. CASE e.kind = "string"
  <2>0. [Cmd("SET", k) EXCEPT !.str = e.str] \in Commands
    <3>1. PICK d \in Commands : d = Cmd("SET", k)
      BY Zenon, CmdType
    <3> QED
      BY <3>1, WithArgument, Zenon
  <2>1. c = [Cmd("SET", k) EXCEPT !.str = e.str]
    BY Zenon, <1>4 DEF encodeValue
  <2>2. c \in Commands
    BY <2>0, <2>1, Zenon
  <2>3. c.name = "SET" /\ c.str = e.str /\ c.ok
    BY Zenon, <2>1 DEF Cmd
  <2>4. ArgsOK(c) /\ ~WrongType(NoEntry, c.name) /\ IsWrite(c.name)
    BY Zenon, <1>1, <1>4, <2>3
    DEF ArgsOK, stringArgs, listArgs, hashArgs, setArgs, WrongType, IsWrite, writeCommands,
      WellFormed
  <2>4a. Effect(NoEntry, t, c) = Set(NoEntry, c)
    BY Zenon, <2>3, <2>4 DEF Effect, Write, Set
  <2>5. r = Set(NoEntry, c).entry
    BY <2>4a, Zenon
  <2>6. e.list = <<>> /\ e.hash = NoHash /\ e.set = {}
    BY Zenon, <1>4 DEF WellFormed
  <2>7. /\ r.kind = "string" /\ r.str = e.str /\ r.list = <<>> /\ r.hash = NoHash
        /\ r.set = {} /\ r.expireAt = Zero
    BY Zenon, <2>3, <2>5 DEF Set, Result, NewEntry, NoEntry
  <2>9. r \in Entries
    BY Zenon, <1>1, <2>2, EffectFacts
  <2> HIDE DEF r, v
  <2>10. r = v
    BY Zenon, <1>2, <1>4, <2>6, <2>7, <2>9, SameEntry
  <2> QED
    BY Zenon, <2>2, <2>10 DEF r, v
<1>5. CASE e.kind = "list"
  <2>0. [Cmd("RPUSH", k) EXCEPT !.list = e.list] \in Commands
    <3>1. PICK d \in Commands : d = Cmd("RPUSH", k)
      BY Zenon, CmdType
    <3> QED
      BY <3>1, WithArgument, Zenon
  <2>1. c = [Cmd("RPUSH", k) EXCEPT !.list = e.list]
    BY Zenon, <1>5 DEF encodeValue
  <2>2. c \in Commands
    BY <2>0, <2>1, Zenon
  <2>3. c.name = "RPUSH" /\ c.list = e.list /\ c.ok
    BY Zenon, <2>1 DEF Cmd
  <2>4. ArgsOK(c) /\ ~WrongType(NoEntry, c.name) /\ IsWrite(c.name)
    BY Zenon, <1>1, <1>5, <2>3
    DEF ArgsOK, stringArgs, listArgs, hashArgs, setArgs, WrongType, IsWrite, writeCommands,
      WellFormed, ListCommands
  <2>4a. Effect(NoEntry, t, c) = RPush(NoEntry, c)
    BY Zenon, <2>3, <2>4 DEF Effect, Write, RPush
  <2>5. r = RPush(NoEntry, c).entry
    BY <2>4a, Zenon
  <2>6. e.str = Nil /\ e.hash = NoHash /\ e.set = {}
    BY Zenon, <1>5 DEF WellFormed
  <2>6a. r = [NewEntry("list") EXCEPT !.list = NewEntry("list").list \o e.list]
    BY Zenon, <1>3, <2>3, <2>5 DEF RPush, Result
  <2>7. /\ r.kind = "list" /\ r.str = Nil /\ r.list = <<>> \o e.list /\ r.hash = NoHash
        /\ r.set = {} /\ r.expireAt = Zero
    BY Zenon, <2>6a DEF NewEntry, NoEntry
  <2>8. r.list = e.list
    BY Zenon, <2>7, ConcatEmptySeq DEF Entries
  <2>9. r \in Entries
    BY Zenon, <1>1, <2>2, EffectFacts
  <2> HIDE DEF r, v
  <2>10. r = v
    BY Zenon, <1>2, <1>5, <2>6, <2>7, <2>8, <2>9, SameEntry
  <2> QED
    BY Zenon, <2>2, <2>10 DEF r, v
<1>6. CASE e.kind = "hash"
  <2>0. [Cmd("HSET", k) EXCEPT !.hash = e.hash] \in Commands
    <3>1. PICK d \in Commands : d = Cmd("HSET", k)
      BY Zenon, CmdType
    <3> QED
      BY <3>1, WithArgument, Zenon
  <2>1. c = [Cmd("HSET", k) EXCEPT !.hash = e.hash]
    BY Zenon, <1>6 DEF encodeValue
  <2>2. c \in Commands
    BY <2>0, <2>1, Zenon
  <2>3. c.name = "HSET" /\ c.hash = e.hash /\ c.ok
    BY Zenon, <2>1 DEF Cmd
  <2>4. ArgsOK(c) /\ ~WrongType(NoEntry, c.name) /\ IsWrite(c.name)
    BY Zenon, <1>1, <1>6, <2>3
    DEF ArgsOK, stringArgs, listArgs, hashArgs, setArgs, WrongType, IsWrite, writeCommands,
      WellFormed, HashCommands
  <2>4a. Effect(NoEntry, t, c) = HSet(NoEntry, c)
    BY Zenon, <2>3, <2>4 DEF Effect, Write, HSet
  <2>5. r = HSet(NoEntry, c).entry
    BY <2>4a, Zenon
  <2>6. e.str = Nil /\ e.list = <<>> /\ e.set = {}
    BY Zenon, <1>6 DEF WellFormed
  <2> DEFINE h == [f \in Vals |-> IF e.hash[f] # Nil THEN e.hash[f] ELSE NewEntry("hash").hash[f]]
  <2>6a. r = [NewEntry("hash") EXCEPT !.hash = h]
    BY Zenon, <1>3, <2>3, <2>5 DEF HSet, Result
  <2>8. h = e.hash
    BY Zenon DEF NewEntry, NoEntry, NoHash, Entries
  <2> HIDE DEF h
  <2>7. /\ r.kind = "hash" /\ r.str = Nil /\ r.list = <<>> /\ r.hash = h
        /\ r.set = {} /\ r.expireAt = Zero
    BY Zenon, <2>6a DEF NewEntry, NoEntry
  <2>9. r \in Entries
    BY Zenon, <1>1, <2>2, EffectFacts
  <2> HIDE DEF r, v
  <2>10. r = v
    BY Zenon, <1>2, <1>6, <2>6, <2>7, <2>8, <2>9, SameEntry
  <2> QED
    BY Zenon, <2>2, <2>10 DEF r, v
<1>7. CASE e.kind = "set"
  <2>0. [Cmd("SADD", k) EXCEPT !.set = e.set] \in Commands
    <3>1. PICK d \in Commands : d = Cmd("SADD", k)
      BY Zenon, CmdType
    <3> QED
      BY <3>1, WithArgument, Zenon
  <2>1. c = [Cmd("SADD", k) EXCEPT !.set = e.set]
    BY Zenon, <1>7 DEF encodeValue
  <2>2. c \in Commands
    BY <2>0, <2>1, Zenon
  <2>3. c.name = "SADD" /\ c.set = e.set /\ c.ok
    BY Zenon, <2>1 DEF Cmd
  <2>4. ArgsOK(c) /\ ~WrongType(NoEntry, c.name) /\ IsWrite(c.name)
    BY Zenon, <1>1, <1>7, <2>3
    DEF ArgsOK, stringArgs, listArgs, hashArgs, setArgs, WrongType, IsWrite, writeCommands,
      WellFormed, SetCommands
  <2>4a. Effect(NoEntry, t, c) = SAdd(NoEntry, c)
    BY Zenon, <2>3, <2>4 DEF Effect, Write, SAdd
  <2>5. r = SAdd(NoEntry, c).entry
    BY <2>4a, Zenon
  <2>6. e.str = Nil /\ e.list = <<>> /\ e.hash = NoHash
    BY Zenon, <1>7 DEF WellFormed
  <2>6a. r = [NewEntry("set") EXCEPT !.set = NewEntry("set").set \cup e.set]
    BY Zenon, <1>3, <2>3, <2>5 DEF SAdd, Result
  <2>7. /\ r.kind = "set" /\ r.str = Nil /\ r.list = <<>> /\ r.hash = NoHash
        /\ r.set = {} \cup e.set /\ r.expireAt = Zero
    BY Zenon, <2>6a DEF NewEntry, NoEntry
  <2>8. r.set = e.set
    BY Zenon, <2>7
  <2>9. r \in Entries
    BY Zenon, <1>1, <2>2, EffectFacts
  <2> HIDE DEF r, v
  <2>10. r = v
    BY Zenon, <1>2, <1>7, <2>6, <2>7, <2>8, <2>9, SameEntry
  <2> QED
    BY Zenon, <2>2, <2>10 DEF r, v
<1> QED
  BY Zenon, <1>4, <1>5, <1>6, <1>7 DEF Entries, Kinds

\* The record of a deadline is a write that, on a live entry, sets a deadline in
\* the future, at most a millisecond before the entry's own, and after it only if
\* less than a millisecond was left.
LEMMA ExpireRecord ==
  ASSUME NEW k \in Keys, NEW e \in Entries, NEW v \in Entries, NEW t \in Nat,
         v.kind # "none"
  PROVE  /\ encodeExpire(k, e, t) \in Commands
         /\ \E d \in Nat :
              /\ Effect(v, t, encodeExpire(k, e, t)).entry = [v EXCEPT !.expireAt = d]
              /\ d > t
              /\ d <= e.expireAt \/ d = t + Millisecond
              /\ d + Millisecond > e.expireAt
<1> DEFINE c == encodeExpire(k, e, t)
           ms == IF e.expireAt <= t THEN 0 ELSE (e.expireAt - t) \div Millisecond
           n == Millisecond * (IF ms < 1 THEN 1 ELSE ms)
<1>1. c = [Cmd("PEXPIRE", k) EXCEPT !.n = n]
  BY Zenon DEF encodeExpire
<1>2. e.expireAt \in Nat /\ Millisecond \in Nat /\ Millisecond > 0
  BY RecoveryAssumption DEF Entries
<1>3. /\ n \in Nat /\ n > 0
      /\ n <= e.expireAt - t \/ n = Millisecond
      /\ n + Millisecond > e.expireAt - t
  <2>1. CASE e.expireAt <= t
    BY <1>2, <2>1
  <2>2. CASE e.expireAt > t
    <3>1. PICK x \in Nat : x = e.expireAt - t
      BY <1>2, <2>2
    <3>2. PICK q \in Nat : q = x \div Millisecond
      BY <1>2
    <3>3. Millisecond * q <= x /\ x < Millisecond * q + Millisecond
      BY <1>2, <3>2
    <3>4. ms = q
      BY <2>2, <3>1, <3>2, <1>2
    <3> QED
      BY <1>2, <3>1, <3>3, <3>4
  <2> QED
    BY <1>2, <2>1, <2>2
<1> HIDE DEF n
<1>4. c \in Commands
  <2>1. PICK d \in Commands : d = Cmd("PEXPIRE", k)
    BY Zenon, CmdType
  <2>2. n \in Int
    BY <1>3
  <2> QED
    BY <1>1, <2>1, <2>2, WithArgument, Zenon
<1>5. c.name = "PEXPIRE" /\ c.n = n /\ c.ok
  BY Zenon, <1>1 DEF Cmd
<1>6. ArgsOK(c) /\ ~WrongType(v, c.name) /\ IsWrite(c.name)
  BY Zenon, <1>5 DEF ArgsOK, stringArgs, listArgs, hashArgs, setArgs, WrongType, IsWrite,
    writeCommands, ListCommands, HashCommands, SetCommands
<1>7. Effect(v, t, c) = Expire(v, t, c)
  BY Zenon, <1>5, <1>6 DEF Effect, Write
<1>8. Effect(v, t, c).entry = [v EXCEPT !.expireAt = t + n]
  BY <1>3, <1>5, <1>7 DEF Expire, Result
<1>9. t + n \in Nat /\ t + n > t /\ (t + n <= e.expireAt \/ t + n = t + Millisecond)
      /\ t + n + Millisecond > e.expireAt
  BY <1>2, <1>3
<1> QED
  BY Zenon, <1>4, <1>8, <1>9

\* What a rewrite writes for an entry are commands.
LEMMA RecordType ==
  ASSUME NEW k \in Keys, NEW e \in Entries, WellFormed(e), NEW t \in Nat
  PROVE  encodeRecord(k, e, t) \in Seq(Commands)
<1>1. CASE IsEmpty(e)
  BY <1>1 DEF encodeRecord
<1>2. CASE ~IsEmpty(e)
  <2>1. encodeValue(k, e) \in Commands /\ encodeExpire(k, e, t) \in Commands
    <3>1. e.kind # "none"
      BY Zenon, <1>2 DEF IsEmpty
    <3> QED
      BY Zenon, <3>1, ValueRecord, ExpireRecord
  <2>2. \A c, d \in Commands : <<c>> \in Seq(Commands) /\ <<c, d>> \in Seq(Commands)
    OBVIOUS
  <2>3. encodeRecord(k, e, t) \in {<<encodeValue(k, e)>>, <<encodeValue(k, e), encodeExpire(k, e, t)>>}
    BY Zenon, <1>2 DEF encodeRecord
  <2> QED
    BY Zenon, <2>1, <2>2, <2>3
<1> QED
  BY Zenon, <1>1, <1>2

\* The record of any entry the store can hold recreates it.
LEMMA RecordRecreates ==
  ASSUME NEW k \in Keys, NEW e \in Entries, WellFormed(e), NEW t \in Nat
  PROVE  Recreates(k, e, t)
<1> DEFINE v == [e EXCEPT !.expireAt = Zero]
           cv == encodeValue(k, e)
           cx == encodeExpire(k, e, t)
<1>1. CASE e.kind = "none"
  <2>1. e = NoEntry
    <3>1. /\ e.str = Nil /\ e.list = <<>> /\ e.hash = NoHash /\ e.set = {} /\ e.expireAt = Zero
      BY Zenon, <1>1 DEF WellFormed
    <3> QED
      BY Zenon, <1>1, <3>1, SameEntry, NoEntryFacts DEF NoEntry
  <2>2. encodeRecord(k, e, t) = <<>>
    BY Zenon, <1>1 DEF encodeRecord, IsEmpty
  <2>3. Restored(k, e, t) = e
    BY <2>1, <2>2 DEF Restored
  <2>4. e.expireAt = Zero
    BY Zenon, <1>1 DEF WellFormed
  <2> QED
    BY Zenon, <2>3, <2>4 DEF Recreates, SameValue
<1>2. CASE e.kind # "none"
  <2>1. ~IsEmpty(e)
    BY Zenon, <1>2 DEF IsEmpty, WellFormed
  <2>2. v \in Entries /\ v.expireAt = Zero /\ v.kind # "none" /\ [v EXCEPT !.expireAt = Zero] = v
    BY Zenon, <1>2 DEF Entries, Zero
  <2>3. Effect(NoEntry, t, cv).entry = v
    BY Zenon, <1>2, ValueRecord
  <2>4. CASE e.expireAt = Zero
    <3>1. encodeRecord(k, e, t) = <<cv>>
      BY Zenon, <2>1, <2>4 DEF encodeRecord
    <3>2. Restored(k, e, t) = v
      BY <2>3, <3>1 DEF Restored
    <3> QED
      BY Zenon, <2>2, <2>4, <3>2 DEF Recreates, SameValue
  <2>5. CASE e.expireAt # Zero
    <3>1. encodeRecord(k, e, t) = <<cv, cx>>
      BY Zenon, <2>1, <2>5 DEF encodeRecord
    <3>2. liveEntry(v, t) = v
      BY Zenon, <2>2 DEF liveEntry, expired
    <3>3. Restored(k, e, t) = Effect(v, t, cx).entry
      BY <2>3, <3>1, <3>2 DEF Restored
    <3> HIDE DEF v
    <3>4. PICK d \in Nat :
             /\ Effect(v, t, cx).entry = [v EXCEPT !.expireAt = d]
             /\ d > t
             /\ d <= e.expireAt \/ d = t + Millisecond
             /\ d + Millisecond > e.expireAt
      BY <2>2, ExpireRecord
    <3>5. /\ [v EXCEPT !.expireAt = d].expireAt = d
          /\ [[v EXCEPT !.expireAt = d] EXCEPT !.expireAt = Zero] = v
      BY Zenon, <2>2 DEF Entries
    <3> QED
      BY Zenon, <2>5, <3>3, <3>4, <3>5 DEF Recreates, SameValue, v
  <2> QED
    BY Zenon, <2>4, <2>5
<1> QED
  BY Zenon, <1>1, <1>2

-----------------------------------------------------------------------------
(* The inductive invariant: the store and the snapshot hold entries that   *)
(* encodeRecord can express.                                               *)

WellFormedMap(m) == m \in [Keys -> Entries] /\ \A k \in Keys : WellFormed(m[k])

Inv == TypeOK /\ WellFormedMap(keyspace) /\ WellFormedMap(records)

\* The empty keyspace is well-formed.
LEMMA NothingFacts == WellFormedMap(Nothing)
BY Zenon, NoEntryFacts DEF WellFormedMap, Nothing

\* A command leaves a well-formed keyspace behind.
LEMMA DispatchFacts ==
  ASSUME NEW m, WellFormedMap(m), NEW t \in Nat, NEW c \in Commands
  PROVE  WellFormedMap(Dispatch(m, t, c))
<1>1. ASSUME NEW k \in Keys
      PROVE  /\ m[k] \in Entries /\ WellFormed(m[k])
             /\ Effect(liveEntry(m[k], t), t, c).entry \in Entries
             /\ WellFormed(Effect(liveEntry(m[k], t), t, c).entry)
  <2>1. m[k] \in Entries /\ WellFormed(m[k])
    BY Zenon DEF WellFormedMap
  <2>2. PICK e \in Entries : e = liveEntry(m[k], t) /\ WellFormed(e)
    BY Zenon, <2>1, LiveEntryFacts
  <2> QED
    BY Zenon, <2>1, <2>2, EffectFacts
<1> QED
  BY Zenon, <1>1 DEF WellFormedMap, Dispatch

\* A request, and the first of the commands still to be replayed, is a command.
LEMMA HeadFacts ==
  ASSUME NEW s \in Seq(Commands), s # <<>>
  PROVE  Head(s) \in Commands /\ Tail(s) \in Seq(Commands)
BY Zenon, HeadTailProperties

\* The server starts with nothing in the store and nothing in the log.
LEMMA InvInit == Init => Inv
<1>1. <<>> \in Seq(Commands)
  OBVIOUS
<1> QED
  BY <1>1, NothingFacts DEF Init, Inv, TypeOK, WellFormedMap

\* Every step keeps the invariant: a write and a replayed command leave well-formed
\* entries, a rewrite works on a copy of them.
LEMMA InvNext == Inv /\ [Next]_vars => Inv'
<1> SUFFICES ASSUME Inv, [Next]_vars PROVE Inv'
  BY Zenon
<1> USE DEF Inv
<1>1. CASE Tick
  <2>1. now' \in Nat \ {0} /\ now' \in Nat
    BY <1>1 DEF Tick, TypeOK
  <2>2. ASSUME NEW k \in Keys
        PROVE  liveEntry(keyspace[k], now') \in Entries /\ WellFormed(liveEntry(keyspace[k], now'))
    BY Zenon, <2>1, LiveEntryFacts DEF WellFormedMap
  <2> QED
    BY Zenon, <1>1, <2>1, <2>2 DEF Tick, TypeOK, WellFormedMap
<1>2. ASSUME NEW c \in Requests, apply(c)
      PROVE  Inv'
  <2>1. c \in Commands /\ now \in Nat
    BY Zenon, RecoveryAssumption DEF TypeOK
  <2>2. WellFormedMap(keyspace')
    BY Zenon, <1>2, <2>1, DispatchFacts DEF apply
  <2>3. log' \in Seq(Commands)
    BY Zenon, <1>2, <2>1, AppendProperties DEF apply, TypeOK
  <2> QED
    BY Zenon, <1>2, <2>2, <2>3 DEF apply, TypeOK, WellFormedMap
<1>3. CASE Snapshot
  BY Zenon, <1>3, EmptySeq DEF Snapshot, TypeOK, WellFormedMap
<1>4. ASSUME NEW k \in Keys, writeSnapshot(k)
      PROVE  Inv'
  <2>1. encodeRecord(k, records[k], now) \in Seq(Commands)
    BY Zenon, RecordType DEF TypeOK, WellFormedMap
  <2>2. tmp' \in Seq(Commands)
    BY Zenon, <1>4, <2>1, ConcatProperties DEF writeSnapshot, TypeOK
  <2>3. WellFormedMap(records')
    BY Zenon, <1>4, NoEntryFacts DEF writeSnapshot, WellFormedMap
  <2> QED
    BY Zenon, <1>4, <2>2, <2>3 DEF writeSnapshot, TypeOK, WellFormedMap
<1>5. CASE Rename
  BY Zenon, <1>5, EmptySeq DEF Rename, TypeOK, WellFormedMap
<1>6. CASE RewriteFails
  BY Zenon, <1>6, NothingFacts, EmptySeq DEF RewriteFails, TypeOK, WellFormedMap
<1>7. CASE loadAOF
  BY Zenon, <1>7, NothingFacts, EmptySeq DEF loadAOF, TypeOK, WellFormedMap
<1>8. CASE Replay
  <2>1. Head(todo) \in Commands /\ todo' \in Seq(Commands) /\ now \in Nat
    BY Zenon, <1>8, HeadFacts DEF Replay, TypeOK
  <2>2. WellFormedMap(keyspace')
    BY Zenon, <1>8, <2>1, DispatchFacts DEF Replay
  <2> QED
    BY Zenon, <1>8, <2>1, <2>2 DEF Replay, TypeOK, WellFormedMap
<1>9. CASE Loaded
  BY Zenon, <1>9 DEF Loaded, TypeOK, WellFormedMap
<1>10. CASE UNCHANGED vars
  BY Zenon, <1>10 DEF vars, TypeOK, WellFormedMap
<1> QED
  BY Zenon, <1>1, <1>2, <1>3, <1>4, <1>5, <1>6, <1>7, <1>8, <1>9, <1>10 DEF Next

\* The store and the snapshot hold well-formed entries in every behaviour.
THEOREM Invariance == Spec => []Inv
BY InvInit, InvNext, PTL DEF Spec

\* The keyspace, the log, the snapshot and the files of a rewrite or a replay
\* under way keep their types in every behaviour.
THEOREM TypeCorrect == Spec => []TypeOK
<1>1. Inv => TypeOK
  BY Zenon DEF Inv
<1> QED
  BY <1>1, Invariance, PTL

\* A rewrite is faithful: whenever one is under way, the commands it writes for a
\* key (encodeRecord, encodeExpire) recreate the key's value and, up to a
\* millisecond, its deadline, and never delete it, for every entry the store can
\* hold and every point in time.
THEOREM RewriteIsFaithful == Spec => []RoundTrip
<1>1. Inv => RoundTrip
  <2> SUFFICES ASSUME Inv, NEW k \in Keys PROVE Recreates(k, records[k], now)
    BY Zenon DEF RoundTrip
  <2> QED
    BY Zenon, RecordRecreates DEF Inv, TypeOK, WellFormedMap
<1> QED
  BY <1>1, Invariance, PTL

-----------------------------------------------------------------------------
(* What a replay computes.  A log is replayed by a recursive function; its *)
(* equation, and what it says of longer logs, follow from the least number *)
(* for which they would fail.                                              *)

\* Every set of numbers that is not empty has a least one.
LEMMA Least ==
  ASSUME NEW T, T \subseteq Nat, T # {}
  PROVE  \E x \in T : \A y \in T : x <= y
<1> DEFINE R == OpToRel(<, Nat)
<1>1. PICK x \in T : \A y \in T : ~(<<y, x>> \in R)
  BY Zenon, NatLessThanWellFounded, WFMin
<1>2. \A y \in T : ~(y < x)
  BY Zenon, <1>1 DEF OpToRel
<1> QED
  BY <1>2

\* A replay of the first N commands of l at time t, step by step.
IsReplay(m, l, t, N) ==
  m = [n \in 0 .. N |-> IF n = 0 THEN Nothing ELSE Dispatch(m[n - 1], t, l[n])]

\* There is a replay of any length.
LEMMA ReplayExists ==
  ASSUME NEW l, NEW t, NEW N \in Nat
  PROVE  \E m : IsReplay(m, l, t, N)
<1> DEFINE T == {n \in Nat : ~\E m : IsReplay(m, l, t, n)}
<1> SUFFICES ASSUME T # {} PROVE FALSE
  BY Zenon
<1>1. PICK n \in T : \A k \in T : n <= k
  BY Zenon, Least
<1>2. CASE n = 0
  <2> DEFINE m == [i \in 0 .. 0 |-> Nothing]
  <2>1. m = [i \in 0 .. 0 |-> IF i = 0 THEN Nothing ELSE Dispatch(m[i - 1], t, l[i])]
    OBVIOUS
  <2>2. IsReplay(m, l, t, 0)
    BY Zenon, <2>1 DEF IsReplay
  <2> QED
    BY Zenon, <1>1, <1>2, <2>2
<1>3. CASE n # 0
  <2>1. n \in Nat /\ n - 1 \in Nat /\ ~(n <= n - 1)
    BY <1>3
  <2>2. n - 1 \notin T
    BY Zenon, <1>1, <2>1
  <2>3. PICK m : IsReplay(m, l, t, n - 1)
    BY Zenon, <2>1, <2>2
  <2> DEFINE x == [i \in 0 .. n |-> IF i = n THEN Dispatch(m[n - 1], t, l[n]) ELSE m[i]]
  <2>4. \A i \in 0 .. n - 1 : m[i] = IF i = 0 THEN Nothing ELSE Dispatch(m[i - 1], t, l[i])
    BY Zenon, <2>3 DEF IsReplay
  <2>5. ASSUME NEW i \in 0 .. n PROVE x[i] = IF i = 0 THEN Nothing ELSE Dispatch(x[i - 1], t, l[i])
    <3>1. CASE i = n
      <4>1. x[i - 1] = m[n - 1] /\ x[i] = Dispatch(m[n - 1], t, l[n])
        BY <1>3, <2>1, <3>1
      <4> QED
        BY Zenon, <1>3, <3>1, <4>1
    <3>2. CASE i # n /\ i # 0
      <4>1. x[i - 1] = m[i - 1] /\ x[i] = m[i] /\ i \in 0 .. n - 1
        BY <2>1, <3>2
      <4> QED
        BY Zenon, <2>4, <3>2, <4>1
    <3>3. CASE i # n /\ i = 0
      <4>1. x[i] = m[i] /\ i \in 0 .. n - 1
        BY <2>1, <3>3
      <4> QED
        BY Zenon, <2>4, <3>3, <4>1
    <3> QED
      BY Zenon, <3>1, <3>2, <3>3
  <2>6. DOMAIN x = 0 .. n /\ x = [i \in 0 .. n |-> x[i]]
    BY Zenon
  <2> HIDE DEF x
  <2>7. IsReplay(x, l, t, n)
    BY Zenon, <2>5, <2>6 DEF IsReplay
  <2> QED
    BY Zenon, <2>7
<1> QED
  BY Zenon, <1>2, <1>3

SameStart(l, k, N) == \A i \in 1 .. N : l[i] = k[i]

\* Replays of the same commands agree.
LEMMA ReplayUnique ==
  ASSUME NEW l, NEW k, NEW t, NEW N \in Nat, NEW M \in Nat, N <= M, SameStart(l, k, N),
         NEW x, IsReplay(x, l, t, N), NEW y, IsReplay(y, k, t, M)
  PROVE  \A i \in 0 .. N : x[i] = y[i]
<1> DEFINE T == {i \in 0 .. N : x[i] # y[i]}
<1> SUFFICES ASSUME T # {} PROVE FALSE
  BY Zenon
<1>1. PICK n \in T : \A i \in T : n <= i
  <2>1. T \subseteq Nat
    OBVIOUS
  <2> QED
    BY Zenon, <2>1, Least
<1>2. /\ \A i \in 0 .. N : x[i] = IF i = 0 THEN Nothing ELSE Dispatch(x[i - 1], t, l[i])
      /\ \A i \in 0 .. M : y[i] = IF i = 0 THEN Nothing ELSE Dispatch(y[i - 1], t, k[i])
  BY Zenon DEF IsReplay
<1>3. n \in 0 .. N /\ n \in 0 .. M
  OBVIOUS
<1>4. CASE n = 0
  BY Zenon, <1>1, <1>2, <1>3, <1>4
<1>5. CASE n # 0
  <2>1. n - 1 \in 0 .. N /\ ~(n <= n - 1) /\ n \in 1 .. N
    BY <1>3, <1>5
  <2>2. x[n - 1] = y[n - 1]
    BY Zenon, <1>1, <2>1
  <2>3. l[n] = k[n]
    BY Zenon, <2>1 DEF SameStart
  <2> QED
    BY Zenon, <1>1, <1>2, <1>3, <1>5, <2>2, <2>3
<1> QED
  BY Zenon, <1>4, <1>5

\* Rebuilt is the end of the replay.
LEMMA RebuiltIsReplay ==
  ASSUME NEW l \in Seq(Commands), NEW t, NEW x, IsReplay(x, l, t, Len(l))
  PROVE  Rebuilt(l, t) = x[Len(l)]
<1> DEFINE y == CHOOSE m : m = [n \in 0 .. Len(l) |-> IF n = 0 THEN Nothing ELSE Dispatch(m[n - 1], t, l[n])]
<1>1. Len(l) \in Nat /\ Len(l) <= Len(l)
  BY LenProperties
<1>2. Rebuilt(l, t) = y[Len(l)]
  BY Zenon DEF Rebuilt
<1>3. IsReplay(y, l, t, Len(l))
  BY Zenon DEF IsReplay
<1> HIDE DEF y
<1>4. \A i \in 0 .. Len(l) : x[i] = y[i]
  BY <1>1, <1>3, ReplayUnique DEF SameStart
<1> QED
  BY <1>1, <1>2, <1>4

\* The keyspace after the first n commands of a replay of l at time t.
After(l, t, n) == (CHOOSE m : IsReplay(m, l, t, Len(l)))[n]

\* A replay starts with nothing, executes command after command, and ends with
\* what the log stands for.
LEMMA AfterSteps ==
  ASSUME NEW l \in Seq(Commands), NEW t
  PROVE  /\ After(l, t, 0) = Nothing
         /\ \A n \in 1 .. Len(l) : After(l, t, n) = Dispatch(After(l, t, n - 1), t, l[n])
         /\ Rebuilt(l, t) = After(l, t, Len(l))
<1> DEFINE x == CHOOSE m : IsReplay(m, l, t, Len(l))
<1>1. Len(l) \in Nat
  BY Zenon, LenProperties
<1>2. IsReplay(x, l, t, Len(l))
  BY Zenon, <1>1, ReplayExists
<1>3. \A n : After(l, t, n) = x[n]
  BY Zenon DEF After
<1> HIDE DEF x
<1>4. \A i \in 0 .. Len(l) : x[i] = IF i = 0 THEN Nothing ELSE Dispatch(x[i - 1], t, l[i])
  BY Zenon, <1>2 DEF IsReplay
<1>5. x[0] = Nothing /\ \A n \in 1 .. Len(l) : x[n] = Dispatch(x[n - 1], t, l[n])
  <2>1. 0 \in 0 .. Len(l) /\ \A n \in 1 .. Len(l) : n \in 0 .. Len(l) /\ n # 0
    BY <1>1
  <2> QED
    BY Zenon, <1>4, <2>1
<1> QED
  BY Zenon, <1>2, <1>3, <1>5, RebuiltIsReplay

\* A command at the end of the log does not change what comes before it.
LEMMA AfterAppend ==
  ASSUME NEW l \in Seq(Commands), NEW c \in Commands, NEW t
  PROVE  /\ Append(l, c) \in Seq(Commands) /\ Len(Append(l, c)) = Len(l) + 1
         /\ After(Append(l, c), t, Len(l)) = After(l, t, Len(l))
         /\ After(Append(l, c), t, Len(l) + 1) = Dispatch(After(l, t, Len(l)), t, c)
<1> DEFINE a == Append(l, c)
           x == CHOOSE m : IsReplay(m, l, t, Len(l))
           y == CHOOSE m : IsReplay(m, a, t, Len(a))
<1>1. /\ Len(l) \in Nat /\ Len(a) = Len(l) + 1 /\ a \in Seq(Commands)
      /\ a[Len(l) + 1] = c /\ \A i \in 1 .. Len(l) : l[i] = a[i]
  BY LenProperties, AppendProperties
<1> HIDE DEF a
<1>2. IsReplay(x, l, t, Len(l))
  BY Zenon, <1>1, ReplayExists
<1>3. IsReplay(y, a, t, Len(a))
  <2>1. Len(a) \in Nat
    BY <1>1
  <2> QED
    BY Zenon, <2>1, ReplayExists
<1>4. After(l, t, Len(l)) = x[Len(l)] /\ After(a, t, Len(l)) = y[Len(l)]
  BY Zenon DEF After
<1> HIDE DEF x, y
<1>5. \A i \in 0 .. Len(l) : x[i] = y[i]
  <2>1. PICK N \in Nat, M \in Nat : N = Len(l) /\ M = Len(a) /\ N <= M
    BY <1>1
  <2>2. IsReplay(x, l, t, N) /\ IsReplay(y, a, t, M) /\ SameStart(l, a, N)
    BY Zenon, <1>1, <1>2, <1>3, <2>1 DEF SameStart
  <2>3. \A i \in 0 .. N : x[i] = y[i]
    BY <2>1, <2>2, ReplayUnique
  <2> QED
    BY Zenon, <2>1, <2>3
<1>6. After(a, t, Len(l)) = After(l, t, Len(l))
  <2>1. Len(l) \in 0 .. Len(l)
    BY <1>1
  <2> QED
    BY Zenon, <1>4, <1>5, <2>1
<1>7. After(a, t, Len(l) + 1) = Dispatch(After(a, t, Len(l)), t, c)
  <2>1. PICK n \in 1 .. Len(a) : n = Len(l) + 1 /\ n - 1 = Len(l)
    BY <1>1
  <2>2. After(a, t, n) = Dispatch(After(a, t, n - 1), t, a[n])
    BY Zenon, <1>1, AfterSteps
  <2> QED
    BY Zenon, <1>1, <2>1, <2>2
<1> QED
  BY Zenon, <1>1, <1>6, <1>7 DEF a

\* Every keyspace of a replay is well-formed.
LEMMA AfterTyped ==
  ASSUME NEW l \in Seq(Commands), NEW t \in Nat, NEW n \in 0 .. Len(l)
  PROVE  WellFormedMap(After(l, t, n))
<1> DEFINE T == {i \in 0 .. Len(l) : ~WellFormedMap(After(l, t, i))}
<1> SUFFICES ASSUME T # {} PROVE FALSE
  BY Zenon
<1>0. Len(l) \in Nat
  BY Zenon, LenProperties
<1>1. PICK i \in T : \A j \in T : i <= j
  <2>1. T \subseteq Nat
    BY <1>0
  <2> QED
    BY Zenon, <2>1, Least
<1>2. CASE i = 0
  BY Zenon, <1>1, <1>2, AfterSteps, NothingFacts
<1>3. CASE i # 0
  <2>1. i \in 1 .. Len(l) /\ i - 1 \in 0 .. Len(l) /\ ~(i <= i - 1)
    BY <1>0, <1>3
  <2>2. WellFormedMap(After(l, t, i - 1))
    BY Zenon, <1>1, <2>1
  <2>3. l[i] \in Commands
    BY Zenon, <2>1, ElementOfSeq
  <2> QED
    BY Zenon, <1>1, <2>1, <2>2, <2>3, AfterSteps, DispatchFacts
<1> QED
  BY Zenon, <1>2, <1>3

-----------------------------------------------------------------------------
(* A command that sets no deadline does the same at any time.              *)

Deadlines == {"EXPIRE", "PEXPIRE"}

\* The commands that go to the log: only DEL names several keys.
Logged == {c \in Commands : Len(c.keys) = 1 \/ c.name = "DEL"}

\* A write that sets no deadline leaves none behind where none was.
LEMMA WriteTimeless ==
  ASSUME NEW e \in Entries, e.expireAt = Zero, NEW c \in Commands, IsWrite(c.name),
         c.name \notin Deadlines, NEW t \in Nat, NEW u \in Nat
  PROVE  /\ Write(e, t, c) = Write(e, u, c)
         /\ Write(e, t, c).entry.expireAt = Zero
<1>0. /\ NoEntry.expireAt = Zero /\ \A kind : NewEntry(kind).expireAt = Zero
      /\ \A kind : entryFor(e, kind).expireAt = Zero
  BY Zenon DEF NoEntry, NewEntry, entryFor
<1>1. CASE c.name = "SET"
  BY Zenon, <1>0, <1>1 DEF Write, Set, Result, NewEntry, NoEntry
<1>2. CASE c.name = "DEL"
  BY Zenon, <1>0, <1>2 DEF Write, Del, Result
<1>3. CASE c.name = "LPUSH"
  BY Zenon, <1>0, <1>3 DEF Write, LPush, Result, entryFor, NewEntry, NoEntry, Entries
<1>4. CASE c.name = "RPUSH"
  BY Zenon, <1>0, <1>4 DEF Write, RPush, Result, entryFor, NewEntry, NoEntry, Entries
<1>5. CASE c.name = "LPOP"
  BY Zenon, <1>0, <1>5 DEF Write, LPop, Result, Entries
<1>6. CASE c.name = "RPOP"
  BY Zenon, <1>0, <1>6 DEF Write, RPop, Result, Entries
<1>7. CASE c.name = "HSET"
  BY Zenon, <1>0, <1>7 DEF Write, HSet, Result, entryFor, NewEntry, NoEntry, Entries
<1>8. CASE c.name = "HDEL"
  BY Zenon, <1>0, <1>8 DEF Write, HDel, Result, Entries
<1>9. CASE c.name = "SADD"
  BY Zenon, <1>0, <1>9 DEF Write, SAdd, Result, entryFor, NewEntry, NoEntry, Entries
<1>10. CASE c.name = "SREM"
  BY Zenon, <1>0, <1>10 DEF Write, SRem, Result, Entries
<1>11. CASE c.name = "PERSIST"
  BY Zenon, <1>11 DEF Write, Persist, Result
<1> QED
  BY Zenon, <1>1, <1>2, <1>3, <1>4, <1>5, <1>6, <1>7, <1>8, <1>9, <1>10, <1>11
  DEF IsWrite, writeCommands, Deadlines

\* The same for any command, under a key without deadline.
LEMMA EffectTimeless ==
  ASSUME NEW e \in Entries, e.expireAt = Zero, NEW c \in Commands,
         c.name \notin Deadlines, NEW t \in Nat, NEW u \in Nat
  PROVE  /\ Effect(liveEntry(e, t), t, c) = Effect(liveEntry(e, u), u, c)
         /\ Effect(liveEntry(e, t), t, c).entry.expireAt = Zero
<1>1. liveEntry(e, t) = e /\ liveEntry(e, u) = e
  BY Zenon DEF liveEntry, expired
<1>2. Effect(e, t, c) = Effect(e, u, c) /\ Effect(e, t, c).entry.expireAt = Zero
  <2>1. CASE ~ArgsOK(c) \/ WrongType(e, c.name)
    BY Zenon, <2>1 DEF Effect, Result
  <2>2. CASE ~(~ArgsOK(c) \/ WrongType(e, c.name)) /\ IsWrite(c.name)
    BY Zenon, <2>2, WriteTimeless DEF Effect
  <2>3. CASE ~(~ArgsOK(c) \/ WrongType(e, c.name)) /\ ~IsWrite(c.name)
    BY Zenon, <2>3 DEF Effect, Result
  <2> QED
    BY Zenon, <2>1, <2>2, <2>3
<1> QED
  BY Zenon, <1>1, <1>2

\* A logged command that names k sets no deadline if it does not do so as a
\* command on k alone.
LEMMA NamesKey ==
  ASSUME NEW c \in Logged, NEW i \in DOMAIN c.keys, c.keys[1] = c.keys[i] => c.name \notin Deadlines
  PROVE  c.name \notin Deadlines
<1>1. c.keys \in Seq(Keys) /\ (Len(c.keys) = 1 \/ c.name = "DEL")
  BY Zenon DEF Logged, Commands
<1>2. CASE Len(c.keys) = 1
  <2>1. i = 1
    BY <1>1, <1>2, LenProperties
  <2> QED
    BY Zenon, <2>1
<1> QED
  BY Zenon, <1>1, <1>2 DEF Deadlines

\* Two keyspaces that agree on a key without deadline still do after a command that
\* sets none, whenever each of them executes it.
LEMMA DispatchTimeless ==
  ASSUME NEW m, WellFormedMap(m), NEW p, NEW k \in Keys, m[k] = p[k], m[k].expireAt = Zero,
         NEW c \in Logged, c.keys[1] = k => c.name \notin Deadlines,
         NEW t \in Nat, NEW u \in Nat
  PROVE  /\ Dispatch(m, t, c)[k] = Dispatch(p, u, c)[k]
         /\ Dispatch(m, t, c)[k].expireAt = Zero
<1>1. CASE \E i \in DOMAIN c.keys : c.keys[i] = k
  <2>1. c.name \notin Deadlines /\ c \in Commands
    BY Zenon, <1>1, NamesKey DEF Logged
  <2>2. m[k] \in Entries
    BY Zenon DEF WellFormedMap
  <2>3. /\ Dispatch(m, t, c)[k] = Effect(liveEntry(m[k], t), t, c).entry
        /\ Dispatch(p, u, c)[k] = Effect(liveEntry(m[k], u), u, c).entry
    BY Zenon, <1>1 DEF Dispatch
  <2> QED
    BY Zenon, <2>1, <2>2, <2>3, EffectTimeless
<1>2. CASE ~\E i \in DOMAIN c.keys : c.keys[i] = k
  BY Zenon, <1>2 DEF Dispatch
<1> QED
  BY Zenon, <1>1, <1>2

\* No write that is executed replies with an error.
LEMMA WriteReply ==
  ASSUME NEW e, NEW t, NEW c, IsWrite(c.name)
  PROVE  Write(e, t, c).reply # errorValue
<1>0. /\ errorValue.type = "error" /\ OKReply.type = "status"
      /\ \A n : integerValue(n).type = "int"
      /\ \A v : bulkValue(v).type = "bulk"
      /\ \A b : boolReply(b).type = "int"
  BY Zenon DEF errorValue, OKReply, integerValue, bulkValue, boolReply, NewReply
<1>1. CASE c.name = "SET"
  BY Zenon, <1>0, <1>1 DEF Write, Set, Result
<1>2. CASE c.name = "DEL"
  BY Zenon, <1>0, <1>2 DEF Write, Del, Result
<1>3. CASE c.name = "LPUSH"
  BY Zenon, <1>0, <1>3 DEF Write, LPush, Result
<1>4. CASE c.name = "RPUSH"
  BY Zenon, <1>0, <1>4 DEF Write, RPush, Result
<1>5. CASE c.name = "LPOP"
  BY Zenon, <1>0, <1>5 DEF Write, LPop, Result
<1>6. CASE c.name = "RPOP"
  BY Zenon, <1>0, <1>6 DEF Write, RPop, Result
<1>7. CASE c.name = "HSET"
  BY Zenon, <1>0, <1>7 DEF Write, HSet, Result
<1>8. CASE c.name = "HDEL"
  BY Zenon, <1>0, <1>8 DEF Write, HDel, Result
<1>9. CASE c.name = "SADD"
  BY Zenon, <1>0, <1>9 DEF Write, SAdd, Result
<1>10. CASE c.name = "SREM"
  BY Zenon, <1>0, <1>10 DEF Write, SRem, Result
<1>11. CASE c.name = "PERSIST"
  BY Zenon, <1>0, <1>11 DEF Write, Persist, Result
<1>12. CASE c.name \in {"EXPIRE", "PEXPIRE"}
  <2>1. Write(e, t, c) = Expire(e, t, c)
    BY Zenon, <1>12 DEF Write
  <2>2. Write(e, t, c).reply \in {boolReply(FALSE), boolReply(TRUE)}
    BY <2>1 DEF Expire, Result
  <2> QED
    BY Zenon, <1>0, <2>2
<1> QED
  BY Zenon, <1>1, <1>2, <1>3, <1>4, <1>5, <1>6, <1>7, <1>8, <1>9, <1>10, <1>11, <1>12
  DEF IsWrite, writeCommands

\* A write that is refused changes nothing under a key without deadline.
LEMMA RefusedKeeps ==
  ASSUME NEW m, WellFormedMap(m), NEW k \in Keys, m[k].expireAt = Zero,
         NEW c \in Logged, IsWrite(c.name), NEW t \in Nat, Refused(m, t, c)
  PROVE  Dispatch(m, t, c)[k] = m[k]
<1>1. CASE \E i \in DOMAIN c.keys : c.keys[i] = k
  <2>1. PICK i \in DOMAIN c.keys : c.keys[i] = k
    BY Zenon, <1>1
  <2>2. PICK j \in DOMAIN c.keys : Effect(liveEntry(m[c.keys[j]], t), t, c).reply = errorValue
    BY Zenon DEF Refused
  <2>3. ~ArgsOK(c) \/ WrongType(liveEntry(m[c.keys[j]], t), c.name)
    BY Zenon, <2>2, WriteReply DEF Effect
  <2>4. i = j \/ ~ArgsOK(c)
    <3>1. CASE c.name = "DEL"
      BY Zenon, <2>3, <3>1 DEF WrongType, ListCommands, HashCommands, SetCommands
    <3>2. CASE c.name # "DEL"
      BY <3>2, LenProperties DEF Logged, Commands
    <3> QED
      BY Zenon, <3>1, <3>2
  <2>5. liveEntry(m[k], t) = m[k]
    BY Zenon DEF liveEntry, expired
  <2>6. ~ArgsOK(c) \/ WrongType(m[k], c.name)
    BY Zenon, <2>1, <2>3, <2>4, <2>5
  <2>7. Effect(m[k], t, c).entry = m[k]
    BY Zenon, <2>6 DEF Effect, Result
  <2> QED
    BY Zenon, <1>1, <2>5, <2>7 DEF Dispatch
<1>2. CASE ~\E i \in DOMAIN c.keys : c.keys[i] = k
  BY Zenon, <1>2 DEF Dispatch
<1> QED
  BY Zenon, <1>1, <1>2

-----------------------------------------------------------------------------
(* What the log says of a key it gives no deadline.                        *)

\* Nothing in l gives k a deadline; Lasting says it of the log.
Timeless(l, k) == \A i \in DOMAIN l : l[i].keys[1] = k => l[i].name \notin Deadlines

\* The first n commands of l leave under k what m has there, whenever they are
\* replayed, and that is without deadline.
Stands(l, n, m, k) == m[k].expireAt = Zero /\ \A t \in Nat : After(l, t, n)[k] = m[k]

\* A logged command is a command.
LEMMA LoggedType ==
  ASSUME NEW l \in Seq(Logged)
  PROVE  l \in Seq(Commands) /\ Len(l) \in Nat /\ DOMAIN l = 1 .. Len(l)
BY LenProperties, SeqMonotonic DEF Logged

\* What a log with one more command gives a deadline.
LEMMA TimelessAppend ==
  ASSUME NEW l \in Seq(Commands), NEW c \in Commands, NEW k
  PROVE  Timeless(Append(l, c), k) <=> Timeless(l, k) /\ (c.keys[1] = k => c.name \notin Deadlines)
<1>1. /\ DOMAIN l = 1 .. Len(l) /\ DOMAIN Append(l, c) = 1 .. Len(l) + 1 /\ Len(l) \in Nat
      /\ \A i \in 1 .. Len(l) : Append(l, c)[i] = l[i]
      /\ Append(l, c)[Len(l) + 1] = c
  BY LenProperties, AppendProperties
<1>2. /\ \A i \in 1 .. Len(l) : i \in 1 .. Len(l) + 1
      /\ Len(l) + 1 \in 1 .. Len(l) + 1
      /\ \A i \in 1 .. Len(l) + 1 : i \in 1 .. Len(l) \/ i = Len(l) + 1
  BY <1>1
<1>3. Timeless(Append(l, c), k) => Timeless(l, k) /\ (c.keys[1] = k => c.name \notin Deadlines)
  BY Zenon, <1>1, <1>2 DEF Timeless
<1>4. Timeless(l, k) /\ (c.keys[1] = k => c.name \notin Deadlines) => Timeless(Append(l, c), k)
  BY Zenon, <1>1, <1>2 DEF Timeless
<1> QED
  BY Zenon, <1>3, <1>4

\* One more command of the log, executed at any time, keeps the two in step.
LEMMA StandsStep ==
  ASSUME NEW l \in Seq(Logged), NEW n \in 1 .. Len(l), NEW m, WellFormedMap(m),
         NEW k \in Keys, Timeless(l, k), Stands(l, n - 1, m, k), NEW u \in Nat
  PROVE  Stands(l, n, Dispatch(m, u, l[n]), k)
<1>1. l \in Seq(Commands) /\ n \in DOMAIN l /\ l[n] \in Logged
  BY Zenon, LoggedType, ElementOfSeq
<1>2. l[n].keys[1] = k => l[n].name \notin Deadlines
  BY Zenon, <1>1 DEF Timeless
<1>3. m[k].expireAt = Zero /\ \A t \in Nat : m[k] = After(l, t, n - 1)[k]
  BY Zenon DEF Stands
<1>4. ASSUME NEW p, m[k] = p[k], NEW t \in Nat
      PROVE  /\ Dispatch(m, u, l[n])[k] = Dispatch(p, t, l[n])[k]
             /\ Dispatch(m, u, l[n])[k].expireAt = Zero
  BY <1>1, <1>2, <1>3, <1>4, DispatchTimeless
<1>5. \A t \in Nat : After(l, t, n) = Dispatch(After(l, t, n - 1), t, l[n])
  BY Zenon, <1>1, AfterSteps
<1>6. \A t \in Nat : After(l, t, n)[k] = Dispatch(m, u, l[n])[k]
  BY Zenon, <1>3, <1>4, <1>5
<1>7. Dispatch(m, u, l[n])[k].expireAt = Zero
  BY Zenon, <1>4
<1> QED
  BY Zenon, <1>6, <1>7 DEF Stands

\* A command that is executed and goes to the end of the log.
LEMMA StandsAppend ==
  ASSUME NEW l \in Seq(Logged), NEW c \in Logged, NEW m, WellFormedMap(m), NEW k \in Keys,
         Timeless(Append(l, c), k), Stands(l, Len(l), m, k), NEW u \in Nat
  PROVE  Stands(Append(l, c), Len(Append(l, c)), Dispatch(m, u, c), k)
<1>1. l \in Seq(Commands) /\ Len(l) \in Nat /\ c \in Commands
  BY Zenon, LoggedType DEF Logged
<1>2. PICK a \in Seq(Logged) : a = Append(l, c)
  BY Zenon, AppendProperties
<1>3. PICK n \in 1 .. Len(a) : n = Len(l) + 1 /\ n - 1 = Len(l) /\ n = Len(a) /\ a[n] = c
  BY <1>1, <1>2, AppendProperties
<1>4. \A t \in Nat : After(Append(l, c), t, Len(l)) = After(l, t, Len(l))
  BY Zenon, <1>1, AfterAppend
<1>5. Stands(a, Len(l), m, k)
  BY Zenon, <1>2, <1>4 DEF Stands
<1>6. Stands(a, n - 1, m, k)
  BY Zenon, <1>3, <1>5
<1> QED
  BY Zenon, <1>2, <1>3, <1>6, StandsStep

\* Nothing stands for nothing.
LEMMA StandsNothing ==
  ASSUME NEW l \in Seq(Commands), NEW m, NEW k \in Keys, m[k] = NoEntry
  PROVE  Stands(l, 0, m, k)
<1>1. \A t \in Nat : After(l, t, 0)[k] = NoEntry
  BY Zenon, AfterSteps DEF Nothing
<1>2. NoEntry.expireAt = Zero
  BY Zenon DEF NoEntry
<1> QED
  BY Zenon, <1>1, <1>2 DEF Stands

-----------------------------------------------------------------------------
(* The same for the file of a rewrite.  A key whose record is still to be  *)
(* written is not in the file; one without record stands there as it is.   *)

Written(l, r, m, k) ==
  IF r[k] = NoEntry THEN Timeless(l, k) => Stands(l, Len(l), m, k)
  ELSE /\ \A t \in Nat : After(l, t, Len(l))[k] = NoEntry
       /\ r[k].expireAt = Zero => m[k] = r[k]

\* A command leaves the keys it does not name alone.
LEMMA DispatchOther ==
  ASSUME NEW m, NEW t, NEW c, NEW k \in Keys, ~\E i \in DOMAIN c.keys : c.keys[i] = k
  PROVE  Dispatch(m, t, c)[k] = m[k]
BY Zenon DEF Dispatch

\* A command on another key changes nothing of that.
LEMMA WrittenOther ==
  ASSUME NEW l \in Seq(Commands), NEW c \in Commands, NEW k \in Keys, NEW o \in Keys, k # o,
         c.keys = <<o>>, NEW r, NEW q, q[k] = r[k], NEW m, Written(l, r, m, k)
  PROVE  Written(Append(l, c), q, m, k)
<1> DEFINE a == Append(l, c)
<1>1. Len(a) = Len(l) + 1 /\ \A t \in Nat : After(a, t, Len(l) + 1) = Dispatch(After(l, t, Len(l)), t, c)
  BY Zenon, AfterAppend
<1>2. ~\E i \in DOMAIN c.keys : c.keys[i] = k
  OBVIOUS
<1>3. \A t \in Nat : After(a, t, Len(a))[k] = After(l, t, Len(l))[k]
  <2>1. ASSUME NEW t \in Nat PROVE After(a, t, Len(a))[k] = After(l, t, Len(l))[k]
    <3>1. PICK p : p = After(l, t, Len(l)) /\ After(a, t, Len(a)) = Dispatch(p, t, c)
      BY Zenon, <1>1
    <3>2. Dispatch(p, t, c)[k] = p[k]
      BY <1>2, DispatchOther
    <3> QED
      BY Zenon, <3>1, <3>2
  <2> QED
    BY Zenon, <2>1
<1>4. Timeless(a, k) => Timeless(l, k)
  BY Zenon, TimelessAppend
<1> QED
  BY Zenon, <1>3, <1>4 DEF Written, Stands

\* The commands of a record name the key, and the first sets no deadline.
LEMMA RecordFacts ==
  ASSUME NEW k \in Keys, NEW e \in Entries, WellFormed(e), e # NoEntry, NEW t \in Nat
  PROVE  /\ e.kind # "none" /\ ~IsEmpty(e)
         /\ encodeValue(k, e) \in Logged /\ encodeValue(k, e).keys = <<k>>
         /\ encodeExpire(k, e, t) \in Logged /\ encodeExpire(k, e, t).keys = <<k>>
         /\ encodeExpire(k, e, t).name \in Deadlines
<1>1. e.kind # "none"
  BY Zenon, SameEntry, NoEntryFacts DEF WellFormed, NoEntry
<1>2. ~IsEmpty(e)
  BY Zenon, <1>1 DEF IsEmpty, WellFormed
<1>3. encodeValue(k, e) \in Commands /\ encodeExpire(k, e, t) \in Commands
  BY Zenon, <1>1, ValueRecord, ExpireRecord
<1>4. encodeValue(k, e).keys = <<k>>
  <2>1. e.kind \in {"string", "list", "hash", "set"}
    BY Zenon, <1>1 DEF Entries, Kinds
  <2> QED
    BY Zenon, <2>1 DEF encodeValue, Cmd
<1>5. encodeExpire(k, e, t).keys = <<k>> /\ encodeExpire(k, e, t).name = "PEXPIRE"
  BY Zenon DEF encodeExpire, Cmd
<1>6. Len(<<k>>) = 1
  BY Zenon
<1> QED
  BY Zenon, <1>1, <1>2, <1>3, <1>4, <1>5, <1>6 DEF Logged, Deadlines

\* A record of two commands.
LEMMA TwoConcat ==
  ASSUME NEW S, NEW c \in S, NEW d \in S
  PROVE  <<c>> \in Seq(S) /\ <<d>> \in Seq(S) /\ <<c>> \o <<d>> = <<c, d>>
<1>1. <<c>> \in Seq(S) /\ <<d>> \in Seq(S)
  OBVIOUS
<1>2. Append(<<c>>, d) = <<c, d>>
  <2>0. Len(<<c>>) = 1 /\ <<c>>[1] = c
    BY Zenon
  <2>1. /\ Append(<<c>>, d) \in Seq(S) /\ Len(Append(<<c>>, d)) = 2
        /\ Append(<<c>>, d)[1] = c /\ Append(<<c>>, d)[2] = d
    BY <1>1, <2>0, AppendProperties
  <2>2. <<c, d>> \in Seq(S) /\ Len(<<c, d>>) = 2 /\ <<c, d>>[1] = c /\ <<c, d>>[2] = d
    OBVIOUS
  <2>3. \A i \in 1 .. 2 : i = 1 \/ i = 2
    OBVIOUS
  <2>4. \A i \in 1 .. 2 : Append(<<c>>, d)[i] = <<c, d>>[i]
    BY Zenon, <2>1, <2>2, <2>3
  <2> QED
    BY Zenon, <2>1, <2>2, <2>4, SeqEqual
<1>3. Append(<<c>>, d) = <<c>> \o <<d>>
  BY Zenon, <1>1, AppendIsConcat
<1> QED
  BY Zenon, <1>1, <1>2, <1>3

\* Writing a record keeps the file right, for its own key and for the others.
LEMMA RecordWritten ==
  ASSUME NEW l \in Seq(Logged), NEW r, WellFormedMap(r), NEW m,
         NEW o \in Keys, r[o] # NoEntry, NEW t \in Nat,
         NEW k \in Keys, Written(l, r, m, k)
  PROVE  /\ l \o encodeRecord(o, r[o], t) \in Seq(Logged)
         /\ Written(l \o encodeRecord(o, r[o], t), [r EXCEPT ![o] = NoEntry], m, k)
<1> DEFINE q == [r EXCEPT ![o] = NoEntry]
<1>1. PICK e \in Entries : e = r[o] /\ WellFormed(e) /\ e # NoEntry
  BY Zenon DEF WellFormedMap
<1>2. q[o] = NoEntry /\ (k # o => q[k] = r[k])
  BY Zenon DEF WellFormedMap
<1> HIDE DEF q
<1>3. PICK cv \in Logged : cv = encodeValue(o, e) /\ cv.keys = <<o>>
  BY Zenon, <1>1, RecordFacts
<1>4. PICK cx \in Logged : cx = encodeExpire(o, e, t) /\ cx.keys = <<o>> /\ cx.name \in Deadlines
  BY Zenon, <1>1, RecordFacts
<1>5. l \in Seq(Commands) /\ Len(l) \in Nat /\ cv \in Commands /\ cx \in Commands
  BY Zenon, LoggedType DEF Logged
<1>6. PICK a \in Seq(Logged) : a = Append(l, cv) /\ a = l \o <<cv>>
  <2>1. Append(l, cv) \in Seq(Logged) /\ Append(l, cv) = l \o <<cv>>
    BY Zenon, AppendProperties, AppendIsConcat
  <2> QED
    BY Zenon, <2>1
<1>7. PICK b \in Seq(Logged) : b = Append(a, cx) /\ b = l \o <<cv, cx>>
  <2>1. Append(a, cx) \in Seq(Logged) /\ Append(a, cx) = a \o <<cx>>
    BY Zenon, AppendProperties, AppendIsConcat
  <2>2. <<cv>> \in Seq(Logged) /\ <<cx>> \in Seq(Logged) /\ <<cv>> \o <<cx>> = <<cv, cx>>
    BY Zenon, TwoConcat
  <2>3. (l \o <<cv>>) \o <<cx>> = l \o (<<cv>> \o <<cx>>)
    BY <2>2, ConcatAssociative
  <2> QED
    BY Zenon, <1>6, <2>1, <2>2, <2>3
<1>8. a \in Seq(Commands)
  BY Zenon, LoggedType
<1>9. k # o => Written(a, q, m, k) /\ Written(b, q, m, k)
  <2>1. k # o => Written(a, q, m, k)
    BY Zenon, <1>2, <1>3, <1>5, <1>6, WrittenOther
  <2> QED
    BY Zenon, <2>1, <1>4, <1>5, <1>7, <1>8, WrittenOther
<1>10. CASE e.expireAt = Zero
  <2>1. l \o encodeRecord(o, r[o], t) = a
    BY Zenon, <1>1, <1>3, <1>6, <1>10, RecordFacts DEF encodeRecord
  <2>2. ASSUME k = o PROVE Written(a, q, m, k)
    <3>1. m[k] = e /\ \A u \in Nat : After(l, u, Len(l))[k] = NoEntry
      BY Zenon, <1>1, <1>10, <2>2 DEF Written
    <3>2. \A u \in Nat : After(a, u, Len(a)) = Dispatch(After(l, u, Len(l)), u, cv)
      <4>1. /\ Len(Append(l, cv)) = Len(l) + 1
            /\ \A u \in Nat : After(Append(l, cv), u, Len(l) + 1) = Dispatch(After(l, u, Len(l)), u, cv)
        BY Zenon, <1>5, AfterAppend
      <4> QED
        BY Zenon, <1>6, <4>1
    <3>3. [e EXCEPT !.expireAt = Zero] = e
      BY Zenon, <1>10 DEF Entries
    <3>4. ASSUME NEW u \in Nat PROVE After(a, u, Len(a))[k] = e
      <4>1. liveEntry(NoEntry, u) = NoEntry
        BY Zenon DEF liveEntry
      <4>2. Effect(NoEntry, u, cv).entry = e
        <5>1. e.kind # "none"
          BY Zenon, <1>1, RecordFacts
        <5>2. Effect(NoEntry, u, encodeValue(o, e)).entry = [e EXCEPT !.expireAt = Zero]
          BY Zenon, <1>1, <5>1, ValueRecord
        <5> QED
          BY Zenon, <1>3, <3>3, <5>2
      <4>3. \E i \in DOMAIN cv.keys : cv.keys[i] = k
        BY <1>3, <2>2
      <4>4. PICK p : p = After(l, u, Len(l)) /\ p[k] = NoEntry /\ After(a, u, Len(a)) = Dispatch(p, u, cv)
        BY Zenon, <3>1, <3>2
      <4>5. Dispatch(p, u, cv)[k] = Effect(liveEntry(p[k], u), u, cv).entry
        BY Zenon, <4>3 DEF Dispatch
      <4> QED
        BY Zenon, <4>1, <4>2, <4>4, <4>5
    <3> QED
      BY Zenon, <1>2, <1>10, <2>2, <3>1, <3>4 DEF Written, Stands
  <2> QED
    BY Zenon, <1>9, <2>1, <2>2 DEF q
<1>11. CASE e.expireAt # Zero
  <2>1. l \o encodeRecord(o, r[o], t) = b
    BY Zenon, <1>1, <1>3, <1>4, <1>7, <1>11, RecordFacts DEF encodeRecord
  <2>2. cx.keys[1] = o
    BY <1>4
  <2>3. ASSUME k = o PROVE Written(b, q, m, k)
    <3>1. ~Timeless(b, k)
      BY ZenonT(30), <1>4, <1>5, <1>7, <1>8, <2>2, <2>3, TimelessAppend
    <3> QED
      BY Zenon, <1>2, <2>3, <3>1 DEF Written
  <2> QED
    BY Zenon, <1>9, <2>1, <2>3 DEF q
<1> QED
  BY Zenon, <1>10, <1>11

-----------------------------------------------------------------------------
(* The inductive invariant behind LogIsState.  In service the log stands   *)
(* for the keyspace; during a rewrite the temporary file stands for the    *)
(* keys whose record is written; while the log is loaded, the part of it   *)
(* that is replayed does.                                                  *)

LogInv ==
  /\ log \in Seq(Logged) /\ tmp \in Seq(Logged) /\ todo \in Seq(Logged)
  /\ phase # "loading" =>
       \A k \in Keys : Timeless(log, k) => Stands(log, Len(log), keyspace, k)
  /\ phase = "rewriting" => \A k \in Keys : Written(tmp, records, keyspace, k)
  /\ phase = "loading" =>
       /\ Len(todo) <= Len(log)
       /\ \A i \in 1 .. Len(todo) : todo[i] = log[Len(log) - Len(todo) + i]
       /\ \A k \in Keys : Timeless(log, k) => Stands(log, Len(log) - Len(todo), keyspace, k)

\* A key that stands in the log does not expire.
LEMMA StandsTick ==
  ASSUME NEW l, NEW n, NEW m, NEW t, NEW k \in Keys, Stands(l, n, m, k)
  PROVE  Stands(l, n, [j \in Keys |-> liveEntry(m[j], t)], k)
<1>1. liveEntry(m[k], t) = m[k]
  BY Zenon DEF Stands, liveEntry, expired
<1> QED
  BY Zenon, <1>1 DEF Stands

\* Time passes.
LEMMA TickLog == Inv /\ LogInv /\ Tick => LogInv'
<1> SUFFICES ASSUME Inv, LogInv, Tick PROVE LogInv'
  BY Zenon
<1>1. PICK t : t = now' /\ keyspace' = [j \in Keys |-> liveEntry(keyspace[j], t)]
  BY Zenon DEF Tick
<1>2. /\ log' = log /\ phase' = phase /\ records' = records /\ tmp' = tmp /\ todo' = todo
  BY Zenon DEF Tick
<1>3. ASSUME NEW l, NEW n, NEW k \in Keys, Stands(l, n, keyspace, k)
      PROVE  Stands(l, n, keyspace', k)
  BY Zenon, <1>1, <1>3, StandsTick
<1>4. ASSUME NEW k \in Keys, Written(tmp, records, keyspace, k)
      PROVE  Written(tmp, records, keyspace', k)
  <2>1. CASE records[k] = NoEntry
    BY Zenon, <1>3, <1>4, <2>1 DEF Written
  <2>2. CASE records[k] # NoEntry
    <3>1. records[k].expireAt = Zero => keyspace'[k] = keyspace[k]
      BY Zenon, <1>1, <1>4, <2>2 DEF Written, liveEntry, expired
    <3> QED
      BY Zenon, <1>4, <2>2, <3>1 DEF Written
  <2> QED
    BY Zenon, <2>1, <2>2
<1> QED
  BY Zenon, <1>2, <1>3, <1>4 DEF LogInv

\* A write goes to the log, unless it is refused and changes nothing.
LEMMA ApplyLog ==
  ASSUME Inv, LogInv, NEW c \in Requests, apply(c)
  PROVE  LogInv'
<1>1. c \in Logged /\ IsWrite(c.name) /\ c \in Commands
  BY Zenon, RecoveryAssumption DEF Logged
<1>2. /\ WellFormedMap(keyspace) /\ now \in Nat /\ log \in Seq(Logged) /\ log \in Seq(Commands)
      /\ phase = "serving" /\ phase' = "serving" /\ tmp' = tmp /\ todo' = todo
      /\ keyspace' = Dispatch(keyspace, now, c)
  BY Zenon DEF Inv, TypeOK, LogInv, apply
<1>3. \A k \in Keys : Timeless(log, k) => Stands(log, Len(log), keyspace, k)
  BY Zenon, <1>2 DEF LogInv
<1>4. CASE Refused(keyspace, now, c)
  <2>1. log' = log
    BY Zenon, <1>4 DEF apply
  <2>2. ASSUME NEW k \in Keys, Timeless(log, k) PROVE Stands(log, Len(log), keyspace', k)
    <3>1. Stands(log, Len(log), keyspace, k)
      BY Zenon, <1>3, <2>2
    <3>2. keyspace'[k] = keyspace[k]
      BY Zenon, <1>1, <1>2, <1>4, <3>1, RefusedKeeps DEF Stands
    <3> QED
      BY Zenon, <3>1, <3>2 DEF Stands
  <2> QED
    BY Zenon, <1>2, <2>1, <2>2 DEF LogInv
<1>5. CASE ~Refused(keyspace, now, c)
  <2>1. log' = Append(log, c)
    BY Zenon, <1>5 DEF apply
  <2>2. log' \in Seq(Logged)
    BY Zenon, <1>1, <1>2, <2>1, AppendProperties
  <2>3. ASSUME NEW k \in Keys, Timeless(log', k) PROVE Stands(log', Len(log'), keyspace', k)
    <3>1. Timeless(log, k)
      BY Zenon, <1>1, <1>2, <2>1, <2>3, TimelessAppend
    <3>2. Stands(log, Len(log), keyspace, k)
      BY Zenon, <1>3, <3>1
    <3> QED
      BY Zenon, <1>1, <1>2, <2>1, <2>3, <3>2, StandsAppend
  <2> QED
    BY Zenon, <1>2, <2>2, <2>3 DEF LogInv
<1> QED
  BY Zenon, <1>4, <1>5

\* A rewrite starts with an empty file.
LEMMA SnapshotLog == Inv /\ LogInv /\ Snapshot => LogInv'
<1> SUFFICES ASSUME Inv, LogInv, Snapshot PROVE LogInv'
  BY Zenon
<1>1. /\ phase = "serving" /\ phase' = "rewriting" /\ records' = keyspace /\ tmp' = <<>>
      /\ keyspace' = keyspace /\ log' = log /\ todo' = todo
  BY Zenon DEF Snapshot
<1>2. <<>> \in Seq(Logged) /\ <<>> \in Seq(Commands) /\ Len(<<>>) = 0
  BY Zenon, EmptySeq
<1>3. ASSUME NEW k \in Keys PROVE Written(<<>>, keyspace, keyspace, k)
  <2>1. \A t \in Nat : After(<<>>, t, Len(<<>>))[k] = NoEntry
    BY Zenon, <1>2, AfterSteps DEF Nothing
  <2>2. keyspace[k] = NoEntry => Stands(<<>>, Len(<<>>), keyspace, k)
    BY Zenon, <1>2, StandsNothing
  <2> QED
    BY Zenon, <2>1, <2>2 DEF Written
<1> QED
  BY Zenon, <1>1, <1>2, <1>3 DEF LogInv

\* A record goes to the file.
LEMMA WriteSnapshotLog ==
  ASSUME Inv, LogInv, NEW o \in Keys, writeSnapshot(o)
  PROVE  LogInv'
<1>1. /\ phase = "rewriting" /\ phase' = "rewriting" /\ records[o] # NoEntry
      /\ tmp' = tmp \o encodeRecord(o, records[o], now)
      /\ records' = [records EXCEPT ![o] = NoEntry]
      /\ keyspace' = keyspace /\ log' = log /\ todo' = todo
  BY Zenon DEF writeSnapshot
<1>2. /\ WellFormedMap(records) /\ now \in Nat /\ tmp \in Seq(Logged)
      /\ \A k \in Keys : Written(tmp, records, keyspace, k)
  BY Zenon, <1>1 DEF Inv, TypeOK, LogInv
<1>3. \A k \in Keys : tmp' \in Seq(Logged) /\ Written(tmp', records', keyspace, k)
  BY Zenon, <1>1, <1>2, RecordWritten
<1> QED
  BY Zenon, <1>1, <1>3 DEF LogInv

\* The file takes the place of the log once every record is in it.
LEMMA RenameLog == Inv /\ LogInv /\ Rename => LogInv'
<1> SUFFICES ASSUME Inv, LogInv, Rename PROVE LogInv'
  BY Zenon
<1>1. /\ phase = "rewriting" /\ phase' = "serving" /\ records = Nothing /\ tmp' = <<>>
      /\ log' = tmp /\ keyspace' = keyspace /\ todo' = todo
  BY Zenon DEF Rename
<1>2. <<>> \in Seq(Logged)
  BY Zenon, EmptySeq
<1>3. ASSUME NEW k \in Keys, Timeless(tmp, k) PROVE Stands(tmp, Len(tmp), keyspace, k)
  <2>1. Written(tmp, records, keyspace, k) /\ records[k] = NoEntry
    BY Zenon, <1>1 DEF LogInv, Nothing
  <2> QED
    BY Zenon, <1>3, <2>1 DEF Written
<1> QED
  BY Zenon, <1>1, <1>2, <1>3 DEF LogInv

\* A rewrite fails, and the log stays.
LEMMA RewriteFailsLog == Inv /\ LogInv /\ RewriteFails => LogInv'
<1>1. <<>> \in Seq(Logged)
  BY Zenon, EmptySeq
<1> QED
  BY Zenon, <1>1 DEF LogInv, RewriteFails

\* A restart begins with nothing.
LEMMA LoadLog == Inv /\ LogInv /\ loadAOF => LogInv'
<1> SUFFICES ASSUME Inv, LogInv, loadAOF PROVE LogInv'
  BY Zenon
<1>1. phase' = "loading" /\ todo' = log /\ keyspace' = Nothing /\ tmp' = <<>> /\ log' = log
  BY Zenon DEF loadAOF
<1>2. <<>> \in Seq(Logged) /\ log \in Seq(Logged) /\ log \in Seq(Commands)
  BY Zenon, EmptySeq DEF LogInv, Inv, TypeOK
<1>3. /\ Len(log) - Len(log) = 0 /\ Len(log) <= Len(log)
      /\ \A i \in 1 .. Len(log) : Len(log) - Len(log) + i = i
  BY <1>2, LenProperties
<1>4. \A k \in Keys : Stands(log, Len(log) - Len(log), Nothing, k)
  BY Zenon, <1>2, <1>3, StandsNothing DEF Nothing
<1>5. \A i \in 1 .. Len(log) : log[i] = log[Len(log) - Len(log) + i]
  BY Zenon, <1>3
<1> QED
  BY Zenon, <1>1, <1>2, <1>3, <1>4, <1>5 DEF LogInv

\* The next command of the log is replayed.
LEMMA ReplayLog == Inv /\ LogInv /\ Replay => LogInv'
<1> SUFFICES ASSUME Inv, LogInv, Replay PROVE LogInv'
  BY Zenon
<1>1. /\ phase = "loading" /\ phase' = "loading" /\ todo # <<>> /\ todo' = Tail(todo)
      /\ keyspace' = Dispatch(keyspace, now, Head(todo)) /\ log' = log /\ tmp' = tmp
  BY Zenon DEF Replay
<1>2. /\ log \in Seq(Logged) /\ todo \in Seq(Logged) /\ tmp \in Seq(Logged)
      /\ Len(todo) <= Len(log)
      /\ \A i \in 1 .. Len(todo) : todo[i] = log[Len(log) - Len(todo) + i]
      /\ \A k \in Keys : Timeless(log, k) => Stands(log, Len(log) - Len(todo), keyspace, k)
  BY Zenon, <1>1 DEF LogInv
<1>3. /\ Len(log) \in Nat /\ Len(todo) \in Nat /\ Len(todo) # 0 /\ todo' \in Seq(Logged)
      /\ Len(todo') = Len(todo) - 1 /\ \A i \in 1 .. Len(todo') : todo'[i] = todo[i + 1]
      /\ Head(todo) = todo[1]
  BY <1>1, <1>2, LenProperties, EmptySeq, HeadTailProperties
<1>4. PICK n \in 1 .. Len(log) : n = Len(log) - Len(todo') /\ n - 1 = Len(log) - Len(todo)
                                 /\ n = Len(log) - Len(todo) + 1
  BY <1>2, <1>3
<1>5. Head(todo) = log[n]
  <2>1. 1 \in 1 .. Len(todo)
    BY <1>3
  <2> QED
    BY Zenon, <1>2, <1>3, <1>4, <2>1
<1>6. Len(todo') <= Len(log)
  BY <1>2, <1>3
<1>7. \A i \in 1 .. Len(todo') : todo'[i] = log[Len(log) - Len(todo') + i]
  <2>1. \A i \in 1 .. Len(todo') : /\ i + 1 \in 1 .. Len(todo)
                                   /\ Len(log) - Len(todo) + (i + 1) = Len(log) - Len(todo') + i
    BY <1>3
  <2> QED
    BY Zenon, <1>2, <1>3, <2>1
<1>8. ASSUME NEW k \in Keys, Timeless(log, k) PROVE Stands(log, n, keyspace', k)
  <2>1. Stands(log, n - 1, keyspace, k)
    BY Zenon, <1>2, <1>4, <1>8
  <2>2. WellFormedMap(keyspace) /\ now \in Nat
    BY Zenon DEF Inv, TypeOK
  <2> QED
    BY Zenon, <1>1, <1>2, <1>5, <1>8, <2>1, <2>2, StandsStep
<1> QED
  BY Zenon, <1>1, <1>2, <1>3, <1>4, <1>6, <1>7, <1>8 DEF LogInv

\* The whole log is replayed.
LEMMA LoadedLog == Inv /\ LogInv /\ Loaded => LogInv'
<1> SUFFICES ASSUME Inv, LogInv, Loaded PROVE LogInv'
  BY Zenon
<1>1. /\ phase = "loading" /\ phase' = "serving" /\ todo = <<>>
      /\ log' = log /\ tmp' = tmp /\ todo' = todo /\ keyspace' = keyspace
  BY Zenon DEF Loaded
<1>2. Len(log) - Len(todo) = Len(log)
  <2>1. Len(log) \in Nat /\ Len(todo) = 0
    BY Zenon, <1>1, LenProperties, EmptySeq DEF Inv, TypeOK
  <2> QED
    BY <2>1
<1> QED
  BY Zenon, <1>1, <1>2 DEF LogInv

\* The log stands for the keyspace when the server starts, and after every step.
LEMMA LogInvInductive ==
  /\ Init => LogInv
  /\ Inv /\ LogInv /\ [Next]_vars => LogInv'
<1>1. ASSUME Init PROVE LogInv
  <2>1. <<>> \in Seq(Logged) /\ <<>> \in Seq(Commands) /\ Len(<<>>) = 0
    BY Zenon, EmptySeq
  <2>2. log = <<>> /\ tmp = <<>> /\ todo = <<>> /\ phase = "serving" /\ keyspace = Nothing
    BY Zenon, <1>1 DEF Init
  <2>3. \A k \in Keys : Stands(<<>>, Len(<<>>), Nothing, k)
    BY Zenon, <2>1, StandsNothing DEF Nothing
  <2> QED
    BY Zenon, <2>1, <2>2, <2>3 DEF LogInv
<1>2. Inv /\ LogInv /\ UNCHANGED vars => LogInv'
  BY Zenon DEF vars, LogInv
<1> QED
  BY Zenon, <1>1, <1>2, TickLog, ApplyLog, SnapshotLog, WriteSnapshotLog, RenameLog,
     RewriteFailsLog, LoadLog, ReplayLog, LoadedLog DEF Next

\* A restart loses nothing that has no deadline: in every behaviour, with any
\* number of writes, refusals, rewrites, failed rewrites, crashes and recoveries,
\* replaying the log (loadAOF) rebuilds every key that no command in the log gives a
\* deadline exactly as the store has it.
THEOREM LogStandsForStore == Spec => []LogIsState
<1>1. Inv /\ LogInv => LogIsState
  <2> SUFFICES ASSUME Inv, LogInv, phase # "loading", NEW k \in Keys, Lasting(k)
               PROVE  Rebuilt(log, now)[k] = keyspace[k]
    BY Zenon DEF LogIsState
  <2>1. Stands(log, Len(log), keyspace, k)
    BY Zenon DEF LogInv, Lasting, Timeless, Deadlines
  <2>2. now \in Nat /\ log \in Seq(Commands)
    BY Zenon DEF Inv, TypeOK
  <2>3. Rebuilt(log, now) = After(log, now, Len(log))
    BY Zenon, <2>2, AfterSteps
  <2> QED
    BY <2>1, <2>2, <2>3 DEF Stands
<1> QED
  BY <1>1, Invariance, LogInvInductive, PTL DEF Spec
=============================================================================
