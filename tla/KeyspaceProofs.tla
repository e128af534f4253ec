--------------------------- MODULE KeyspaceProofs ---------------------------
(***************************************************************************)
(* What the handlers of Keyspace do to an entry: the lemmas that the       *)
(* proofs about Store and Recovery rest on.                                *)
(***************************************************************************)
EXTENDS Keyspace, TLAPS, FiniteSetTheorems, SequenceTheorems

\* NoEntry is an entry, without payload and without a deadline.
LEMMA NoEntryFacts ==
  /\ NoEntry \in Entries
  /\ WellFormed(NoEntry)
  /\ \A t \in Nat : ~expired(NoEntry, t)
BY KeyspaceAssumption DEF NoEntry, Entries, WellFormed, expired, Zero, NoHash

\* LPUSH reverses its arguments, and loses none.
LEMMA ReversedType ==
  ASSUME NEW s \in Seq(Vals)
  PROVE  /\ Reversed(s) \in Seq(Vals)
         /\ Len(Reversed(s)) = Len(s)
<1>1. \A i \in 1..Len(s) : s[Len(s) + 1 - i] \in Vals
  BY ElementOfSeq
<1>2. Reversed(s) \in [1..Len(s) -> Vals]
  BY Zenon, <1>1 DEF Reversed
<1> QED
  BY <1>2, LenProperties

\* A contiguous part of a list is a list.
LEMMA PartOfList ==
  ASSUME NEW s \in Seq(Vals), NEW m \in 1..2, NEW n \in Int, n <= Len(s)
  PROVE  /\ SubSeq(s, m, n) \in Seq(Vals)
         /\ Len(SubSeq(s, m, n)) = IF m <= n THEN n - m + 1 ELSE 0
<1>1. \A i \in m .. n : s[i] \in Vals
  BY ElementOfSeq
<1> QED
  BY <1>1, SubSeqProperties

\* A list of at least two elements survives a pop.
LEMMA PartIsNotEmpty ==
  ASSUME NEW s \in Seq(Vals), s # <<>>, Len(s) # 1
  PROVE  /\ SubSeq(s, 2, Len(s)) # <<>>
         /\ SubSeq(s, 1, Len(s) - 1) # <<>>
<1>1. PICK n \in Nat : n = Len(s)
  BY Zenon, LenProperties
<1>2. n \in Nat \ {0}
  BY Zenon, <1>1, EmptySeq
<1>3. n >= 2
  BY <1>1, <1>2
<1>4. /\ Len(SubSeq(s, 2, n)) = n - 1
      /\ Len(SubSeq(s, 1, n - 1)) = n - 1
  BY <1>1, <1>3, PartOfList
<1>5. Len(<<>>) = 0
  BY Zenon
<1>6. n - 1 # 0
  BY <1>3
<1>7. SubSeq(s, 2, n) # <<>> /\ SubSeq(s, 1, n - 1) # <<>>
  BY <1>4, <1>5, <1>6, Zenon
<1> QED
  BY <1>1, <1>7, Zenon

\* The list commands work on the list of the entry alone.
LEMMA ListEntry ==
  ASSUME NEW e \in Entries, NEW l \in Seq(Vals)
  PROVE  /\ e.list \in Seq(Vals)
         /\ entryFor(e, "list") \in Entries
         /\ [e EXCEPT !.list = l] \in Entries
BY Zenon, NoEntryFacts DEF entryFor, NewEntry, Entries, Kinds

\* Every write leaves an entry behind.
LEMMA WriteType ==
  ASSUME NEW e \in Entries, NEW t \in Nat, NEW c \in Commands, IsWrite(c.name)
  PROVE  Write(e, t, c).entry \in Entries
<1> USE NoEntryFacts
<1>1. CASE c.name = "SET"
  BY Zenon, <1>1 DEF Write, Set, Result, NewEntry, NoEntry, Entries, Commands, Kinds
<1>2. CASE c.name = "DEL"
  BY Zenon, <1>2 DEF Write, Del, Result
<1>3. CASE c.name = "LPUSH"
  <2> DEFINE b == entryFor(e, "list")
             l == Reversed(c.list) \o b.list
  <2>1. b \in Entries /\ l \in Seq(Vals)
    BY Zenon, ListEntry, ReversedType, ConcatProperties DEF Commands
  <2>2. Write(e, t, c).entry = [b EXCEPT !.list = l]
    BY Zenon, <1>3 DEF Write, LPush, Result
  <2> QED
    BY Zenon, <2>1, <2>2, ListEntry
<1>4. CASE c.name = "RPUSH"
  <2> DEFINE b == entryFor(e, "list")
             l == b.list \o c.list
  <2>1. b \in Entries /\ l \in Seq(Vals)
    BY Zenon, ListEntry, ConcatProperties DEF Commands
  <2>2. Write(e, t, c).entry = [b EXCEPT !.list = l]
    BY Zenon, <1>4 DEF Write, RPush, Result
  <2> QED
    BY Zenon, <2>1, <2>2, ListEntry
<1>5. CASE c.name = "LPOP"
  <2>1. e.list \in Seq(Vals) /\ Len(e.list) \in Nat
    BY Zenon, LenProperties DEF Entries
  <2>2. SubSeq(e.list, 2, Len(e.list)) \in Seq(Vals)
    BY <2>1, PartOfList
  <2> QED
    BY Zenon, <1>5, <2>2, ListEntry DEF Write, LPop, Result
<1>6. CASE c.name = "RPOP"
  <2>1. e.list \in Seq(Vals) /\ Len(e.list) \in Nat
    BY Zenon, LenProperties DEF Entries
  <2>2. SubSeq(e.list, 1, Len(e.list) - 1) \in Seq(Vals)
    BY <2>1, PartOfList
  <2> QED
    BY Zenon, <1>6, <2>2, ListEntry DEF Write, RPop, Result
<1>7. CASE c.name = "HSET"
  BY Zenon, <1>7 DEF Write, HSet, Result, entryFor, NewEntry, NoEntry, Entries, Commands, Kinds
<1>8. CASE c.name = "HDEL"
  BY Zenon, <1>8 DEF Write, HDel, Result, Entries, Commands
<1>9. CASE c.name = "SADD"
  BY Zenon, <1>9 DEF Write, SAdd, Result, entryFor, NewEntry, NoEntry, Entries, Commands, Kinds
<1>10. CASE c.name = "SREM"
  BY Zenon, <1>10 DEF Write, SRem, Result, Entries, Commands
<1>11. CASE c.name \in {"EXPIRE", "PEXPIRE"}
  <2>1. Write(e, t, c) = Expire(e, t, c)
    BY Zenon, <1>11 DEF Write
  <2>2. CASE c.n <= 0
    BY <2>1, <2>2 DEF Expire, Result
  <2>3. CASE ~(c.n <= 0)
    <3>1. t + c.n \in Nat
      BY <2>3 DEF Commands
    <3>2. [e EXCEPT !.expireAt = t + c.n] \in Entries
      BY Zenon, <3>1 DEF Entries
    <3> QED
      BY <2>1, <2>3, <3>2 DEF Expire, Result
  <2> QED
    BY Zenon, <2>2, <2>3
<1>12. CASE c.name = "PERSIST"
  BY Zenon, <1>12 DEF Write, Persist, Result, Entries, Zero
<1> QED
  BY Zenon, <1>1, <1>2, <1>3, <1>4, <1>5, <1>6, <1>7, <1>8, <1>9, <1>10, <1>11, <1>12
  DEF IsWrite, writeCommands

\* No write hands back a dead entry for a live one: the deadline it leaves is
\* the old one, none, or in the future.
LEMMA WriteLive ==
  ASSUME NEW e \in Entries, NEW t \in Nat, NEW c \in Commands, IsWrite(c.name),
         ~expired(e, t)
  PROVE  ~expired(Write(e, t, c).entry, t)
<1> USE NoEntryFacts
<1>1. CASE c.name \in {"EXPIRE", "PEXPIRE"}
  <2>1. Write(e, t, c) = Expire(e, t, c)
    BY Zenon, <1>1 DEF Write
  <2>2. c.n \in Int
    BY Zenon DEF Commands
  <2> QED
    BY <2>1, <2>2 DEF Expire, Result, expired, Entries
<1>2. CASE c.name \notin {"EXPIRE", "PEXPIRE"}
  <2>1. Write(e, t, c).entry.expireAt \in {e.expireAt, Zero}
    BY Zenon, <1>2 DEF IsWrite, writeCommands, Write, Set, Del, LPush, RPush, LPop, RPop,
       HSet, HDel, SAdd, SRem, Persist, Result, entryFor, NewEntry, NoEntry, Entries
  <2> QED
    BY Zenon, <2>1 DEF expired, Zero
<1> QED
  BY Zenon, <1>1, <1>2

\* Every write of a well-formed request to a well-formed entry of the right
\* kind leaves a well-formed entry.
LEMMA WriteWellFormed ==
  ASSUME NEW e \in Entries, NEW t \in Nat, NEW c \in Commands, IsWrite(c.name),
         WellFormed(e), ArgsOK(c), ~WrongType(e, c.name)
  PROVE  WellFormed(Write(e, t, c).entry)
<1> USE NoEntryFacts
<1>1. CASE c.name = "SET"
  BY Zenon, <1>1 DEF Write, Set, Result, NewEntry, NoEntry, WellFormed, ArgsOK, stringArgs,
    listArgs, hashArgs, setArgs
<1>2. CASE c.name = "DEL"
  BY Zenon, <1>2 DEF Write, Del, Result
<1>3. CASE c.name \in {"LPUSH", "RPUSH"}
  <2> DEFINE b == entryFor(e, "list")
  <2>1. b \in Entries /\ b.list \in Seq(Vals) /\ c.list \in Seq(Vals) /\ c.list # <<>>
    BY Zenon, <1>3, ListEntry DEF Commands, ArgsOK, stringArgs, listArgs, hashArgs, setArgs
  <2>2. b.kind = "list" /\ b.str = Nil /\ b.hash = NoHash /\ b.set = {}
    BY Zenon, <1>3 DEF entryFor, NewEntry, NoEntry, WellFormed, WrongType, ListCommands, Entries
  <2>3. Reversed(c.list) \o b.list # <<>> /\ b.list \o c.list # <<>>
    BY <2>1, ReversedType, ConcatProperties, EmptySeq, LenProperties
  <2>4. Write(e, t, c).entry \in {[b EXCEPT !.list = Reversed(c.list) \o b.list],
                                  [b EXCEPT !.list = b.list \o c.list]}
    BY Zenon, <1>3 DEF Write, LPush, RPush, Result
  <2> QED
    BY Zenon, <2>1, <2>2, <2>3, <2>4 DEF WellFormed, Entries
<1>4. CASE c.name \in {"LPOP", "RPOP"}
  <2>1. e.list \in Seq(Vals) /\ Len(e.list) \in Nat
    BY Zenon, LenProperties DEF Entries
  <2>2. e.list # <<>> /\ Len(e.list) # 1 =>
          /\ SubSeq(e.list, 2, Len(e.list)) # <<>>
          /\ SubSeq(e.list, 1, Len(e.list) - 1) # <<>>
    BY Zenon, <2>1, PartIsNotEmpty
  <2>3. Write(e, t, c).entry \in {e, NoEntry}
        \/ /\ e.list # <<>> /\ Len(e.list) # 1
           /\ Write(e, t, c).entry \in {[e EXCEPT !.list = SubSeq(e.list, 2, Len(e.list))],
                                        [e EXCEPT !.list = SubSeq(e.list, 1, Len(e.list) - 1)]}
    BY Zenon, <1>4 DEF Write, LPop, RPop, Result
  <2> QED
    BY Zenon, <2>2, <2>3 DEF WellFormed, Entries
<1>5. CASE c.name = "HSET"
  <2> DEFINE b == entryFor(e, "hash")
             h == [f \in Vals |-> IF c.hash[f] # Nil THEN c.hash[f] ELSE b.hash[f]]
  <2>1. b \in Entries /\ b.kind = "hash" /\ b.str = Nil /\ b.list = <<>> /\ b.set = {}
    BY Zenon, <1>5 DEF entryFor, NewEntry, NoEntry, WellFormed, WrongType, HashCommands,
       Entries, Kinds
  <2>2. PICK f \in Vals : c.hash[f] # Nil
    BY Zenon, <1>5 DEF ArgsOK, stringArgs, listArgs, hashArgs, setArgs, Commands, NoHash
  <2>3. h # NoHash
    BY Zenon, <2>2 DEF NoHash
  <2>4. Write(e, t, c).entry = [b EXCEPT !.hash = h]
    BY Zenon, <1>5 DEF Write, HSet, Result
  <2> QED
    BY Zenon, <2>1, <2>3, <2>4 DEF WellFormed, Entries
<1>6. CASE c.name = "HDEL"
  <2> DEFINE h == [f \in Vals |-> IF f \in c.set THEN Nil ELSE e.hash[f]]
  <2>1. e.kind \in {"none", "hash"}
    BY Zenon, <1>6 DEF WrongType, HashCommands
  <2>2. e.kind = "none" => h = NoHash
    BY Zenon DEF WellFormed, NoHash
  <2>3. Write(e, t, c).entry = IF h = NoHash THEN NoEntry ELSE [e EXCEPT !.hash = h]
    BY Zenon, <1>6 DEF Write, HDel, Result
  <2> QED
    BY Zenon, <2>1, <2>2, <2>3 DEF WellFormed, Entries
<1>7. CASE c.name = "SADD"
  BY Zenon, <1>7 DEF Write, SAdd, Result, entryFor, NewEntry, NoEntry, WellFormed,
     WrongType, SetCommands, ArgsOK, stringArgs, listArgs, hashArgs, setArgs, Entries, Commands
<1>8. CASE c.name = "SREM"
  BY Zenon, <1>8 DEF Write, SRem, Result, WellFormed, Entries
<1>9. CASE c.name \in {"EXPIRE", "PEXPIRE"}
  <2>1. \/ Write(e, t, c).entry \in {e, NoEntry}
        \/ e.kind # "none" /\ \E d : Write(e, t, c).entry = [e EXCEPT !.expireAt = d]
    BY Zenon, <1>9 DEF Write, Expire, Result
  <2>2. ASSUME NEW d, e.kind # "none" PROVE WellFormed([e EXCEPT !.expireAt = d])
    BY Zenon, <2>2 DEF WellFormed, Entries
  <2> QED
    BY Zenon, <2>1, <2>2
<1>10. CASE c.name = "PERSIST"
  BY Zenon, <1>10 DEF Write, Persist, Result, WellFormed, Entries
<1> QED
  BY Zenon, <1>1, <1>2, <1>3, <1>4, <1>5, <1>6, <1>7, <1>8, <1>9, <1>10
  DEF IsWrite, writeCommands

\* Expiry as the handlers see it: what is left of an entry is an entry that is
\* alive, and looking earlier does not change what is left later.
LEMMA LiveEntryFacts ==
  ASSUME NEW e \in Entries, NEW t \in Nat
  PROVE  /\ liveEntry(e, t) \in Entries
         /\ WellFormed(e) => WellFormed(liveEntry(e, t))
         /\ ~expired(liveEntry(e, t), t)
         /\ ~expired(e, t) => liveEntry(e, t) = e
         /\ \A u \in Nat : u <= t => liveEntry(liveEntry(e, u), t) = liveEntry(e, t)
<1>1. \A u \in Nat : u <= t /\ expired(e, u) => expired(e, t)
  BY DEF expired, Entries
<1> QED
  BY Zenon, <1>1, NoEntryFacts DEF liveEntry

\* What Effect does to the entry: a request that is refused, and a read, leave
\* it as it is.
LEMMA EffectFacts ==
  ASSUME NEW e \in Entries, NEW t \in Nat, NEW c \in Commands
  PROVE  /\ Effect(e, t, c).entry \in Entries
         /\ WellFormed(e) => WellFormed(Effect(e, t, c).entry)
         /\ ~expired(e, t) => ~expired(Effect(e, t, c).entry, t)
         /\ ~IsWrite(c.name) => Effect(e, t, c).entry = e
         /\ ~ArgsOK(c) => Effect(e, t, c) = Result(e, errorValue)
<1>1. ~IsWrite(c.name) => Effect(e, t, c).entry = e
  BY Zenon DEF Effect, Result
<1>2. ~ArgsOK(c) \/ WrongType(e, c.name) => Effect(e, t, c) = Result(e, errorValue)
  BY Zenon DEF Effect
<1>3. Result(e, errorValue).entry = e
  BY Zenon DEF Result
<1>4. ArgsOK(c) /\ ~WrongType(e, c.name) /\ IsWrite(c.name) => Effect(e, t, c) = Write(e, t, c)
  BY Zenon DEF Effect
<1> QED
  BY Zenon, <1>1, <1>2, <1>3, <1>4, WriteType, WriteLive, WriteWellFormed
=============================================================================
