------------------------------ MODULE Keyspace ------------------------------
(***************************************************************************)
(* The data model of internal/db and the command handlers of internal/cmd  *)
(* as pure operators.  A key holds an Entry or NoEntry.  Every handler     *)
(* first drops the key if its deadline has passed and then works on what   *)
(* is left, so a command is an operator on one live entry that yields the  *)
(* entry it leaves behind and the reply it sends.                          *)
(*                                                                         *)
(* Byte strings are members of Vals, whether they are values, list         *)
(* elements, set members, hash fields or hash values.  Time is a natural   *)
(* number of clock ticks.                                                  *)
(***************************************************************************)
EXTENDS Integers, Sequences, FiniteSets

CONSTANTS
  Keys,  \* the key names in use
  Vals,  \* byte strings
  Nil    \* the null bulk string, and "no value under this hash field"

ASSUME KeyspaceAssumption ==
  /\ IsFiniteSet(Keys)
  /\ IsFiniteSet(Vals)
  /\ Nil \notin Vals

-----------------------------------------------------------------------------
(* Entries.  All four payloads are fields of one record, as in the struct; *)
(* kind says which of them is in use.                                      *)

Zero == 0   \* time.Time{}: the key has no deadline

NoHash == [f \in Vals |-> Nil]

Kinds == {"string", "list", "hash", "set"}

Entries ==
  [kind : Kinds \cup {"none"}, str : Vals \cup {Nil}, list : Seq(Vals),
   hash : [Vals -> Vals \cup {Nil}], set : SUBSET Vals, expireAt : Nat]

NoEntry ==
  [kind |-> "none", str |-> Nil, list |-> <<>>, hash |-> NoHash,
   set |-> {}, expireAt |-> Zero]

NewEntry(kind) == [NoEntry EXCEPT !.kind = kind]

Fields(h) == {f \in Vals : h[f] # Nil}

expired(e, t) == e.expireAt # Zero /\ t >= e.expireAt

\* What a handler that runs at time t sees under a key: nothing, once the
\* deadline has passed.  (Under a read lock the dead entry stays in the map,
\* under a write lock it is deleted on the spot.)
liveEntry(e, t) == IF expired(e, t) THEN NoEntry ELSE e

-----------------------------------------------------------------------------
(* Commands and replies.  A command carries its arguments in the field     *)
(* that fits them: for HSET the value each named field ends up with, for   *)
(* HDEL, SADD, SREM, HGET and SISMEMBER the set of names.  ok is FALSE for *)
(* a request with surplus arguments or a number that does not parse.       *)

Cmd(name, key) ==
  [name |-> name, keys |-> <<key>>, ok |-> TRUE, str |-> Nil, list |-> <<>>,
   hash |-> NoHash, set |-> {}, n |-> 0, m |-> 0]

writeCommands ==
  {"SET", "DEL", "LPUSH", "RPUSH", "LPOP", "RPOP", "HSET", "HDEL", "SADD",
   "SREM", "EXPIRE", "PEXPIRE", "PERSIST"}

IsWrite(name) == name \in writeCommands

\* TTL stands for PTTL as well.  PING, ECHO and PUBLISH do not touch the store.
commands ==
  writeCommands \cup
  {"GET", "EXISTS", "LLEN", "LRANGE", "HGET", "HGETALL", "HKEYS", "HVALS", "HLEN",
   "SISMEMBER", "SMEMBERS", "SCARD", "TTL"}

Unknown == "NOSUCH"   \* any name that is not in the table

Commands ==
  [name : commands \cup {Unknown}, keys : Seq(Keys) \ {<<>>}, ok : BOOLEAN,
   str : Vals \cup {Nil}, list : Seq(Vals), hash : [Vals -> Vals \cup {Nil}], set : SUBSET Vals,
   n : Int, m : Int]

Replies ==
  [type : {"error", "status", "int", "bulk", "array"}, int : Int,
   bulk : Vals \cup {Nil}, list : Seq(Vals),
   hash : [Vals -> Vals \cup {Nil}], set : SUBSET Vals]

NewReply(type) ==
  [type |-> type, int |-> 0, bulk |-> Nil, list |-> <<>>, hash |-> NoHash,
   set |-> {}]

errorValue     == NewReply("error")
OKReply        == NewReply("status")
integerValue(n) == [NewReply("int") EXCEPT !.int = n]
bulkValue(v)    == [NewReply("bulk") EXCEPT !.bulk = v]
boolReply(b)    == integerValue(IF b THEN 1 ELSE 0)

Result(e, r) == [entry |-> e, reply |-> r]

-----------------------------------------------------------------------------
(* Handlers that write.  e is the live entry under the command's key.      *)

Set(e, c) == Result([NewEntry("string") EXCEPT !.str = c.str], OKReply)

Del(e, c) == Result(NoEntry, boolReply(e.kind # "none"))

\* listEntry, hashEntry and setEntry with create = true: a fresh entry for an
\* absent key.
entryFor(e, kind) == IF e.kind = "none" THEN NewEntry(kind) ELSE e

Reversed(s) == [i \in 1..Len(s) |-> s[Len(s) + 1 - i]]

LPush(e, c) ==
  LET b == entryFor(e, "list")
      l == Reversed(c.list) \o b.list
  IN  Result([b EXCEPT !.list = l], integerValue(Len(l)))

RPush(e, c) ==
  LET b == entryFor(e, "list")
      l == b.list \o c.list
  IN  Result([b EXCEPT !.list = l], integerValue(Len(l)))

\* The pops delete the key together with its last element.
LPop(e, c) ==
  IF e.list = <<>> THEN Result(e, bulkValue(Nil))
  ELSE Result(IF Len(e.list) = 1 THEN NoEntry
              ELSE [e EXCEPT !.list = SubSeq(e.list, 2, Len(e.list))],
              bulkValue(e.list[1]))

RPop(e, c) ==
  IF e.list = <<>> THEN Result(e, bulkValue(Nil))
  ELSE Result(IF Len(e.list) = 1 THEN NoEntry
              ELSE [e EXCEPT !.list = SubSeq(e.list, 1, Len(e.list) - 1)],
              bulkValue(e.list[Len(e.list)]))

\* Mutant: counts the fields it overwrites.
HSet_CountsAll(e, c) ==
  LET b == entryFor(e, "hash")
  IN  Result([b EXCEPT !.hash =
                [f \in Vals |-> IF c.hash[f] # Nil THEN c.hash[f] ELSE b.hash[f]]],
             integerValue(Cardinality(Fields(c.hash))))

HSet(e, c) ==
  LET b == entryFor(e, "hash")
  IN  Result([b EXCEPT !.hash =
                [f \in Vals |-> IF c.hash[f] # Nil THEN c.hash[f] ELSE b.hash[f]]],
             integerValue(Cardinality(Fields(c.hash) \ Fields(b.hash))))

HDel(e, c) ==
  LET h == [f \in Vals |-> IF f \in c.set THEN Nil ELSE e.hash[f]]
  IN  Result(IF h = NoHash THEN NoEntry ELSE [e EXCEPT !.hash = h],
             integerValue(Cardinality(Fields(e.hash) \cap c.set)))

SAdd(e, c) ==
  LET b == entryFor(e, "set")
  IN  Result([b EXCEPT !.set = @ \cup c.set], integerValue(Cardinality(c.set \ b.set)))

\* Mutant: leaves an empty set behind.
SRem_KeepsEmpty(e, c) ==
  Result([e EXCEPT !.set = @ \ c.set], integerValue(Cardinality(e.set \cap c.set)))

SRem(e, c) ==
  Result(IF e.set \subseteq c.set THEN NoEntry ELSE [e EXCEPT !.set = @ \ c.set],
         integerValue(Cardinality(e.set \cap c.set)))

\* c.n is the timeout as a duration in clock ticks.  liveEntry reads the clock, and
\* Expire again for the new deadline, under one lock: the model takes both for one.
Expire(e, now, c) ==
  IF e.kind = "none" THEN Result(e, boolReply(FALSE))
  ELSE Result(IF c.n <= 0 THEN NoEntry ELSE [e EXCEPT !.expireAt = now + c.n],
              boolReply(TRUE))

\* Mutant: marks "no deadline" with a number that is not one.
Persist_Minus(e, c) ==
  IF e.kind = "none" \/ e.expireAt = Zero THEN Result(e, boolReply(FALSE))
  ELSE Result([e EXCEPT !.expireAt = -1], boolReply(TRUE))

Persist(e, c) ==
  IF e.kind = "none" \/ e.expireAt = Zero THEN Result(e, boolReply(FALSE))
  ELSE Result([e EXCEPT !.expireAt = Zero], boolReply(TRUE))

-----------------------------------------------------------------------------
(* Handlers that read.                                                     *)

\* The clamped bounds of LRANGE, counted from zero; <<>> when no element is
\* in range.
normalizeRange(start, stop, n) ==
  LET s == IF start < 0 THEN start + n ELSE start
      t == IF stop < 0 THEN stop + n ELSE stop
      from == IF s < 0 THEN 0 ELSE s
      to   == IF t >= n THEN n - 1 ELSE t
  IN  IF n = 0 \/ from > to \/ from >= n THEN <<>> ELSE <<from, to>>

\* Mutant: does not round.
ttlReply_Truncates(remaining, exists, hasTTL, unit) ==
  CASE ~exists -> -2
    [] exists /\ ~hasTTL -> -1
    [] OTHER -> IF remaining >= 0 THEN remaining \div unit ELSE -((-remaining) \div unit)

\* The whole number of units nearest to a remaining time, in Go's division,
\* which truncates towards zero; -2 and -1 stand for "no key" and "no TTL".
ttlReply(remaining, exists, hasTTL, unit) ==
  LET x == remaining + unit \div 2
  IN  CASE ~exists -> -2
        [] exists /\ ~hasTTL -> -1
        [] OTHER -> IF x >= 0 THEN x \div unit ELSE -((-x) \div unit)

LRange(e, c) ==
  LET r == normalizeRange(c.n, c.m, Len(e.list))
  IN  [NewReply("array") EXCEPT !.list =
         IF r = <<>> THEN <<>> ELSE SubSeq(e.list, r[1] + 1, r[2] + 1)]

Get(e)       == bulkValue(e.str)
Exists(e)    == boolReply(e.kind # "none")
LLen(e)      == integerValue(Len(e.list))
HGet(e, c)   == bulkValue(e.hash[CHOOSE f \in c.set : TRUE])
HGetAll(e)   == [NewReply("array") EXCEPT !.hash = e.hash]
HKeys(e)     == [NewReply("array") EXCEPT !.set = Fields(e.hash)]
HLen(e)      == integerValue(Cardinality(Fields(e.hash)))
SIsMember(e, c) == boolReply(c.set \subseteq e.set)
SMembers(e)  == [NewReply("array") EXCEPT !.set = e.set]
SCard(e)     == integerValue(Cardinality(e.set))

-----------------------------------------------------------------------------
(* The dispatch table.  A typed command accepts its own kind and an absent *)
(* key; any other kind under its key is ErrWrongType.                      *)

ListCommands == {"LPUSH", "RPUSH", "LPOP", "RPOP", "LLEN", "LRANGE"}
HashCommands == {"HSET", "HDEL", "HGET", "HGETALL", "HKEYS", "HVALS", "HLEN"}
SetCommands  == {"SADD", "SREM", "SISMEMBER", "SMEMBERS", "SCARD"}

WrongType(e, name) ==
  \/ name = "GET" /\ e.kind \notin {"none", "string"}
  \/ name \in ListCommands /\ e.kind \notin {"none", "list"}
  \/ name \in HashCommands /\ e.kind \notin {"none", "hash"}
  \/ name \in SetCommands /\ e.kind \notin {"none", "set"}

\* The argument checks at the head of the handlers.
stringArgs(c) == c.name = "SET" => c.str # Nil
listArgs(c)   == c.name \in {"LPUSH", "RPUSH"} => c.list # <<>>
hashArgs(c)   == (c.name = "HSET" => c.hash # NoHash) /\ (c.name = "HDEL" => c.set # {})
setArgs(c)    == c.name \in {"SADD", "SREM"} => c.set # {}

ArgsOK(c) == c.ok /\ stringArgs(c) /\ listArgs(c) /\ hashArgs(c) /\ setArgs(c)

Write(e, now, c) ==
  CASE c.name = "SET"   -> Set(e, c)
    [] c.name = "DEL"   -> Del(e, c)
    [] c.name = "LPUSH" -> LPush(e, c)
    [] c.name = "RPUSH" -> RPush(e, c)
    [] c.name = "LPOP"  -> LPop(e, c)
    [] c.name = "RPOP"  -> RPop(e, c)
    [] c.name = "HSET"  -> HSet(e, c)
    [] c.name = "HDEL"  -> HDel(e, c)
    [] c.name = "SADD"  -> SAdd(e, c)
    [] c.name = "SREM"  -> SRem(e, c)
    [] c.name \in {"EXPIRE", "PEXPIRE"} -> Expire(e, now, c)
    [] c.name = "PERSIST" -> Persist(e, c)

Read(e, c) ==
  CASE c.name = "GET"       -> Get(e)
    [] c.name = "EXISTS"    -> Exists(e)
    [] c.name = "LRANGE"    -> LRange(e, c)
    [] c.name = "LLEN"      -> LLen(e)
    [] c.name = "HGET"      -> HGet(e, c)
    [] c.name \in {"HGETALL", "HVALS"} -> HGetAll(e)
    [] c.name = "HKEYS"     -> HKeys(e)
    [] c.name = "HLEN"      -> HLen(e)
    [] c.name = "SISMEMBER" -> SIsMember(e, c)
    [] c.name = "SMEMBERS"  -> SMembers(e)
    [] c.name = "SCARD"     -> SCard(e)
    [] OTHER                -> errorValue

\* The effect of command c on one of its keys, whose live entry is e.  A name
\* outside the table is an unknown command.
Effect(e, now, c) ==
  IF ~ArgsOK(c) \/ WrongType(e, c.name) THEN Result(e, errorValue)
  ELSE IF IsWrite(c.name) THEN Write(e, now, c)
  ELSE Result(e, Read(e, c))

\* An entry holds the payload of its own kind and no other, and a collection has
\* elements.
WellFormed(e) ==
  /\ e.kind = "string" <=> e.str # Nil
  /\ e.kind = "list" <=> e.list # <<>>
  /\ e.kind = "hash" <=> e.hash # NoHash
  /\ e.kind = "set" <=> e.set # {}
  /\ e.kind = "none" => e.expireAt = Zero
=============================================================================
