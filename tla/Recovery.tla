------------------------------ MODULE Recovery ------------------------------
(***************************************************************************)
(* What the log says about the data.  Module Aof follows the log as a      *)
(* file; here it is the sequence of commands in it, and the question is    *)
(* whether executing them again rebuilds the keyspace: apply records the   *)
(* writes, a rewrite replaces them by a snapshot (Snapshot in internal/db, *)
(* encodeRecord and encodeExpire in internal/persistence), loadAOF         *)
(* replays what is there.                                                  *)
(*                                                                         *)
(* The store is the one ExpiringStore promises: a key is gone as soon as   *)
(* its deadline is reached.                                                *)
(***************************************************************************)
EXTENDS Keyspace

CONSTANTS
  Requests,    \* the writes clients may send
  Millisecond, \* clock ticks in a millisecond
  MaxLog,      \* bound: commands in the log
  MaxList,     \* bound: elements of a list
  MaxTime      \* bound: the clock

ASSUME RecoveryAssumption ==
  /\ Requests \subseteq Commands
  /\ \A c \in Requests :
       /\ IsWrite(c.name)
       /\ Len(c.keys) = 1 \/ c.name = "DEL"   \* only DEL takes several keys
  /\ Millisecond \in Nat \ {0} /\ MaxLog \in Nat
  /\ MaxList \in Nat /\ MaxTime \in Nat

VARIABLES
  keyspace,  \* what the store holds
  log,       \* the commands in the log
  phase,     \* "serving" clients, "rewriting" the log, or "loading" it
  records,   \* the snapshot of the rewrite
  tmp,       \* the file it writes
  todo,      \* the commands still to be replayed
  now        \* the clock

vars == <<keyspace, log, phase, records, tmp, todo, now>>

Nothing == [k \in Keys |-> NoEntry]

Init ==
  /\ keyspace = Nothing /\ log = <<>> /\ now = 1
  /\ phase = "serving"
  /\ records = Nothing /\ tmp = <<>> /\ todo = <<>>

Tick ==
  /\ now < MaxTime
  /\ now' = now + 1
  /\ keyspace' = [k \in Keys |-> liveEntry(keyspace[k], now')]
  /\ UNCHANGED <<log, phase, records, tmp, todo>>

\* Dispatch on the whole keyspace m at time t; the keys a command names are
\* worked off one by one.
Dispatch(m, t, c) ==
  [k \in Keys |-> IF \E i \in DOMAIN c.keys : c.keys[i] = k
                  THEN Effect(liveEntry(m[k], t), t, c).entry ELSE m[k]]

Refused(m, t, c) ==
  \E i \in DOMAIN c.keys : Effect(liveEntry(m[c.keys[i]], t), t, c).reply = errorValue

\* Mutant: does not wait for a rewrite to end.
apply_NoLock(c) ==
  /\ phase # "loading" /\ Len(log) < MaxLog
  /\ keyspace' = Dispatch(keyspace, now, c)
  /\ \A k \in Keys : Len(keyspace'[k].list) <= MaxList
  /\ log' = IF Refused(keyspace, now, c) THEN log ELSE Append(log, c)
  /\ UNCHANGED <<phase, records, tmp, todo, now>>

\* A write goes to the log verbatim, unless its reply is an error; a write that
\* finds nothing to do goes there too.
apply(c) ==
  /\ phase = "serving" /\ Len(log) < MaxLog
  /\ keyspace' = Dispatch(keyspace, now, c)
  /\ \A k \in Keys : Len(keyspace'[k].list) <= MaxList
  /\ log' = IF Refused(keyspace, now, c) THEN log ELSE Append(log, c)
  /\ UNCHANGED <<phase, records, tmp, todo, now>>

-----------------------------------------------------------------------------
(* The rewrite.                                                            *)

\* rewriteAOF has the write lock and takes the snapshot ...
Snapshot ==
  /\ phase = "serving"
  /\ phase' = "rewriting" /\ records' = keyspace /\ tmp' = <<>>
  /\ UNCHANGED <<keyspace, log, todo, now>>

\* Mutant: writes the remaining time as it is, 0 for less than a millisecond.
encodeExpire_NoFloor(k, e, t) ==
  [Cmd("PEXPIRE", k) EXCEPT
     !.n = Millisecond * (IF e.expireAt <= t THEN 0 ELSE (e.expireAt - t) \div Millisecond)]

\* The rest of a key's life in whole milliseconds, and at least one.
encodeExpire(k, e, t) ==
  LET ms == IF e.expireAt <= t THEN 0 ELSE (e.expireAt - t) \div Millisecond
  IN  [Cmd("PEXPIRE", k) EXCEPT !.n = Millisecond * (IF ms < 1 THEN 1 ELSE ms)]

\* The command that recreates the value.
encodeValue(k, e) ==
  CASE e.kind = "string" -> [Cmd("SET", k) EXCEPT !.str = e.str]
    [] e.kind = "list"   -> [Cmd("RPUSH", k) EXCEPT !.list = e.list]
    [] e.kind = "hash"   -> [Cmd("HSET", k) EXCEPT !.hash = e.hash]
    [] e.kind = "set"    -> [Cmd("SADD", k) EXCEPT !.set = e.set]

\* A collection without elements is left out.
IsEmpty(e) ==
  \/ e.kind = "none"
  \/ e.kind = "list" /\ e.list = <<>>
  \/ e.kind = "hash" /\ e.hash = NoHash
  \/ e.kind = "set" /\ e.set = {}

encodeRecord(k, e, t) ==
  IF IsEmpty(e) THEN <<>>
  ELSE IF e.expireAt = Zero THEN <<encodeValue(k, e)>>
  ELSE <<encodeValue(k, e), encodeExpire(k, e, t)>>

\* ... writes it to the temporary file record by record, in no particular order,
\* while time passes and keys of the snapshot die ...
writeSnapshot(k) ==
  /\ phase = "rewriting" /\ records[k] # NoEntry
  /\ tmp' = tmp \o encodeRecord(k, records[k], now)
  /\ records' = [records EXCEPT ![k] = NoEntry]
  /\ UNCHANGED <<keyspace, log, phase, todo, now>>

\* ... and puts that in the place of the log.
Rename ==
  /\ phase = "rewriting" /\ records = Nothing
  /\ log' = tmp
  /\ phase' = "serving" /\ tmp' = <<>>
  /\ UNCHANGED <<keyspace, records, todo, now>>

\* A rewrite that fails on the way leaves the log alone.
RewriteFails ==
  /\ phase = "rewriting"
  /\ phase' = "serving" /\ records' = Nothing /\ tmp' = <<>>
  /\ UNCHANGED <<keyspace, log, todo, now>>

-----------------------------------------------------------------------------
(* Recovery.                                                               *)

\* The process stops, whatever it is doing, and comes back: loadAOF starts with
\* an empty store ...
loadAOF ==
  /\ phase' = "loading" /\ todo' = log
  /\ keyspace' = Nothing /\ records' = Nothing /\ tmp' = <<>>
  /\ UNCHANGED <<log, now>>

\* ... and runs the commands of the log one by one; one that is refused now has
\* no effect.
Replay ==
  /\ phase = "loading" /\ todo # <<>>
  /\ keyspace' = Dispatch(keyspace, now, Head(todo))
  /\ todo' = Tail(todo)
  /\ UNCHANGED <<log, phase, records, tmp, now>>

Loaded ==
  /\ phase = "loading" /\ todo = <<>>
  /\ phase' = "serving"
  /\ UNCHANGED <<keyspace, log, records, tmp, todo, now>>

Next ==
  \/ Tick
  \/ \E c \in Requests : apply(c)
  \/ Snapshot \/ (\E k \in Keys : writeSnapshot(k)) \/ Rename \/ RewriteFails
  \/ loadAOF \/ Replay \/ Loaded

Spec == Init /\ [][Next]_vars

-----------------------------------------------------------------------------
(* Properties.                                                             *)

\* The type invariant.
TypeOK ==
  /\ keyspace \in [Keys -> Entries] /\ records \in [Keys -> Entries]
  /\ log \in Seq(Commands) /\ tmp \in Seq(Commands) /\ todo \in Seq(Commands)
  /\ phase \in {"serving", "rewriting", "loading"}
  /\ now \in Nat \ {0}

SameValue(e, f) == [e EXCEPT !.expireAt = Zero] = [f EXCEPT !.expireAt = Zero]

\* The entry that is there after a replay, at time t, of what a rewrite at time t
\* writes for a key with entry e.
Restored(k, e, t) ==
  LET cs == encodeRecord(k, e, t)
      value == Effect(NoEntry, t, cs[1]).entry
  IN  CASE cs = <<>>    -> NoEntry
        [] Len(cs) = 1  -> value
        [] OTHER        -> Effect(liveEntry(value, t), t, cs[2]).entry

Recreates(k, e, t) ==
  LET r == Restored(k, e, t)
  IN  /\ SameValue(r, e)
      /\ e.expireAt = Zero => r.expireAt = Zero
      /\ e.expireAt # Zero =>
           /\ r.expireAt > t
           /\ r.expireAt <= e.expireAt \/ r.expireAt = t + Millisecond
           /\ r.expireAt + Millisecond > e.expireAt

\* The snapshot in the log recreates every key the rewrite has seen, even one
\* that dies while it is written: the same value and, if the key has a deadline,
\* one that is in the future and neither later than its own nor earlier by a
\* millisecond (a key with less than a millisecond left gets a whole one, and is
\* not deleted).
RoundTrip == \A k \in Keys : Recreates(k, records[k], now)

\* What a log stands for: the keyspace after a replay of it at time t.
Rebuilt(l, t) ==
  LET m[n \in 0 .. Len(l)] == IF n = 0 THEN Nothing ELSE Dispatch(m[n - 1], t, l[n])
  IN  m[Len(l)]

\* A restart rebuilds every key as it was, whatever was written, refused, rewritten
\* or recovered before, unless a command in the log gives the key a deadline: the
\* log, rewritten or not, always stands for the live state.
Lasting(k) ==
  \A i \in DOMAIN log : log[i].keys[1] = k => log[i].name \notin {"EXPIRE", "PEXPIRE"}

LogIsState ==
  phase # "loading" => \A k \in Keys : Lasting(k) => Rebuilt(log, now)[k] = keyspace[k]

\* A key that is there and has no deadline is the same after a restart, whatever
\* happened to it before.
PersistentKeysSurvive ==
  phase # "loading" =>
    \A k \in Keys :
      keyspace[k].kind # "none" /\ keyspace[k].expireAt = Zero
        => Rebuilt(log, now)[k] = keyspace[k]
=============================================================================
