--------------------------- MODULE ExpiringStore ----------------------------
(***************************************************************************)
(* What internal/db promises its callers: a map in which a key with a      *)
(* deadline is gone from the very tick its deadline is reached, and in     *)
(* which every access to a key happens at one instant.  There is no lazy   *)
(* deletion, no reaper and no lock here.  A command that names several     *)
(* keys is only promised key by key.                                       *)
(***************************************************************************)
EXTENDS Naturals

CONSTANTS
  Keys,               \* the key names in use
  Requests,           \* the commands callers may send; c.keys lists its keys
  NoEntry,            \* stands for "no such key"
  NoAccess,           \* the value of last before the first access
  liveEntry(_, _),    \* what is left of an entry at a given time
  Effect(_, _, _)     \* entry and reply after a command on an entry at a time

VARIABLES
  view,   \* view[k] is the entry under k, NoEntry when there is none
  now,    \* the clock
  last    \* the latest access: which command, on which key, the reply

vars == <<view, now, last>>

Init ==
  /\ view = [k \in Keys |-> NoEntry]
  /\ now = 1
  /\ last = NoAccess

\* Time passes; whatever reaches its deadline is gone.
Tick ==
  /\ now' = now + 1
  /\ view' = [k \in Keys |-> liveEntry(view[k], now')]
  /\ UNCHANGED last

Access(c, k) ==
  LET r == Effect(view[k], now, c)
  IN  /\ view' = [view EXCEPT ![k] = r.entry]
      /\ last' = [cmd |-> c, key |-> k, reply |-> r.reply]
      /\ UNCHANGED now

Next ==
  \/ Tick
  \/ \E c \in Requests :
       \E i \in DOMAIN c.keys : Access(c, c.keys[i])

Spec == Init /\ [][Next]_vars
=============================================================================
