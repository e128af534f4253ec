----------------------------- MODULE MCRecovery -----------------------------
(* Small instances of Recovery for TLC. *)
EXTENDS Recovery

CONSTANTS k1, k2, va, vb

OneKey == {k1}
TwoKeys == {k1, k2}

\* Writes of every kind to k1, a list and a deadline for k2; some are refused or
\* have no effect, and deadlines are whole milliseconds of two ticks.
AnyWrite ==
  {[Cmd("SET", k1) EXCEPT !.str = va], [Cmd("DEL", k1) EXCEPT !.keys = <<k1, k2>>],
   [Cmd("HSET", k1) EXCEPT !.hash = [NoHash EXCEPT ![va] = vb]],
   [Cmd("HDEL", k1) EXCEPT !.set = {va}],
   [Cmd("SADD", k1) EXCEPT !.set = {va, vb}], [Cmd("SREM", k1) EXCEPT !.set = {va}],
   [Cmd("RPUSH", k2) EXCEPT !.list = <<va, vb>>], [Cmd("LPUSH", k2) EXCEPT !.list = <<vb>>],
   Cmd("LPOP", k2), Cmd("RPOP", k2),
   [Cmd("PEXPIRE", k1) EXCEPT !.n = 2], [Cmd("PEXPIRE", k2) EXCEPT !.n = 4],
   Cmd("PERSIST", k1)}

\* Few writes to one key, one of which gives it a deadline.
Expiring ==
  {[Cmd("SET", k1) EXCEPT !.str = va], [Cmd("RPUSH", k1) EXCEPT !.list = <<va, vb>>],
   [Cmd("PEXPIRE", k1) EXCEPT !.n = 2]}
=============================================================================
