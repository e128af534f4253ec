------------------------------- MODULE MCStore ------------------------------
(* Small instances of Store for TLC. *)
EXTENDS Store, TLC

CONSTANTS k1, k2, va, vb

OneKey == {k1}
TwoKeys == {k1, k2}
OneShard == [k \in Keys |-> 0]
TwoShards == (k1 :> 0) @@ (k2 :> 1)

\* The callers are interchangeable.
AnyClient == Permutations(Clients)

H(f, v) == [NoHash EXCEPT ![f] = v]

\* Every command of the table on one key, malformed requests among them.
EveryCommand ==
  {[Cmd("SET", k1) EXCEPT !.str = v] : v \in {va, vb, Nil}}
  \cup {[Cmd(n, k1) EXCEPT !.list = l] : n \in {"LPUSH", "RPUSH"}, l \in {<<>>, <<va>>, <<va, vb>>}}
  \cup {[Cmd("HSET", k1) EXCEPT !.hash = h] : h \in {H(va, va), H(vb, va), [NoHash EXCEPT ![va] = vb, ![vb] = vb]}}
  \cup {[Cmd(n, k1) EXCEPT !.set = s] : n \in {"HDEL", "SADD", "SREM"}, s \in {{}, {va}, {va, vb}}}
  \cup {[Cmd(n, k1) EXCEPT !.set = {va}] : n \in {"HGET", "SISMEMBER"}}
  \cup {Cmd(n, k1) : n \in {"GET", "DEL", "EXISTS", "LPOP", "RPOP", "LLEN", "HGETALL", "HKEYS", "HVALS",
                            "HLEN", "SMEMBERS", "SCARD", "PERSIST", "TTL", "NOSUCH"}}
  \cup {[Cmd(n, k1) EXCEPT !.n = d] : n \in {"EXPIRE", "PEXPIRE"}, d \in {-1, 0, 1}}
  \cup {[Cmd("EXPIRE", k1) EXCEPT !.ok = FALSE]}
  \cup {[Cmd("LRANGE", k1) EXCEPT !.n = i, !.m = j] : i \in {0, -1}, j \in {0, -1}}

\* Few commands, chosen to collide: two kinds under one key, a short and a long
\* deadline, and the operations that take several critical sections.
Colliding ==
  {[Cmd("SET", k1) EXCEPT !.str = va], [Cmd("RPUSH", k1) EXCEPT !.list = <<va>>],
   [Cmd("SET", k2) EXCEPT !.str = va],
   [Cmd("EXPIRE", k1) EXCEPT !.n = 1], [Cmd("EXPIRE", k2) EXCEPT !.n = 1],
   Cmd("GET", k1), Cmd("TTL", k1),
   [Cmd("DEL", k1) EXCEPT !.keys = <<k1, k2>>]}

Expiring ==
  {[Cmd("SET", k1) EXCEPT !.str = va], [Cmd("SET", k2) EXCEPT !.str = va],
   [Cmd("EXPIRE", k1) EXCEPT !.n = 3], [Cmd("EXPIRE", k2) EXCEPT !.n = 1],
   Cmd("TTL", k2)}
=============================================================================
