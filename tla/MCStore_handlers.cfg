\* One key, every command, short lists: the handlers and their replies.
CONSTANTS
  k1 = k1  k2 = k2  va = va  vb = vb  Nil = Nil
  Keys <- OneKey
  Vals = {va, vb}
  Clients = {p1}
  Requests <- EveryCommand
  ShardCount = 1
  shardFor <- OneShard
  Sample = 1
  Unit = 2
  MaxNow = 2
  MaxLen = 2
SPECIFICATION CallersSpec
INVARIANTS TypeOK EntriesWellFormed TTLNeverShort
PROPERTY ChangesAreReported
