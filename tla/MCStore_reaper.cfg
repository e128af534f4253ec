\* A key in the second shard has expired; one in the first keeps its deadline and
\* the budget of a pass is a single key.
CONSTANTS
  k1 = k1  k2 = k2  va = va  vb = vb  Nil = Nil
  Keys <- TwoKeys
  Vals = {va}
  Clients = {p1}
  Requests <- Expiring
  ShardCount = 2
  shardFor <- TwoShards
  Sample = 1
  Unit = 2
  MaxNow = 3
  MaxLen = 1
SPECIFICATION FairSpec
PROPERTY ExpiredIsReclaimed
