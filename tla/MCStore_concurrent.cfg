\* Two clients, two keys in two shards, the reaper and the snapshot.
CONSTANTS
  k1 = k1  k2 = k2  va = va  vb = vb  Nil = Nil
  Keys <- TwoKeys
  Vals = {va}
  Clients = {p1, p2}
  Requests <- Colliding
  ShardCount = 2
  shardFor <- TwoShards
  Sample = 1
  Unit = 2
  MaxNow = 2
  MaxLen = 1
SPECIFICATION Spec
INVARIANTS SnapshotFaithful
PROPERTY ImplementsExpiringStore
SYMMETRY AnyClient
