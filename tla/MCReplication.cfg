\* Two clients of the primary; a replica that reconnects; queues of one frame, so
\* that they overflow.
CONSTANTS
  Writers = {w1, w2}
  Replicas = {r1}
  replicaQueueCap = 1
  WireCap = 1
  MaxWrites = 2
  MaxPings = 1
  MaxSessions = 2
  HasAof = FALSE
  None = None
SPECIFICATION FairSpec
INVARIANTS TypeOK NeverSendsOnClosed HandshakeThenStream AppliedInOrder MissesFewWrites
PROPERTIES Streamed WritesFinish CatchesUp
CHECK_DEADLOCK FALSE
