CONSTANTS
  Subscribers = {c1, c2}
  Publishers = {c2, c3}
  Channels = {news}
  subMailboxCap = 1
  MaxArgs = 1
  MaxRequests = 2
  MaxPublish = 3
  Leavers = {c1}

SPECIFICATION FairSpec

INVARIANTS
  TypeOK
  NeverSendsOnClosed
  AckedIsLive
  PublisherOrder

PROPERTIES
  PublishersFinish
  Delivered
  TeardownCompletes

CHECK_DEADLOCK FALSE
