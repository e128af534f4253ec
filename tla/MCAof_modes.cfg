\* Any fsync policy; the disk may fill up.
CONSTANTS
  Clients = {p1, p2}
  None = None  Rewriter = Rewriter
  Modes = {"always", "everysec", "no"}
  Faults = {"full"}
  minRewriteSize = 1
  MaxWrites = 3
  MaxCrashes = 2
SPECIFICATION FairSpec
INVARIANTS TypeOK LogMatchesStore
PROPERTIES Durable EventuallyOnDisk
