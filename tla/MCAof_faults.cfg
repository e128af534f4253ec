\* The disk, a write in progress and the reopen of a rewrite can fail.
CONSTANTS
  Clients = {p1}
  None = None  Rewriter = Rewriter
  Modes = {"everysec"}
  Faults = {"full", "tear", "reopen"}
  minRewriteSize = 1
  MaxWrites = 3
  MaxCrashes = 2
SPECIFICATION Spec
PROPERTIES NoGaps TornTailTolerated
