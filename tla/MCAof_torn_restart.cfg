\* A log continued after a half-written command.
CONSTANTS
  Clients = {p1}
  None = None  Rewriter = Rewriter
  Modes = {"always"}
  Faults = {"tear"}
  minRewriteSize = 1
  MaxWrites = 3
  MaxCrashes = 2
SPECIFICATION Spec
PROPERTY Durable
SYMMETRY AnyClient
