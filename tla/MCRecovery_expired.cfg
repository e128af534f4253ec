\* Deadlines: the log does not say when a key has expired.
CONSTANTS
  k1 = k1  k2 = k2  va = va  vb = vb  Nil = Nil
  Keys <- OneKey
  Vals = {va, vb}
  Requests <- Expiring
  Millisecond = 2
  MaxLog = 4
  MaxList = 3
  MaxTime = 5
SPECIFICATION Spec
INVARIANT PersistentKeysSurvive
