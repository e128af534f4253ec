\* Two keys, with and without deadlines.
CONSTANTS
  k1 = k1  k2 = k2  va = va  vb = vb  Nil = Nil
  Keys <- TwoKeys
  Vals = {va, vb}
  Requests <- AnyWrite
  Millisecond = 2
  MaxLog = 4
  MaxList = 3
  MaxTime = 3
SPECIFICATION Spec
INVARIANTS TypeOK RoundTrip LogIsState
