\* Two listeners, two clients that come, stay and go as they like, a rewrite and a signal at any time.
CONSTANTS
  c1 = c1
  c2 = c2
  tcp = tcp
  unix = unix
  Listeners = {tcp, unix}
  Conns = {c1, c2}
  Byte <- AllBytes
  Numeral <- Numerals
  Script <- Scripts
  Background = {rewriter}
  Rewriter = rewriter
  MaxRewrites = 1
  None = None

SPECIFICATION ServerSpec

INVARIANTS
  TypeOK
  LogOutlivesItsUsers
  ServedAsSent
  EndIsJudgedRight

PROPERTIES
  
  ShutdownUnlessHeldUp

CHECK_DEADLOCK FALSE
