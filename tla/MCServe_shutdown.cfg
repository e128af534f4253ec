\* The same, without the premise that clients leave.
CONSTANTS
  c1 = c1
  c2 = c2
  tcp = tcp
  unix = unix
  Listeners = {tcp, unix}
  Conns = {c1, c2}
  Byte <- AllBytes
  Numeral <- Numerals
  Script <- Scripts
  Background = {rewriter}
  Rewriter = rewriter
  MaxRewrites = 1
  None = None

SPECIFICATION ServerSpec

PROPERTY ShutdownCompletes

CHECK_DEADLOCK FALSE
