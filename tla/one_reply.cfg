\* A timeout that is no number (no answer) and a value of another type on the
\* key (two answers).
CONSTANTS
  i1 = i1
  i2 = i2
  i1_nul = i1_nul
  i3 = i3
  Id = {i1, i2, i3}
  Gid = {i3}
  CStr <- PlainIds
  Element = {x, y}
  Ttl <- NarrowTtls
  BadTimeout = {soon}
  Addr = {a1, a2}
  IntMod = 16
  LongMod = 64
  Foreign = {"STRING"}
  StepsBack <- NoStepBack
  MaxClock = 3
  MaxAcks = 1
SPECIFICATION Spec
PROPERTY OneReplyPerCommand
