\* A timeout of 2^31 ms or more, here 5 with IntMod = 8.
CONSTANTS
  i1 = i1
  i2 = i2
  i1_nul = i1_nul
  i3 = i3
  Id = {i1, i2, i3}
  Gid = {i3}
  CStr <- PlainIds
  Element = {x, y}
  Ttl <- WideTtl
  BadTimeout = {}
  Addr = {a1, a2}
  IntMod = 8
  LongMod = 64
  Foreign = {}
  StepsBack <- NoStepBack
  MaxClock = 3
  MaxAcks = 1
SPECIFICATION Spec
INVARIANT TtnExact
