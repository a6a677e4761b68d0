\* A wall clock that is set back.
CONSTANTS
  i1 = i1
  i2 = i2
  i1_nul = i1_nul
  i3 = i3
  Id = {i1, i2, i3}
  Gid = {i3}
  CStr <- PlainIds
  Element = {x, y}
  Ttl <- NarrowTtls
  BadTimeout = {}
  Addr = {a1, a2}
  IntMod = 16
  LongMod = 64
  Foreign = {}
  StepsBack <- OneStepBack
  MaxClock = 3
  MaxAcks = 1
SPECIFICATION Spec
INVARIANT QueuesSorted
