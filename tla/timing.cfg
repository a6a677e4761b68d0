\* Timeouts narrower than an int, ids without NUL, a clock that only advances.
CONSTANTS
  i1 = i1
  i2 = i2
  i1_nul = i1_nul
  i3 = i3
  Id = {i1, i2, i3}
  Gid = {i3}
  CStr <- PlainIds
  Element = {x, y}
  Ttl <- NarrowTtls
  BadTimeout = {}
  Addr = {a1, a2, a3}
  IntMod = 16
  LongMod = 64
  Foreign = {}
  StepsBack <- NoStepBack
  MaxClock = 3
  MaxAcks = 2
SPECIFICATION Spec
SYMMETRY Interchangeable
INVARIANTS QueuesSorted AllExpiredAreDue TtnExact
PROPERTY ImplementsDelayQueue
