\* Two elements, in one queue or in two, and a save that a crash may overtake.
CONSTANTS
  i1 = i1
  i2 = i2
  Id = {i1, i2}
  Gid = {i2}
  CStr <- PlainIds
  Element = {x}
  Ttl <- TwoTtls
  BadTimeout = {}
  Addr = {a1, a2}
  IntMod = 8
  LongMod = 64
  Foreign = {"STRING"}
  StepsBack = {}
  MaxClock = 1
  MaxAcks = 1
SPECIFICATION PSpec
SYMMETRY Interchangeable
INVARIANTS MapsAgree QueuesSorted
PROPERTY RestoredAsSaved
