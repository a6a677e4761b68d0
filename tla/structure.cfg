\* Every kind of misuse at once: aliasing timeouts and ids, timeouts that do
\* not parse, a wall clock that is set back, other types on the key.  XACK of
\* two ids is in timing.cfg.
CONSTANTS
  i1 = i1
  i2 = i2
  i1_nul = i1_nul
  i3 = i3
  Id = {i1, i1_nul, i2, i3}
  Gid = {i2, i3}
  CStr <- CutAtNul
  Element = {x, y}
  Ttl <- AliasingTtls
  BadTimeout = {soon}
  Addr = {a1, a2, a3}
  IntMod = 8
  LongMod = 64
  Foreign = {"STRING"}
  StepsBack <- OneStepBack
  MaxClock = 2
  MaxAcks = 1
SPECIFICATION Spec
SYMMETRY InterchangeableIds
INVARIANTS TypeOK MapsAgree NoEmptyQueue
PROPERTY HandedOver
