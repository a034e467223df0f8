SPECIFICATION Spec
CONSTANTS
  Coros = {c1, c2}
  Socks = {s1, s2}
  Timers = {t1, t2}
  Reqs = {r1, r2}
  MaxFreeTimers = 1
  Size = 1
  Allow <- Timeouts
  NoCoro = NoCoro
  NoTimer = NoTimer
  NoOwner = NoOwner
SYMMETRY Symmetry
INVARIANTS
  TypeOK
  TimersOwned
  PoolCounted
  OneResumer
PROPERTIES
  DeadlineStays
