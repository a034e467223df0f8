SPECIFICATION Spec
CONSTANTS
  Coros = {c1, c2, c3}
  Socks = {s1}
  Timers = {t1, t2}
  Reqs = {r1, r2}
  MaxFreeTimers = 1
  Size = 2
  Allow <- AfterTimedRead
  NoCoro = NoCoro
  NoTimer = NoTimer
  NoOwner = NoOwner
INVARIANT PoolCounted
