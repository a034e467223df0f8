SPECIFICATION FairSpec
CONSTANTS
  Coros = {c1, c2}
  Socks = {s1}
  Timers = {t1}
  Reqs = {r1, r2}
  MaxFreeTimers = 0
  Size = 2
  Allow <- AllCalls
  NoCoro = NoCoro
  NoTimer = NoTimer
  NoOwner = NoOwner
PROPERTIES
  TimedCallReturns
  CloseReturns
  KeepsPromise
INVARIANTS
  WritesInOrder
  TimersOwned
  ClosedIsQuiet
