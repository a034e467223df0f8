CONSTANTS
  Handlers = {h1}
  Signals = {}
  Jobs = {job}
  Forever = {job}
  Pids = {p1, p2}
  None = None
  Conns = {c1, c2, c3}
  MaxConnections = 2
SPECIFICATION Spec
INVARIANTS
  ChildrenKept
  ConnectionsCounted
  ExitIsClean
PROPERTY QuitExits
CHECK_DEADLOCK FALSE
