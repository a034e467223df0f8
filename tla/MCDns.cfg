CONSTANTS
  Keys = {3, 4, 5}
  Slots = {0, 1}
  Slot <- Collide
  Queries = {q1, q2, q3}
  Servers = {s1, s2}
  Tries = 2
  None = None
SPECIFICATION Spec
INVARIANTS
  TasksFound
  QueriesWatched
  TimerStops
PROPERTY QueryEnds
CHECK_DEADLOCK FALSE
