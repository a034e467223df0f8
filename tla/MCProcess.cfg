CONSTANTS
  Handlers = {h1, h2}
  Signals = {"SIGTERM"}
  Jobs = {job}
  Forever = {job}
  Pids = {p1}
  None = None
SYMMETRY HandlerSymmetry
SPECIFICATION ProcessSpec
INVARIANTS
  SetsConsistent
  EmitsToAll
  DiesOfDeletion
  HandledSignalsWatched
CHECK_DEADLOCK FALSE
