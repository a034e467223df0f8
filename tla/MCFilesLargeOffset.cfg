SPECIFICATION Spec
CONSTANTS
  Coros = {c1, c2}
  Streams = {reader, writer}
  Writers = {writer}
  Fds = {f1, f2}
  Lengths = {1, 2}
  Starts = {2}
  MaxBytes = 3
  IntBound = 4
  Allow = {"large offsets"}
  NoFd = NoFd
  NoOwner = NoOwner
SYMMETRY Symmetry
INVARIANT InPlace
