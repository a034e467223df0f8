SPECIFICATION Spec
CONSTANTS
  Capacity = 4
  Text <- Lines
  Counts = {1, 2, 3, 4, 5, 6}
  Widths = {1, 2, 4}
INVARIANTS
  Contents
  RoomToRead
  WholeLine
  ExceedsMeansFull
PROPERTIES
  ReadsStream
