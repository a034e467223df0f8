CONSTANTS
  Messages <- Various
  Capacity = 14
  RequestLine = 5
  MaxHeaders = 3
  MaxPerRead = 2
SPECIFICATION Spec
INVARIANTS
  ParsedAsWhole
  BodyKept
  AcceptsWhatFits
CHECK_DEADLOCK FALSE
