CONSTANTS
  Callers = {a, b}
  Num = 3
  Limits = {1, 2, 3}
  NoCaller = NoCaller
SPECIFICATION Spec
INVARIANTS
  OwnResults
  ReturnsWithAll
  SomeoneResumes
  LimitKept
  NoStrayResume
PROPERTY CallReturns
CHECK_DEADLOCK FALSE
