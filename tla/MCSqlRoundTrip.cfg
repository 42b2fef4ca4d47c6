SPECIFICATION Spec
CHECK_DEADLOCK FALSE
CONSTANTS
  None = None
  SampleValues <- MCValues
  ChainLength = 4
INVARIANTS
  TextParses
  BindExact
  PrecedenceHolds
