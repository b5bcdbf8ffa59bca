CONSTANTS
  Interfaces <- MCInterfaces
  UnknownName = "nobody"
  Counts = {0, 1, 3}
  MaxCalls = 5
SPECIFICATION FairSpec
INVARIANT TypeOK
PROPERTIES TriedAndReported CallsReturn
CHECK_DEADLOCK FALSE
