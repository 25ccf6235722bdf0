CONSTANTS
  RECV = 5
  QUIET = 4
  FIRST = 30
  START = 15
  LIMIT = 200
  MaxRuns = 2
SPECIFICATION Spec
INVARIANT ReturnsWhatItPrinted
CHECK_DEADLOCK FALSE
