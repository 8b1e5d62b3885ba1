CONSTANTS
  NPads = 1
  NNodes = 1
  Options = {}
  MaxRuns = 1
SPECIFICATION Spec
INVARIANT InterruptedIsFailure
CHECK_DEADLOCK FALSE
