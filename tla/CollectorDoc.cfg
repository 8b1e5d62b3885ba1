CONSTANTS
  Kinds = {"servo", "servoEnd"}
  MaxLines = 2
  MaxSeq = 1
SPECIFICATION Spec
INVARIANT FailureIsIncomplete
CHECK_DEADLOCK FALSE
