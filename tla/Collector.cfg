CONSTANTS
  Kinds = {"carrier", "servo", "bench", "single", "end", "servoEnd", "malformed", "other"}
  MaxLines = 3
  MaxSeq = 2
SPECIFICATION FairSpec
INVARIANTS CompleteIsEarned MetadataFitsRows
PROPERTY SignalEnds
CHECK_DEADLOCK FALSE
