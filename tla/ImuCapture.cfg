CONSTANTS
  NPads = 2
  NNodes = 2
  Options = {"warmup", "profile", "static"}
  MaxRuns = 2
SPECIFICATION FairSpec
INVARIANTS ReportedOrRestored PassedIsEarned DriversOwnPads
  ForeignSensorsUntouched GapFitsSensor
PROPERTIES PadsMoveWhenSensorsRest RunEnds
CHECK_DEADLOCK FALSE
