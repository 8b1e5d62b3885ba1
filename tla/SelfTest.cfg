SPECIFICATION TestSpec
CONSTANTS
  NumChannels = 2
  Targets = {1399, 1500, 1550, 1600, 1601}
  HostOps = {}
  HostMasks = {}
  TimerMod = 3
  Timeout = 2
  MaxLoop = 1
  MaxSeq = 9
  BenchModes = {"sequential", "hold", "test"}
  Selected = {0}
  Pulses <- MCPulses
  HoldPulse = 1600
  Cycles = 1
  MaxRepeats = 0
  Patience = 3
  Steps <- MCSteps
  Mixed <- MCMixed
  Lone = 1
  WatchPatience = 4
INVARIANTS WatchdogVerdict PassIsEarned
PROPERTIES BenchReturns
CHECK_DEADLOCK FALSE
