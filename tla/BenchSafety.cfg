SPECIFICATION LinkSpec
CONSTANTS
  NumChannels = 2
  Targets = {1500, 1550, 1600}
  HostOps = {}
  HostMasks = {}
  TimerMod = 3
  Timeout = 2
  MaxLoop = 1
  MaxSeq = 9
  BenchModes = {"sequential", "together", "hold"}
  Selected = {0, 1}
  Pulses <- MCPulses
  HoldPulse = 1600
  Cycles = 1
  MaxRepeats = 1
  Patience = 3
INVARIANTS OnlyGroupDriven CheckedIsDriven
PROPERTIES TargetsStable ImplementsMailbox
