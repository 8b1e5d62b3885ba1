SPECIFICATION LinkSpec
CONSTANTS
  NumChannels = 2
  Targets = {1500, 1550, 1600}
  HostOps = {}
  HostMasks = {}
  TimerMod = 3
  Timeout = 2
  MaxLoop = 1
  MaxSeq = 6
  BenchModes = {"sequential"}
  Selected = {0}
  Pulses <- MCPulses
  HoldPulse = 1600
  Cycles = 1
  MaxRepeats = 0
  Patience = 3
INVARIANTS OneOutstanding
