\* Every command word, every kind of mask, and targets that change between
\* their check and their use, on two channels; time stands still (MaxLoop = 0).
SPECIFICATION Spec
CONSTANTS
  NumChannels = 2
  Targets = {1399, 1500, 1600}
  HostOps = {"set", "stop", "park", "unknown"}
  HostMasks = {{0, 1}, {2}}
  TimerMod = 1
  Timeout = 1
  MaxLoop = 0
  MaxSeq = 2
INVARIANTS SafeWaveform ActiveIsHardware
PROPERTIES NoNeedlessReload
