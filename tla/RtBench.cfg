CONSTANTS
  N = 2
  GroupOf <- MCGroupOf
  Reps = 2
  Steps = 3
  Threads = {w1, w2}
  MaxStarts = 2
  ConsolePins = {}
SPECIFICATION FairSpec
INVARIANTS PulsesEndWithRun StopIsPrompt ChannelsGivenBack ToolKeepsChannel
PROPERTY PadsMoveWhenQuiet RunEnds
CHECK_DEADLOCK FALSE
