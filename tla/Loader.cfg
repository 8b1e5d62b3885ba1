SPECIFICATION FairSpec
CONSTANTS
  Groups = {0, 1}
  Channels = {0, 1}
  GroupOf <- MCGroupOf
  MaxRuns = 2
INVARIANTS ResourcesOutliveCore ExitRestores LinuxGroupsQuiet ForeignOutputsUntouched
PROPERTIES WritesPwmAlone RunEnds
CHECK_DEADLOCK FALSE
