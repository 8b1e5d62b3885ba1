CONSTANTS
  Procs = {p1, p2}
  Nobody = Nobody
  NPads = 2
SPECIFICATION FairSpec
INVARIANTS OneMaster
PROPERTIES ImplementsLease PadsMoveWhenQuiet LeaseEnds
CHECK_DEADLOCK FALSE
