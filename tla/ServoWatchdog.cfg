\* The timer wraps after four ticks, inside a lease; the host may stop calling
\* at any point, or never does.
SPECIFICATION FairSpec
CONSTANTS
  NumChannels = 1
  Targets = {1500}
  HostOps = {"set", "status", "unknown"}
  HostMasks = {{0}}
  TimerMod = 4
  Timeout = 2
  MaxLoop = 2
  MaxSeq = 2
INVARIANTS AnswerIsTruth
PROPERTIES ImplementsOutputLease OutputsExpire RequestsAnswered
