\* sshd: a line with bytes that are not UTF-8.
SPECIFICATION Spec
CONSTANTS
  Kind <- SshdKind
  Pid <- SshdPid
  Ppid <- SshdPp
  PerEvent = 1
  Bad = {1}
  Gated = FALSE
  QueueMax = 2
  BatchSize = 1
  MaxAttempts = 2
  TableSize = 1
  MaxFaults = 1
  MaxTurns = 0
  MaxStops = 1
INVARIANTS
  ResumesAfterLastLine
CHECK_DEADLOCK FALSE
