\* sshd: nothing goes wrong but a crash.
SPECIFICATION Spec
CONSTANTS
  Kind <- SshdKind
  Pid <- SshdPid
  Ppid <- SshdPp
  PerEvent = 1
  Bad = {}
  Gated = FALSE
  QueueMax = 2
  BatchSize = 1
  MaxAttempts = 2
  TableSize = 1
  MaxFaults = 0
  MaxTurns = 0
  MaxStops = 1
INVARIANTS
  UnshippedIsReread
CHECK_DEADLOCK FALSE
