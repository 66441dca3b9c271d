\* auditd: two processes start, the first of them exits; the queue and the process
\* table hold one each.
SPECIFICATION Spec
CONSTANTS
  Kind <- AuditKind
  Pid <- AuditPid
  Ppid <- AuditPp
  PerEvent = 2
  Bad = {}
  Gated = TRUE
  QueueMax = 1
  BatchSize = 1
  MaxAttempts = 2
  TableSize = 1
  MaxFaults = 2
  MaxTurns = 1
  MaxStops = 1
INVARIANTS
  TypeOK
  NothingSkipped
  ResumesAfterLastLine
  LossesAreCounted
  ExitsHaveProvenance
PROPERTIES
  LinesAreFed
CHECK_DEADLOCK FALSE
