\* Batches of three of four alerts, one of them rejected, one malformed, under
\* fairness: what the cursor passes, and that it gets there.
SPECIFICATION FairSpec
CONSTANTS
  MaxHit = 4
  Rejected = {2}
  Malformed = {4}
  BatchSize = 3
  FailLimit = 2
  MaxFaults = 2
  MaxStops = 1
INVARIANTS
  TypeOK
  CursorSound
  CursorRests
  CountsRows
  PassedIsCounted
PROPERTIES
  CursorMonotone
  StatusAgreesWithRow
  AlertsArePassed
CHECK_DEADLOCK FALSE
