\* A rejected alert between two failing ones.
SPECIFICATION Spec
CONSTANTS
  MaxHit = 3
  Rejected = {2}
  Malformed = {}
  BatchSize = 3
  FailLimit = 2
  MaxFaults = 2
  MaxStops = 0
INVARIANTS
  TripKeepsFailedHits
CHECK_DEADLOCK FALSE
