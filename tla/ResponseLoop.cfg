\* Two actions, three requests, two ingest tasks, one Redis fault, one rolled back ingest.
SPECIFICATION FairSpec
CONSTANTS
  a1 = a1
  a2 = a2
  None = None
  Actions = {a1, a2}
  Requests = {1, 2, 3}
  Workloads <- TheWorkloads
  ArEnabled = TRUE
  Lead <- TheLead
  MaxOutages = 1
  Tasks = {1, 2}
  Times = {1, 2, 3}
  Lookback = 1
  MaxAborts = 1
  Threshold = 2
  MaxCount = 5
  Arrivals <- TheArrivals
INVARIANTS
  TypeOK
  EffectsMatchStatus
  AuditTellsStatus
  DispatchIsAudited
  WhatStandsIsNotRecommended
  CacheMatchesTable
  AlarmsNotRepeated
  NewSourceNotRepeated
PROPERTIES
  DetectorsCatchUp
CHECK_DEADLOCK FALSE
