\* A transition and a merge, a page with a queue of one, faults of each kind.
SPECIFICATION FairSpec
CONSTANTS
  p1 = p1
  transition = transition
  merge = merge
  Pages = {p1}
  Changes = {transition, merge}
  KindOf <- TheKinds
  Early = {"incident.merged"}
  Listened = {"incident.transitioned"}
  QueueLimit = 1
  MaxFailures = 2
  MaxOutages = 1
  MaxBreaks = 2
INVARIANTS
  TypeOK
  QuietPageIsCurrent
PROPERTIES
  PagesCatchUp
