\* One event sent twice and another one without a key, for the same incidents.
SPECIFICATION Spec
CONSTANTS
  c1 = c1
  c2 = c2
  c3 = c3
  k1 = k1
  k2 = k2
  g1 = g1
  h1 = h1
  i1 = i1
  user = user
  host = host
  NoKey = NoKey
  NoGroup = NoGroup
  Calls = {c1, c2, c3}
  Keys = {k1, k2}
  Entities = {user, host}
  Groups = {g1, h1, i1}
  Standalone = {h1}
  KeyOf <- RaceKeyOf
  Upserts <- RaceUpserts
  JoinsOf <- NoJoins
  GroupsOf <- RaceGroupsOf
  MaxDbFaults = 2
  MaxRedisFaults = 1
  MaxCrashes = 1
INVARIANTS
  TypeOK
  OneRowPerKey
  OneIncidentPerGroup
  AutoActionsOncePerEvent
PROPERTIES
  ImplementsIntake
CHECK_DEADLOCK FALSE
