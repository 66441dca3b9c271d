\* The hour key is set in Redis before the incident is committed.
SPECIFICATION Spec
CONSTANTS
  c1 = c1
  c2 = c2
  c3 = c3
  k1 = k1
  k2 = k2
  g1 = g1
  h1 = h1
  i1 = i1
  user = user
  host = host
  NoKey = NoKey
  NoGroup = NoGroup
  Calls = {c1, c2}
  Keys = {k1, k2}
  Entities = {user, host}
  Groups = {g1, h1, i1}
  Standalone = {h1}
  KeyOf <- HostKeyOf
  Upserts <- RaceUpserts
  JoinsOf <- NoJoins
  GroupsOf <- HostGroupsOf
  MaxDbFaults = 1
  MaxRedisFaults = 0
  MaxCrashes = 0
INVARIANTS
  HourKeyMeansIncident
CHECK_DEADLOCK FALSE
