\* Transactions that lock the same entities in opposite orders.
SPECIFICATION FairSpec
CONSTANTS
  c1 = c1
  c2 = c2
  c3 = c3
  k1 = k1
  k2 = k2
  g1 = g1
  h1 = h1
  i1 = i1
  user = user
  host = host
  NoKey = NoKey
  NoGroup = NoGroup
  Calls = {c1, c2, c3}
  Keys = {k1, k2}
  Entities = {user, host}
  Groups = {g1, h1, i1}
  Standalone = {h1}
  KeyOf <- CircleKeyOf
  Upserts <- CircleUpserts
  JoinsOf <- CircleJoinsOf
  GroupsOf <- CircleGroupsOf
  MaxDbFaults = 1
  MaxRedisFaults = 0
  MaxCrashes = 1
PROPERTIES
  EveryCallEnds
CHECK_DEADLOCK FALSE
