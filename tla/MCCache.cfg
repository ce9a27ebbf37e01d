CONSTANTS
  Key = {k1, k2, k3, k4}
  MaxEntries = 3
  Second = 2
  Value <- MCValue
SPECIFICATION CacheSpec
INVARIANT
  ListMatchesMap
  EvictsExpiredFirst
PROPERTIES
  LifeNeverExtended
