CONSTANTS
  Lookup = {l1, l2}
  NoLookup = NoLookup
  Key = {k1, k2}
  MaxEntries = 1
  Second = 2
  Value <- MCValue
  TTL = {4}
  SOA <- MCSOA
  NoSOA = NoSOA
  MinTTL = 1
  MaxTTL = 2
  NegMinTTL = 1
  NegMaxTTL = 1
  MaxReloads = 1
SPECIFICATION Spec
PROPERTY
  ReloadTakesEffect
CHECK_DEADLOCK FALSE
