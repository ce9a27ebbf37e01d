CONSTANTS
  Lookup = {l1, l2, l3}
  NoLookup = NoLookup
  Key = {k1, k2}
  MaxEntries = 1
  Second = 2
  Value <- MCValue
  TTL = {4}
  SOA <- MCSOA
  NoSOA = NoSOA
  MinTTL = 1
  MaxTTL = 2
  NegMinTTL = 1
  NegMaxTTL = 1
  MaxReloads = 1
SPECIFICATION Spec
SYMMETRY MCSymmetry
INVARIANTS
  OneFlightPerKey
  WaiterSharesResult
  OnlyCompleteCached
  StaleOnlyFromOverlap
CHECK_DEADLOCK FALSE
