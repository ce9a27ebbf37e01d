CONSTANTS
  a1 = a1
  a2 = a2
  Addr <- MCAddr
  s1 = s1
  s2 = s2
  s3 = s3
  Server <- MCServer
  inChina <- MCInChina
  SOA = {}
  NoSOA = NoSOA
  TTL = {1, 2}
  Bundles <- MCBundles
SPECIFICATION FairSpec
INVARIANTS
  EarlyReturnIsStable
  PartialSuccessSurvives
  CompleteIsConsensus
  TTLOfAnOwner
  SendNeverBlocks
PROPERTIES
  ResolveReturns
  MeetsContract
CHECK_DEADLOCK FALSE
