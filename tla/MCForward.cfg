CONSTANTS
  f1 = f1
  h1 = h1
  Task <- MCTask
  NoTask = NoTask
  Upstreams = 2
  Forwards <- MCForwards
  hopAt <- MCHopAt
  OverallTimeout = 2
  ForwardTimeout = 1
  AttemptTimeout = 2
SPECIFICATION FairSpec
INVARIANTS
  ForwardWithin
PROPERTIES
  NoLostCount
  ForwardReturns
CHECK_DEADLOCK FALSE
