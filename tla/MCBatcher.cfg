SPECIFICATION FairSpec
CONSTANTS
  Loaders = {l1, l2, l3}
  Storers = {s1}
  NoLeader = NoLeader
  MaxStores = 1
INVARIANTS
  NoStaleRead
  OneSlowLoadAtATime
  NoWaiterIsForgotten
PROPERTIES
  LoadReturns
