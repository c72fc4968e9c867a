SPECIFICATION FairSpec
CONSTANTS
  Worker = {w1, w2}
  Main = main
  BlockSize = 2
  MaxJobs = 5
  MaxCalls = 2
INVARIANTS
  BagOwned
  PoolInv
  OncePerCall
PROPERTIES
  ImplementsForEach
  CallReturns
  PoolStops
