SPECIFICATION FairSpec
CONSTANTS
  d = d
  x = x
  e = e
  f = f
  c = c
  v = v
  w = w
  Sim <- FlatSim
  Exec <- FlatExec
  Model <- FlatSim
  Above <- FlatAbove
  Initial <- FlatInitial
  Conn <- FlatConn
  Observes <- FlatObserves
  TView = {v, w}
  Timestep <- FlatTimestep
  Attached <- FlatAttached
  TimeAdvance = {0, 1, 2, 6}
  Begin = 0
  Duration = 3
  Infinity = 6
  Parallel = TRUE
  Throws = TRUE
  MaxKept = 2
  LaxDeletion = FALSE
  MaxOps = 1
  Deletable = {}
INVARIANTS
  EventTableInv
  ViewsComplete
PROPERTIES
  ObservedOnTime
  SimulationEnds
