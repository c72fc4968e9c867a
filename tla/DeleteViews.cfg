SPECIFICATION Spec
CONSTANTS
  d = d
  x = x
  e = e
  f = f
  c = c
  v = v
  w = w
  Sim <- FlatSim
  Exec <- FlatExec
  Model <- FlatSim
  Above <- FlatAbove
  Initial <- FlatInitial
  Conn <- FlatConn
  Observes <- FlatObserves
  TView = {v, w}
  Timestep <- FlatTimestep
  Attached <- FlatAttached
  TimeAdvance = {1, 4}
  Begin = 0
  Duration = 2
  Infinity = 4
  Parallel = FALSE
  Throws = FALSE
  MaxKept = 1
  LaxDeletion = FALSE
  MaxOps = 1
  Deletable <- FlatSim
INVARIANTS ViewsComplete
