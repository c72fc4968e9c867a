SPECIFICATION Spec
CONSTANTS
  d = d
  x = x
  e = e
  f = f
  c = c
  v = v
  w = w
  Sim <- StructureSim
  Exec <- StructureExec
  Model <- StructureModel
  Above <- StructureAbove
  Initial <- StructureInitial
  Conn <- StructureConn
  Observes <- StructureObserves
  TView = {v}
  Timestep <- StructureTimestep
  Attached <- StructureAttached
  TimeAdvance = {0, 1, 3}
  Begin = 0
  Duration = 1
  Infinity = 3
  Parallel = FALSE
  Throws = TRUE
  MaxKept = 1
  LaxDeletion = FALSE
  MaxOps = 2
  Deletable <- StructureModel
INVARIANTS
  EventTableInv
  AssertionsHold
  EventsDelivered
  DeletedModelsGone
  NoUseAfterFree
  CallsObserved
PROPERTIES
  ImplementsDevs
