SPECIFICATION Spec
CONSTANTS
  root = root
  a = a
  b = b
  c = c
  x = x
  p = p
  q = q
  none = none
  Atomic <- TreeAtomic
  Coupled <- TreeCoupled
  Top = root
  NoModel = none
  Parent <- TreeParent
  Port = {p, q}
  InitialModels <- TreeModels
  InitialPorts <- TreePorts
  InitialLinks <- TreeLinks
  Allowed <- AllOperations
  Feedback = FALSE
  MaxOps = 3
INVARIANTS
  LinksInv
  SourcesAreTargets
  TargetsFresh
  GraphSafe
