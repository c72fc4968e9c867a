SPECIFICATION Spec
CONSTANTS
    World = 2
    BlockSize = 2
    Conditions = {1, 2}
    MaxLines = 6
    Cut = FALSE
    Inputs <- SomeInputs
INVARIANTS
  Protocol
  RowResults
PROPERTIES EveryoneStops ImplementsFarm
