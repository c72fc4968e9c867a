SPECIFICATION Spec
CONSTANTS
    N = 3
    M = 2
    MaxSlots = 2
    NbOutputs = 2
    Modes = {"thread", "child", "timeout"}
    Shapes = {"regular", "scalar"}
    FailingSlots = {1}
    Owners <- Slots
INVARIANTS
  AnswerRight
  NothingUndefined
  OwnChildren
PROPERTIES FirstErrorKept PlanEnds ImplementsFarm
