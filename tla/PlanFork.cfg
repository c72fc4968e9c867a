SPECIFICATION Spec
CONSTANTS
    N = 1
    M = 2
    MaxSlots = 2
    NbOutputs = 1
    Modes = {"timeout"}
    Shapes = {"regular"}
    FailingSlots = {2}
    Owners <- Slots
INVARIANT NothingUndefined
