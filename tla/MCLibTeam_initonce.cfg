CONSTANTS
    NoAttr = NoAttr
    BadItem = BadItem
    OptVals = {v1, v2}
    Handlers = {"hBoth"}
    HandlerMask <- MCHandlerMask
    MaxChanges = 0
    OurTeam = 1
    OtherTeam = 2
    PortOrder <- MCPortOrder
    OptOrder <- MCOptOrder
    OptType <- MCOptType
    InitOutcomes = {"ok"}
    MaxKernelSteps = 1
    MaxSets = 1
    EvCap = 3
    LossBudget = 0
SPECIFICATION Spec
PROPERTY InitDispatchOnce
