CONSTANTS
    NoAttr = NoAttr
    BadItem = BadItem
    OptVals = {v1, v2}
    Handlers = {}
    HandlerMask <- MCHandlerMask
    MaxChanges = 0
    OurTeam = 1
    OtherTeam = 2
    PortOrder <- MCPortOrder
    OptOrder <- MCOptOrder
    OptType <- MCOptType
    InitOutcomes = {"family_fail", "group_fail"}
    MaxKernelSteps = 1
    MaxSets = 1
    EvCap = 3
    LossBudget = 0
SPECIFICATION Spec
PROPERTY RequestReturns
CHECK_DEADLOCK FALSE
