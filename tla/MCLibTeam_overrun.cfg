CONSTANTS
    NoAttr = NoAttr
    BadItem = BadItem
    OptVals = {v1, v2}
    Handlers = {}
    HandlerMask <- MCHandlerMask
    MaxChanges = 0
    OurTeam = 1
    OtherTeam = 2
    PortOrder <- MCPortOrder
    OptOrder <- MCOptOrder
    OptType <- MCOptType
    InitOutcomes = {"ok", "connect_fail", "send_fail"}
    MaxKernelSteps = 2
    MaxSets = 1
    EvCap = 1
    LossBudget = 0
SPECIFICATION Spec
PROPERTY EventuallyMirrors
CHECK_DEADLOCK FALSE
