CONSTANTS
    NoAttr = NoAttr
    BadItem = BadItem
    OptVals = {v1, v2}
    Handlers = {"hPort", "hBoth"}
    HandlerMask <- MCHandlerMask
    MaxChanges = 0
    OurTeam = 1
    OtherTeam = 2
    PortOrder <- MCPortOrder
    OptOrder <- MCOptOrder
    OptType <- MCOptType
    InitOutcomes = {"ok", "connect_fail", "family_fail", "group_fail", "send_fail", "options_fail"}
    MaxKernelSteps = 2
    MaxSets = 1
    EvCap = 2
    LossBudget = 1
SPECIFICATION Spec
INVARIANT LibTeamTypeOK
INVARIANT NoLostChange
INVARIANT SnapshotFromKernel
INVARIANT NoStaleReply
CHECK_DEADLOCK FALSE
