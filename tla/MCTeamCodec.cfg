CONSTANTS
    NoAttr = NoAttr
    BadItem = BadItem
    OptVals = {v1, v2}
    OurTeam = 1
    OtherTeam = 2
    PortIdx = {3, 4}
    Speeds = {100}
    OptNames = {"mode", "activeport"}
    MaxItems = 2
SPECIFICATION Spec
INVARIANT DecodeAsSpecified
