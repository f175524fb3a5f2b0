SPECIFICATION Spec
CONSTANTS
    None = None
    Silence = Silence
    W = 8
    MaxGap = 1
    Prebuffer = 1
    MaxQueue = 2
    PipeSize = 1
    First = 15
    Last = 17
    Reorder = 1
    Strays = 5
    MaxOpens = 1
PROPERTY NothingReplayed
CHECK_DEADLOCK FALSE
