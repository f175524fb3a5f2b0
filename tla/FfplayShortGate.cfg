SPECIFICATION FairSpec
CONSTANTS
    None = None
    Silence = Silence
    W = 10
    MaxGap = 1
    Prebuffer = 2
    MaxQueue = 2
    PipeSize = 1
    First = 7
    Last = 11
    Reorder = 1
    Strays = 1
    MaxOpens = 1
PROPERTY DrainEnds
CHECK_DEADLOCK FALSE
