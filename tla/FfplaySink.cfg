SPECIFICATION FairSpec
CONSTANTS
    None = None
    Silence = Silence
    W = 18
    MaxGap = 2
    Prebuffer = 1
    MaxQueue = 2
    PipeSize = 1
    First = 15
    Last = 20
    Reorder = 2
    Strays = 2
    MaxOpens = 2
INVARIANT QueueBounded
PROPERTY NothingReplayed
PROPERTY DrainEnds
PROPERTY CloseEnds
CHECK_DEADLOCK FALSE
