SPECIFICATION FairSpec
CONSTANTS
    None = None
    Silence = Silence
    W = 12
    MaxGap = 3
    Prebuffer = 2
    MaxSession = 1
    DeviceStalls = 2
    SenderStalls = 0
    Losses = 0
    MaxAge = 5
PROPERTY CatchesUp
