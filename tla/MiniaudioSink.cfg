SPECIFICATION FairSpec
CONSTANTS
    None = None
    Silence = Silence
    W = 12
    MaxGap = 4
    Prebuffer = 3
    MaxSession = 2
    DeviceStalls = 1
    SenderStalls = 2
    Losses = 1
    MaxAge = 8
PROPERTY GateSeparates
PROPERTY PlaysCurrentAudio
PROPERTY Resynchronizes
