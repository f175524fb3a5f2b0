SPECIFICATION FairSpec
CONSTANTS
    Files = {f1, f2}
    Tones = {}
    Parrot = parrot_task
    None = none
    Presses = 2
    Limit = 2
    Plays = 2
    Losses = 1
    HalfDuplex = TRUE
    LateLock = FALSE
    StopAnytime = FALSE
    LongPress = FALSE
INVARIANTS TimerAfterRelease ReplayIsOnePress PathKept GateFollowsPath
PROPERTY ReleaseClosesTx
CHECK_DEADLOCK FALSE
