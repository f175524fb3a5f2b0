SPECIFICATION Spec
CONSTANTS
    Files = {f1, f2}
    Tones = {f2}
    Parrot = parrot_task
    None = none
    Presses = 0
    Limit = 2
    Plays = 2
    Losses = 0
    HalfDuplex = TRUE
    LateLock = FALSE
    StopAnytime = FALSE
    LongPress = FALSE
INVARIANT PathKept
CHECK_DEADLOCK FALSE
