SPECIFICATION FairSpec
CONSTANTS
    Faults = 1
    MidProbe = TRUE
INVARIANT KindsAgree
CHECK_DEADLOCK FALSE
