SPECIFICATION FairSpec
CONSTANTS
    Faults = 3
    MidProbe = FALSE
INVARIANT KindsAgree
INVARIANT ControlsNeedStable
INVARIANT NoMutualWait
PROPERTY ControlsComeBack
CHECK_DEADLOCK FALSE
