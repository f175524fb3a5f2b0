SPECIFICATION FairSpec
CONSTANTS
    Roles = {"mic"}
    Callers = {c1, c2}
    Starts = 1
    Sessions = 2
    Calls = 2
    StopInTeardown = FALSE
    StartAgain = FALSE
INVARIANT ClearedAlways
CHECK_DEADLOCK FALSE
