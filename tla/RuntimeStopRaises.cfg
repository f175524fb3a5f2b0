SPECIFICATION FairSpec
CONSTANTS
    Roles = {"radio"}
    Callers = {c1}
    Starts = 1
    Sessions = 1
    Calls = 0
    StopInTeardown = FALSE
    StartAgain = FALSE
PROPERTY StopHeard
CHECK_DEADLOCK FALSE
