SPECIFICATION FairSpec
CONSTANTS
    Roles = {"mic", "radio"}
    Callers = {c1, c2}
    Starts = 2
    Sessions = 2
    Calls = 2
    StopInTeardown = FALSE
    StartAgain = FALSE
INVARIANT QuietWithoutSession
PROPERTIES StopEnds RequestsAnswered
CHECK_DEADLOCK FALSE
