SPECIFICATION FairSpec
CONSTANTS
  up = up
  p1 = p1
  c1 = c1
  Keys <- MCKeys
  Script <- NoScript
  Callers = {c1}
  None = None
  MaxTaps = 0
  MaxSessions = 2
CHECK_DEADLOCK FALSE
PROPERTIES
  HeldKeyIsDown
