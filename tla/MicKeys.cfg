SPECIFICATION FairSpec
CONSTANTS
  up = up
  p1 = p1
  c1 = c1
  c2 = c2
  Keys <- MCKeys
  Script <- MCScript
  Callers = {c1, c2}
  None = None
  MaxTaps = 1
  MaxSessions = 2
CHECK_DEADLOCK FALSE
INVARIANTS
  CountExact
  NoKeyStuck
PROPERTIES
  CallsReturn
  ScriptGoesOn
