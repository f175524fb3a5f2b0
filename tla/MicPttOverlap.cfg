SPECIFICATION Spec
CONSTANTS
  s1 = s1
  s2 = s2
  c1 = c1
  t1 = t1
  Sessions = {s1, s2}
  Callers = {c1}
  Streams = {t1}
  None = None
  Overlap = TRUE
  LateAck = FALSE
  StreamMayFail = FALSE
  ControlMayFail = FALSE
CHECK_DEADLOCK FALSE
INVARIANTS
  NeverKeyedUnknowingly
