SPECIFICATION FairSpec
CONSTANTS
  s1 = s1
  c1 = c1
  c2 = c2
  t1 = t1
  t2 = t2
  Sessions = {s1}
  Callers = {c1, c2}
  Streams = {t1, t2}
  None = None
  Overlap = FALSE
  LateAck = FALSE
  StreamMayFail = TRUE
  ControlMayFail = TRUE
CHECK_DEADLOCK FALSE
PROPERTIES
  CallsReturn
  PttReleasedAfterLoss
  StreamsStop
