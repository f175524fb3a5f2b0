SPECIFICATION Spec
CONSTANTS
  s1 = s1
  s2 = s2
  c1 = c1
  c2 = c2
  t1 = t1
  t2 = t2
  Sessions = {s1, s2}
  Callers = {c1, c2}
  Streams = {t1, t2}
  None = None
  Overlap = FALSE
  LateAck = FALSE
  StreamMayFail = FALSE
  ControlMayFail = FALSE
SYMMETRY Symmetry
CHECK_DEADLOCK FALSE
INVARIANTS
  TypeOK
  NeverKeyedUnknowingly
  TeardownClears
  StreamsAreOwned
