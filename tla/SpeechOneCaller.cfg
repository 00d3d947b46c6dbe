SPECIFICATION Spec
CONSTANTS
  c1 = c1
  Callers = {c1}
  MaxUtt = 2
  QueueLimit = 2
  RingCap = 2
INVARIANTS
  NoStaleCancel
  SuccessMeansPlayed
PROPERTIES
  Served
CHECK_DEADLOCK FALSE
