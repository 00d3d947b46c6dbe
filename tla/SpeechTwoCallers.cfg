SPECIFICATION Spec
CONSTANTS
  c1 = c1
  c2 = c2
  Callers = {c1, c2}
  MaxUtt = 2
  QueueLimit = 2
  RingCap = 1
SYMMETRY CallerSymmetry
INVARIANTS
  StreamSafe
  ExactlyOneComplete
  CancelNotLost
PROPERTIES
  CloseSound
  SpeakInOrder
  ImplementsContract
CHECK_DEADLOCK FALSE
