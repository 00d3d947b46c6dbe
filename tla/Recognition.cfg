SPECIFICATION Spec
CONSTANTS
  MaxCalls = 2
  MaxSpeeches = 1
  QueueFrames = 1
  StartFrames = 2
  SilenceFrames = 1
  MaxFrames = 3
INVARIANTS CommandSound ShownTrue
PROPERTIES RecognitionStopped RequestsServed
CHECK_DEADLOCK FALSE
