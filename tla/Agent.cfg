SPECIFICATION Spec
CONSTANTS
  MaxTurns = 1
  PipeFrames = 2
INVARIANTS TurnEndsOnce CancelSound FailureExplained
PROPERTIES CallsServed
CHECK_DEADLOCK FALSE
