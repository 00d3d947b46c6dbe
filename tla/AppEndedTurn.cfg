SPECIFICATION AppSpec
CONSTANTS
  QueueCap = 2
  SpeechCap = 1
  MaxRestarts = 0
  MaxTurns = 1
  MaxOutput = 0
  MaxIncidents = 1
INVARIANT TurnEndComes
CHECK_DEADLOCK FALSE
