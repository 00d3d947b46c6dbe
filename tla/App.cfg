SPECIFICATION AppSpec
CONSTANTS
  QueueCap = 2
  SpeechCap = 2
  MaxRestarts = 1
  MaxTurns = 1
  MaxOutput = 1
  MaxIncidents = 2
VIEW AgeView
INVARIANTS AppTypeOK SpeechTracked AnnouncementKept TurnAgrees
PROPERTIES AnswerSound
CHECK_DEADLOCK FALSE
